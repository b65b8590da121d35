---------------------------- MODULE Pricing_proofs ----------------------------
(* What a market promises about its prices, whatever the constants: theorems *)
(* about MarketMaker and the calculator of ClientMath.                       *)
EXTENDS ClientMath, Market_proofs

-----------------------------------------------------------------------------
(* Products and quotients of naturals. *)

\* A product grows with its factors.
LEMMA ProductMonotone ==
    ASSUME NEW a \in Nat, NEW b \in Nat, NEW c \in Nat, NEW d \in Nat,
           a <= b, c <= d
    PROVE  a * c <= b * d
<1>1. a * c <= b * c
    BY SMT
<1>2. b * c <= b * d
    BY SMT
<1> QED BY <1>1, <1>2

\* What a quotient is.
LEMMA Quotient ==
    ASSUME NEW a \in Nat, NEW d \in Nat \ {0}
    PROVE  /\ a \div d \in Nat
           /\ (a \div d) * d <= a
           /\ a < (a \div d) * d + d
BY SMT

\* A number whose product fits is at most the quotient.
LEMMA QuotientAtLeast ==
    ASSUME NEW a \in Nat, NEW d \in Nat \ {0}, NEW n \in Nat, n * d <= a
    PROVE  n <= a \div d
<1> DEFINE q == a \div d
<1>1. q \in Nat /\ a < q * d + d
    BY Quotient
<1> HIDE DEF q
<1>2. SUFFICES ASSUME q + 1 <= n PROVE FALSE
    BY <1>1 DEF q
<1>3. (q + 1) * d <= n * d
    BY <1>1, <1>2, ProductMonotone
<1>4. (q + 1) * d = q * d + d
    BY <1>1
<1> QED BY <1>1, <1>3, <1>4

\* A quotient grows with its dividend.
LEMMA QuotientMonotone ==
    ASSUME NEW a \in Nat, NEW b \in Nat, NEW d \in Nat \ {0}, a <= b
    PROVE  a \div d <= b \div d
<1> DEFINE q == a \div d
<1>1. q \in Nat /\ q * d <= a
    BY Quotient
<1> HIDE DEF q
<1>2. q * d <= b
    BY <1>1
<1> QED BY <1>1, <1>2, QuotientAtLeast DEF q

\* A part of a whole, as a fraction of scale, grows with the part and shrinks
\* with the rest.
LEMMA FractionMonotone ==
    ASSUME NEW a \in Nat \ {0}, NEW b \in Nat, NEW c \in Nat, NEW d \in Nat,
           NEW scale \in Nat, a <= b, d <= c
    PROVE  (a * scale) \div (a + c) <= (b * scale) \div (b + d)
<1> DEFINE n == (a * scale) \div (a + c)
           p == a * scale
<1>1. p \in Nat /\ a + c \in Nat \ {0} /\ b + d \in Nat \ {0} /\ b * scale \in Nat
    OBVIOUS
<1> HIDE DEF p
<1>2. n \in Nat /\ n * (a + c) <= p
    BY <1>1, Quotient DEF p
<1> HIDE DEF n
<1>3. n <= scale
  <2> SUFFICES ASSUME scale + 1 <= n PROVE FALSE
    BY <1>2
  <2>1. (scale + 1) * (a + c) <= n * (a + c)
    BY <1>1, <1>2, ProductMonotone
  <2>2. (scale + 1) * (a + c) = p + scale * c + a + c
    BY DEF p
  <2>3. scale * c \in Nat /\ n * (a + c) \in Nat
    BY <1>1, <1>2
  <2> QED BY <1>1, <1>2, <2>1, <2>2, <2>3
<1>4. n * (b - a) <= scale * (b - a)
    BY <1>2, <1>3, ProductMonotone
<1>5. n * (b + d) <= n * (b + c)
    BY <1>2, ProductMonotone
<1>6. n * (b + c) = n * (a + c) + n * (b - a)
    BY <1>2
<1>7. scale * (b - a) = b * scale - p
    BY DEF p
<1> DEFINE u == n * (b + d)
           v == n * (b + c)
           w == n * (a + c)
           x == n * (b - a)
           y == scale * (b - a)
           z == b * scale
<1>8. u \in Int /\ v \in Int /\ w \in Int /\ x \in Int /\ y \in Int /\ z \in Int
    BY <1>2
<1> HIDE DEF u, v, w, x, y, z
<1>9. u <= z
  <2>1. x <= y /\ u <= v /\ v = w + x /\ y = z - p /\ w <= p
    BY <1>2, <1>4, <1>5, <1>6, <1>7 DEF u, v, w, x, y, z
  <2> QED BY <1>1, <1>8, <2>1
<1>10. n * (b + d) <= b * scale
    BY <1>9 DEF u, z
<1> QED BY <1>1, <1>2, <1>10, QuotientAtLeast DEF n, p

-----------------------------------------------------------------------------
(* The exponential. *)

\* The powers in the series.
Square(x) == (x * x) \div FP_SCALE
Cube(x) == (Square(x) * x) \div FP_SCALE

\* They grow with their argument.
LEMMA PowersMonotone ==
    ASSUME NEW x \in Nat, NEW y \in Nat, x <= y
    PROVE  /\ Square(x) \in Nat /\ Square(y) \in Nat /\ Square(x) <= Square(y)
           /\ Cube(x) \in Nat /\ Cube(y) \in Nat /\ Cube(x) <= Cube(y)
<1>1. FP_SCALE \in Nat \ {0}
    BY ScaleAssumption
<1>2. x * x \in Nat /\ y * y \in Nat /\ x * x <= y * y
    BY ProductMonotone
<1>3. Square(x) \in Nat /\ Square(y) \in Nat /\ Square(x) <= Square(y)
    BY <1>1, <1>2, Quotient, QuotientMonotone DEF Square
<1>4. /\ Square(x) * x \in Nat /\ Square(y) * y \in Nat
      /\ Square(x) * x <= Square(y) * y
    BY <1>3, ProductMonotone
<1>5. Cube(x) \in Nat /\ Cube(y) \in Nat /\ Cube(x) <= Cube(y)
    BY <1>1, <1>4, Quotient, QuotientMonotone DEF Cube
<1> QED BY <1>3, <1>5

\* A checked product fails when it does not fit in a u128.
LEMMA OverflowMeans ==
    ASSUME NEW a \in Nat, NEW b \in Nat
    PROVE  MulOverflows(a, b) <=> a * b >= U128
<1>1. U128 \in Nat \ {0}
  <2>1. U64 * U64 \in Nat \ {0}
    BY LimitsAssumption
  <2> QED BY <2>1, ScaleAssumption
<1>2. CASE a = 0
    BY <1>1, <1>2 DEF MulOverflows
<1>3. CASE a # 0
  <2> DEFINE n == (U128 - 1) \div a
             p == a * b
  <2>1. n \in Nat /\ n * a <= U128 - 1 /\ U128 - 1 < n * a + a
    BY <1>1, <1>3, Quotient
  <2>2. MulOverflows(a, b) <=> b > n
    BY <1>3 DEF MulOverflows
  <2> HIDE DEF n
  <2>3. ASSUME b > n PROVE p >= U128
    <3>1. (n + 1) * a <= b * a
      BY <2>1, <2>3, ProductMonotone
    <3>2. (n + 1) * a = n * a + a /\ b * a = p
      BY <2>1
    <3>3. n * a \in Nat /\ p \in Nat
      BY <2>1
    <3> HIDE DEF p
    <3> QED BY <1>1, <2>1, <3>1, <3>2, <3>3
  <2>4. ASSUME b <= n PROVE p < U128
    <3>1. b * a <= n * a
      BY <2>1, <2>4, ProductMonotone
    <3>2. b * a = p /\ n * a \in Nat /\ p \in Nat
      BY <2>1
    <3> HIDE DEF p
    <3> QED BY <1>1, <2>1, <3>1, <3>2
  <2>5. p \in Nat
    OBVIOUS
  <2> HIDE DEF p
  <2>6. MulOverflows(a, b) <=> p >= U128
    BY <1>1, <2>1, <2>2, <2>3, <2>4, <2>5
  <2> QED BY <2>6 DEF p
<1> QED BY <1>2, <1>3

\* A checked product that fits still fits with smaller factors.
LEMMA OverflowMonotone ==
    ASSUME NEW a \in Nat, NEW b \in Nat, NEW c \in Nat, NEW d \in Nat,
           a <= b, c <= d, ~MulOverflows(b, d)
    PROVE  ~MulOverflows(a, c)
<1>1. a * c <= b * d
    BY ProductMonotone
<1>2. a * c \in Nat /\ b * d \in Nat /\ U128 \in Nat
    BY ScaleAssumption
<1> QED BY <1>1, <1>2, OverflowMeans

\* Where no checked operation fails, the exponential is the truncated series.
LEMMA ExpValue ==
    ASSUME NEW x \in Nat, fp_exp_taylor[x] >= 0
    PROVE  /\ fp_exp_taylor[x]
                = FP_SCALE + x + Square(x) \div 2 + Cube(x) \div 6
           /\ ~MulOverflows(x, x) /\ ~MulOverflows(Square(x), x)
           /\ ~MulOverflows(Square(x), FP_SCALE)
           /\ ~MulOverflows(Cube(x), FP_SCALE)
           /\ fp_exp_taylor[x] < U128
<1> DEFINE sum == FP_SCALE + x + Square(x) \div 2 + Cube(x) \div 6
           overflow == \/ MulOverflows(x, x) \/ MulOverflows(Square(x), x)
                       \/ MulOverflows(Square(x), FP_SCALE)
                       \/ MulOverflows(Cube(x), FP_SCALE)
                       \/ sum >= U128
<1>1. fp_exp_taylor[x] = IF overflow THEN Err(ERROR_OVERFLOW) ELSE sum
    BY DEF fp_exp_taylor, Square, Cube
<1>2. ~(Err(ERROR_OVERFLOW) >= 0)
    BY DEF Err, ERROR_OVERFLOW
<1> HIDE DEF sum, overflow
<1>3. ~overflow /\ fp_exp_taylor[x] = sum
    BY <1>1, <1>2
<1>4. sum \in Nat /\ U128 \in Nat
  <2>1. Square(x) \in Nat /\ Cube(x) \in Nat
    BY PowersMonotone
  <2>2. Square(x) \div 2 \in Nat /\ Cube(x) \div 6 \in Nat
    BY <2>1
  <2> QED BY <2>2, ScaleAssumption DEF sum
<1> QED BY <1>3, <1>4 DEF sum, overflow

\* The series grows with its argument; an argument below one that can be
\* computed can be computed.
LEMMA ExpMonotone ==
    ASSUME NEW x \in Nat, NEW y \in Nat, x <= y, fp_exp_taylor[y] >= 0
    PROVE  FP_SCALE <= fp_exp_taylor[x] /\ fp_exp_taylor[x] <= fp_exp_taylor[y]
<1> DEFINE sum(n) == FP_SCALE + n + Square(n) \div 2 + Cube(n) \div 6
<1>1. /\ Square(x) \in Nat /\ Square(y) \in Nat /\ Square(x) <= Square(y)
      /\ Cube(x) \in Nat /\ Cube(y) \in Nat /\ Cube(x) <= Cube(y)
    BY PowersMonotone
<1>2. FP_SCALE \in Nat \ {0} /\ U128 \in Nat
    BY ScaleAssumption
<1>3. FP_SCALE <= sum(x) /\ sum(x) <= sum(y) /\ sum(x) \in Nat /\ sum(y) \in Nat
    BY <1>1, <1>2
<1>4. /\ fp_exp_taylor[y] = sum(y) /\ sum(y) < U128
      /\ ~MulOverflows(y, y) /\ ~MulOverflows(Square(y), y)
      /\ ~MulOverflows(Square(y), FP_SCALE)
      /\ ~MulOverflows(Cube(y), FP_SCALE)
    BY ExpValue
<1> HIDE DEF sum
<1>5. /\ ~MulOverflows(x, x) /\ ~MulOverflows(Square(x), x)
      /\ ~MulOverflows(Square(x), FP_SCALE)
      /\ ~MulOverflows(Cube(x), FP_SCALE)
    BY <1>1, <1>2, <1>4, OverflowMonotone
<1>6. ~(sum(x) >= U128)
    BY <1>2, <1>3, <1>4
<1>7. fp_exp_taylor[x] = sum(x)
    BY <1>5, <1>6 DEF fp_exp_taylor, Square, Cube, sum
<1> QED BY <1>3, <1>4, <1>7

\* An exponential that could be computed can be scaled once more, so a price
\* exists wherever a cost does.
LEMMA ExpScales ==
    ASSUME NEW x \in Nat, fp_exp_taylor[x] >= 0
    PROVE  ~MulOverflows(fp_exp_taylor[x], FP_SCALE)
<1> DEFINE F == FP_SCALE
           s == Square(x)
           c == Cube(x)
           e == fp_exp_taylor[x]
<1>1. F \in Nat \ {0} /\ U128 \in Nat /\ 32 * F * F <= U128
    BY ScaleAssumption
<1>2. s \in Nat /\ c \in Nat
    BY PowersMonotone
<1>3. e = F + x + s \div 2 + c \div 6 /\ ~MulOverflows(c, F)
    BY ExpValue
<1>4. s * F <= x * x /\ x * x < s * F + F
    BY <1>1, Quotient DEF Square
<1>5. c * F <= s * x /\ s * x < c * F + F
    BY <1>1, <1>2, Quotient DEF Cube
<1> HIDE DEF F, s, c, e
<1>6. e \in Nat
    BY <1>1, <1>2, <1>3
<1>7. CASE x <= 4 * F
  <2>1. s <= 16 * F
    <3> SUFFICES ASSUME 16 * F + 1 <= s PROVE FALSE
      BY <1>1, <1>2
    <3>1. x * x <= (4 * F) * (4 * F)
      BY <1>1, <1>7, ProductMonotone
    <3>2. (16 * F + 1) * F <= s * F
      BY <1>1, <1>2, ProductMonotone
    <3>3. (4 * F) * (4 * F) = 16 * (F * F) /\ (16 * F + 1) * F = 16 * (F * F) + F
      BY <1>1
    <3>4. F * F \in Nat /\ s * F \in Nat /\ x * x \in Nat
      BY <1>1, <1>2
    <3> QED BY <1>1, <1>4, <3>1, <3>2, <3>3, <3>4
  <2>2. c <= 64 * F
    <3> SUFFICES ASSUME 64 * F + 1 <= c PROVE FALSE
      BY <1>1, <1>2
    <3>1. s * x <= (16 * F) * (4 * F)
      BY <1>1, <1>2, <1>7, <2>1, ProductMonotone
    <3>2. (64 * F + 1) * F <= c * F
      BY <1>1, <1>2, ProductMonotone
    <3>3. (16 * F) * (4 * F) = 64 * (F * F) /\ (64 * F + 1) * F = 64 * (F * F) + F
      BY <1>1
    <3>4. F * F \in Nat /\ c * F \in Nat /\ s * x \in Nat
      BY <1>1, <1>2
    <3> QED BY <1>1, <1>5, <3>1, <3>2, <3>3, <3>4
  <2>3. e <= 24 * F
    BY <1>1, <1>2, <1>3, <1>7, <2>1, <2>2
  <2>4. e * F <= (24 * F) * F
    BY <1>1, <1>6, <2>3, ProductMonotone
  <2>5. (24 * F) * F = 24 * (F * F) /\ 32 * F * F = 32 * (F * F)
    BY <1>1
  <2>6. F * F \in Nat /\ F * F > 0 /\ e * F \in Nat
    BY <1>1, <1>6
  <2>7. e * F < U128
    BY <1>1, <2>4, <2>5, <2>6
  <2> QED BY <1>1, <1>6, <2>6, <2>7, OverflowMeans DEF F, e
<1>8. CASE 4 * F < x
  <2>1. 4 * x <= s
    <3> SUFFICES ASSUME s + 1 <= 4 * x PROVE FALSE
      BY <1>2
    <3>1. (s + 1) * F <= (4 * x) * F
      BY <1>1, <1>2, ProductMonotone
    <3>2. (4 * F) * x <= x * x
      BY <1>1, <1>8, ProductMonotone
    <3>3. (s + 1) * F = s * F + F /\ (4 * x) * F = (4 * F) * x
      BY <1>1, <1>2
    <3>4. s * F \in Nat /\ (4 * F) * x \in Nat /\ x * x \in Nat
      BY <1>1, <1>2
    <3> QED BY <1>1, <1>4, <3>1, <3>2, <3>3, <3>4
  <2>2. 4 * s <= c
    <3> SUFFICES ASSUME c + 1 <= 4 * s PROVE FALSE
      BY <1>2
    <3>1. (c + 1) * F <= (4 * s) * F
      BY <1>1, <1>2, ProductMonotone
    <3>2. s * (4 * F) <= s * x
      BY <1>1, <1>2, <1>8, ProductMonotone
    <3>3. (c + 1) * F = c * F + F /\ (4 * s) * F = s * (4 * F)
      BY <1>1, <1>2
    <3>4. c * F \in Nat /\ s * (4 * F) \in Nat /\ s * x \in Nat
      BY <1>1, <1>2
    <3> QED BY <1>1, <1>5, <3>1, <3>2, <3>3, <3>4
  <2>3. e <= c
    BY <1>1, <1>2, <1>3, <1>8, <2>1, <2>2
  <2> QED BY <1>1, <1>2, <1>3, <1>6, <2>3, OverflowMonotone DEF F, e
<1> QED BY <1>1, <1>7, <1>8

\* The argument of the exponential.
Ratio(n, b) == (n * FP_SCALE) \div b

\* It grows with the shares.
LEMMA RatioMonotone ==
    ASSUME NEW n \in Nat, NEW k \in Nat, NEW b \in Nat \ {0}, n <= k
    PROVE  Ratio(n, b) \in Nat /\ Ratio(k, b) \in Nat /\ Ratio(n, b) <= Ratio(k, b)
<1>1. FP_SCALE \in Nat
    BY ScaleAssumption
<1>2. /\ n * FP_SCALE \in Nat /\ k * FP_SCALE \in Nat
      /\ n * FP_SCALE <= k * FP_SCALE
    BY <1>1, ProductMonotone
<1> QED BY <1>2, Quotient, QuotientMonotone DEF Ratio

\* What an exponential of shares that could be computed says of fewer shares.
LEMMA ExpOfShares ==
    ASSUME NEW n \in Nat, NEW k \in Nat, NEW b \in Nat \ {0}, n <= k,
           fp_exp_q_over_b(k, b) >= 0
    PROVE  /\ fp_exp_q_over_b(n, b) \in Nat /\ fp_exp_q_over_b(k, b) \in Nat
           /\ 0 < fp_exp_q_over_b(n, b)
           /\ fp_exp_q_over_b(n, b) <= fp_exp_q_over_b(k, b)
           /\ ~MulOverflows(fp_exp_q_over_b(k, b), FP_SCALE)
<1>1. FP_SCALE \in Nat \ {0}
    BY ScaleAssumption
<1>2. ~MulOverflows(k, FP_SCALE)
    BY DEF fp_exp_q_over_b, Err, ERROR_OVERFLOW
<1>3. ~MulOverflows(n, FP_SCALE)
    BY <1>1, <1>2, OverflowMonotone
<1>4. /\ fp_exp_q_over_b(k, b) = fp_exp_taylor[Ratio(k, b)]
      /\ fp_exp_q_over_b(n, b) = fp_exp_taylor[Ratio(n, b)]
    BY <1>2, <1>3 DEF fp_exp_q_over_b, Ratio
<1>5. Ratio(n, b) \in Nat /\ Ratio(k, b) \in Nat /\ Ratio(n, b) <= Ratio(k, b)
    BY RatioMonotone
<1>6. fp_exp_taylor[Ratio(n, b)] \in Int /\ fp_exp_taylor[Ratio(k, b)] \in Int
    BY <1>5, ExpType
<1>7. /\ FP_SCALE <= fp_exp_taylor[Ratio(n, b)]
      /\ fp_exp_taylor[Ratio(n, b)] <= fp_exp_taylor[Ratio(k, b)]
    BY <1>4, <1>5, ExpMonotone
<1>8. ~MulOverflows(fp_exp_taylor[Ratio(k, b)], FP_SCALE)
    BY <1>4, <1>5, ExpScales
<1> QED BY <1>1, <1>4, <1>6, <1>7, <1>8

-----------------------------------------------------------------------------
(* Prices and costs. *)

\* A sum of exponentials that could be computed.
LEMMA SumOfExponentials ==
    ASSUME NEW q \in Quantities, NEW b \in Depths, exp_sum(q, b) >= 0
    PROVE  /\ fp_exp_q_over_b(q["yes"], b) >= 0
           /\ fp_exp_q_over_b(q["no"], b) >= 0
           /\ exp_sum(q, b) = fp_exp_q_over_b(q["yes"], b)
                                + fp_exp_q_over_b(q["no"], b)
           /\ exp_sum(q, b) \in Nat /\ exp_sum(q, b) < U128
<1>1. q["yes"] \in Nat /\ q["no"] \in Nat /\ b \in Nat \ {0}
    BY DEF Quantities, Sides, Depths
<1> DEFINE yes == fp_exp_q_over_b(q["yes"], b)
           no  == fp_exp_q_over_b(q["no"], b)
<1>2. yes \in Int /\ no \in Int /\ U128 \in Nat
  <2>1. ASSUME NEW n \in Nat PROVE fp_exp_q_over_b(n, b) \in Int
    <3>1. fp_exp_taylor[Ratio(n, b)] \in Int
      BY <1>1, RatioMonotone, ExpType
    <3> QED BY <3>1 DEF fp_exp_q_over_b, Ratio, Err, ERROR_OVERFLOW
  <2> QED BY <1>1, <2>1, ScaleAssumption
<1>3. exp_sum(q, b) = checked_sum(yes, no)
    BY DEF exp_sum
<1> HIDE DEF yes, no
<1>4. ~(yes < 0 \/ no < 0 \/ yes + no >= U128) /\ exp_sum(q, b) = yes + no
    BY <1>3 DEF checked_sum, Err, ERROR_OVERFLOW
<1> QED BY <1>2, <1>4 DEF yes, no

\* A cost that could be computed had such a sum.
LEMMA CostNeedsSum ==
    ASSUME NEW q, NEW b, lmsr_cost(q, b) >= 0, exp_sum(q, b) \in Int
    PROVE  exp_sum(q, b) >= 0 /\ lmsr_cost(q, b) = b * fp_ln_series[exp_sum(q, b)]
<1>1. ~(Err(ERROR_OVERFLOW) >= 0)
    BY DEF Err, ERROR_OVERFLOW
<1>2. /\ ~(exp_sum(q, b) < 0)
      /\ lmsr_cost(q, b) = b * fp_ln_series[exp_sum(q, b)]
    BY <1>1 DEF lmsr_cost, scaled_ln
<1> QED BY <1>2

\* With more YES shares and fewer NO shares the YES price is no lower.
LEMMA PriceMonotone ==
    ASSUME NEW q \in Quantities, NEW r \in Quantities, NEW b \in Depths,
           exp_sum(q, b) >= 0, exp_sum(r, b) >= 0,
           q["yes"] <= r["yes"], r["no"] <= q["no"]
    PROVE  lmsr_price_yes(q, b) <= lmsr_price_yes(r, b)
<1> DEFINE a1 == fp_exp_q_over_b(q["yes"], b)
           c1 == fp_exp_q_over_b(q["no"], b)
           a2 == fp_exp_q_over_b(r["yes"], b)
           c2 == fp_exp_q_over_b(r["no"], b)
<1>1. /\ q["yes"] \in Nat /\ q["no"] \in Nat
      /\ r["yes"] \in Nat /\ r["no"] \in Nat /\ b \in Nat \ {0}
    BY DEF Quantities, Sides, Depths
<1>2. /\ a1 >= 0 /\ c1 >= 0 /\ exp_sum(q, b) = a1 + c1
      /\ a2 >= 0 /\ c2 >= 0 /\ exp_sum(r, b) = a2 + c2
    BY SumOfExponentials
<1>3. /\ a1 \in Nat \ {0} /\ a2 \in Nat /\ a1 <= a2
      /\ ~MulOverflows(a1, FP_SCALE) /\ ~MulOverflows(a2, FP_SCALE)
    BY <1>1, <1>2, ExpOfShares
<1>4. c1 \in Nat /\ c2 \in Nat /\ c2 <= c1
    BY <1>1, <1>2, ExpOfShares
<1>5. /\ lmsr_price_yes(q, b) = checked_fraction(a1, exp_sum(q, b))
      /\ lmsr_price_yes(r, b) = checked_fraction(a2, exp_sum(r, b))
    BY DEF lmsr_price_yes
<1> HIDE DEF a1, a2, c1, c2
<1>6. /\ lmsr_price_yes(q, b) = (a1 * FP_SCALE) \div (a1 + c1)
      /\ lmsr_price_yes(r, b) = (a2 * FP_SCALE) \div (a2 + c2)
    BY <1>2, <1>3, <1>4, <1>5 DEF checked_fraction
<1>7. FP_SCALE \in Nat
    BY ScaleAssumption
<1> QED BY <1>3, <1>4, <1>6, <1>7, FractionMonotone

\* A quote that could be computed is a difference of two costs that could be.
LEMMA QuoteIsDifference ==
    ASSUME NEW high \in Int, NEW low \in Int, cost_difference(high, low) >= 0
    PROVE  high >= 0 /\ low >= 0 /\ cost_difference(high, low) = high - low
BY DEF cost_difference, safe_sub, Err, ERROR_UNDERFLOW

\* A sum of exponentials is an integer.
LEMMA SumType ==
    ASSUME NEW q \in Quantities, NEW b \in Depths
    PROVE  exp_sum(q, b) \in Int
<1>1. SUFFICES ASSUME ~(exp_sum(q, b) \in Int) PROVE FALSE
    OBVIOUS
<1>2. ASSUME NEW n \in Nat PROVE fp_exp_q_over_b(n, b) \in Int
  <2>1. fp_exp_taylor[Ratio(n, b)] \in Int
    BY RatioMonotone, ExpType DEF Depths
  <2> QED BY <2>1 DEF fp_exp_q_over_b, Ratio, Err, ERROR_OVERFLOW
<1>3. q["yes"] \in Nat /\ q["no"] \in Nat
    BY DEF Quantities, Sides
<1> QED BY <1>1, <1>2, <1>3 DEF exp_sum, checked_sum, Err, ERROR_OVERFLOW

\* A price is an integer.
LEMMA PriceType ==
    ASSUME NEW q \in Quantities, NEW b \in Depths
    PROVE  lmsr_price_yes(q, b) \in Int
<1> DEFINE a   == fp_exp_q_over_b(q["yes"], b)
           c   == fp_exp_q_over_b(q["no"], b)
           sum == exp_sum(q, b)
<1>1. sum \in Int /\ q["yes"] \in Nat /\ q["no"] \in Nat /\ b \in Nat \ {0}
    BY SumType DEF Quantities, Sides, Depths
<1>2. CASE sum >= 0
  <2>1. a >= 0 /\ c >= 0 /\ sum = a + c
    BY <1>2, SumOfExponentials
  <2>2. a \in Nat /\ 0 < a /\ c \in Nat
    BY <1>1, <2>1, ExpOfShares
  <2> HIDE DEF a, c, sum
  <2>3. a * FP_SCALE \in Nat /\ sum \in Nat \ {0}
    BY <2>1, <2>2, ScaleAssumption
  <2>4. (a * FP_SCALE) \div sum \in Nat
    BY <2>3, Quotient
  <2> QED BY <2>4 DEF lmsr_price_yes, checked_fraction, a, sum, Err, ERROR_OVERFLOW
<1>3. CASE sum < 0
    BY <1>3 DEF lmsr_price_yes, checked_fraction, Err, ERROR_OVERFLOW
<1> QED BY <1>1, <1>2, <1>3

\* Two outstanding quantities whose costs could be computed keep the order of
\* their prices.
LEMMA CostsGivePrices ==
    ASSUME NEW q \in Quantities, NEW r \in Quantities, NEW b \in Depths,
           lmsr_cost(q, b) >= 0, lmsr_cost(r, b) >= 0,
           q["yes"] <= r["yes"], r["no"] <= q["no"]
    PROVE  lmsr_price_yes(q, b) <= lmsr_price_yes(r, b)
<1>1. exp_sum(q, b) >= 0 /\ exp_sum(r, b) >= 0
    BY SumType, CostNeedsSum
<1> QED BY <1>1, PriceMonotone

-----------------------------------------------------------------------------
(* The quotes behind accepted trades. *)

\* An accepted bet minted a number of shares whose quote it could afford.
LEMMA BetQuote ==
    ASSUME NEW m \in MarketData, m.b # 0, NEW side \in Sides, NEW amount \in Word,
           place_bet(m, side, amount).err = NoError
    PROVE  Affordable(
                lmsr_buy_quote(m.total, m.b, side, place_bet(m, side, amount).value),
                net_amount(amount))
<1> DEFINE shares == calculate_shares(m, side, amount)
           net    == net_amount(amount)
           found  == search_shares(m, side, net)
           one    == lmsr_buy_quote(m.total, m.b, side, 1)
           some   == at_least_one(found, one, net)
           after  == after_bet(m, side, amount, shares)
           placed == place_bet(m, side, amount)
           Good(n) == Affordable(lmsr_buy_quote(m.total, m.b, side, n), net)
<1>1. shares \in Int \ {0}
    BY SharesType
<1>2. placed = bet_outcome(m, side, amount, shares)
    BY DEF place_bet
<1>3. shares \in 1 .. MAX_SHARES /\ placed.value = shares
  <2> HIDE DEF shares, after
  <2>1. CASE shares \notin 1 .. MAX_SHARES
    <3>1. placed.err = -shares
      BY <1>2, <2>1 DEF bet_outcome, Failed
    <3> QED BY <1>1, <3>1 DEF NoError
  <2>2. CASE shares \in 1 .. MAX_SHARES /\ ~Fits(after_bet(m, side, amount, shares))
    <3>1. placed.err = ERROR_OVERFLOW
      BY <1>2, <2>2 DEF bet_outcome, Outcome
    <3> QED BY <3>1 DEF NoError, ERROR_OVERFLOW
  <2>3. CASE shares \in 1 .. MAX_SHARES /\ Fits(after_bet(m, side, amount, shares))
    BY <1>2, <2>3 DEF bet_outcome, Outcome
  <2> QED BY <2>1, <2>2, <2>3
<1>4. found \in 0 .. MAX_SHARES /\ (found = 0 \/ Good(found))
    BY SearchFinds
<1>5. one \in Int /\ MAX_SHARES \in Nat
  <2>1. m.total \in [Sides -> Word] /\ m.b \in Nat \ {0}
    BY LimitsAssumption DEF MarketData, Word
  <2> QED BY <2>1, QuoteType, LimitsAssumption
<1>6. shares = some
  <2>1. validate_bet_amount(amount) = NoError
    <3> SUFFICES ASSUME validate_bet_amount(amount) # NoError PROVE FALSE
      OBVIOUS
    <3>1. shares = Err(validate_bet_amount(amount))
      BY DEF calculate_shares
    <3>2. validate_bet_amount(amount) \in Nat
      BY DEF validate_bet_amount, ERROR_INVALID_BET_AMOUNT, ERROR_BET_TOO_LARGE,
             NoError
    <3> HIDE DEF shares
    <3> QED BY <1>3, <3>1, <3>2 DEF Err
  <2>2. shares = checked_shares(some)
    BY <2>1 DEF calculate_shares
  <2> HIDE DEF shares, some
  <2>3. CASE some < 0 \/ validate_shares(some) = NoError
    BY <2>2, <2>3 DEF checked_shares
  <2>4. CASE ~(some < 0 \/ validate_shares(some) = NoError)
    <3>1. shares = Err(validate_shares(some))
      BY <2>2, <2>4 DEF checked_shares
    <3>2. validate_shares(some) \in Nat
      BY DEF validate_shares, ERROR_INVALID_BET_AMOUNT, ERROR_BET_TOO_LARGE, NoError
    <3> QED BY <1>3, <3>1, <3>2 DEF Err
  <2> QED BY <2>3, <2>4
<1>7. Good(shares)
  <2> HIDE DEF shares, found, Good
  <2>1. CASE found # 0
    <3>1. some = found
      BY <2>1 DEF at_least_one
    <3> QED BY <1>4, <1>6, <2>1, <3>1
  <2>2. CASE found = 0 /\ one < 0
    <3>1. some = one
      BY <2>2 DEF at_least_one
    <3> QED BY <1>3, <1>5, <1>6, <2>2, <3>1
  <2>3. CASE found = 0 /\ ~(one < 0) /\ quote_tokens(one) > net
    <3>1. some = Err(ERROR_INVALID_BET_AMOUNT)
      BY <2>3 DEF at_least_one
    <3> QED BY <1>3, <1>6, <3>1 DEF Err, ERROR_INVALID_BET_AMOUNT
  <2>4. CASE found = 0 /\ ~(one < 0) /\ ~(quote_tokens(one) > net)
    <3>1. some = 1
      BY <2>4 DEF at_least_one
    <3>2. quote_tokens(one) \in Int
      <4>1. one \in Nat /\ FP_SCALE \in Nat \ {0} /\ U64 \in Nat \ {0}
        BY <1>5, <2>4, ScaleAssumption, LimitsAssumption
      <4> HIDE DEF one
      <4>2. one \div FP_SCALE \in Nat
        BY <4>1, Quotient
      <4> QED BY <4>1, <4>2 DEF quote_tokens
    <3>3. net \in Int
      BY FeeType, LimitsAssumption DEF Word
    <3>4. Affordable(one, net)
      <4> HIDE DEF net, one
      <4> QED BY <1>5, <2>4, <3>2, <3>3 DEF Affordable
    <3>5. Good(1)
      BY <3>4 DEF Good
    <3> QED BY <1>6, <3>1, <3>5
  <2> QED BY <2>1, <2>2, <2>3, <2>4
<1> QED BY <1>3, <1>7

\* An accepted sale pays no more than the quote of its shares.
LEMMA SaleQuote ==
    ASSUME NEW m \in MarketData, m.b # 0, NEW type \in Nat, NEW shares \in Word,
           sell_shares(m, type, shares).err = NoError
    PROVE  LET quote == lmsr_sell_quote(m.total, m.b, SideOf(type), shares)
           IN  /\ quote \in Nat
               /\ sell_shares(m, type, shares).value * FP_SCALE <= quote
<1> DEFINE side  == SideOf(type)
           gross == calculate_sell_gross(m, type, shares)
           quote == lmsr_sell_quote(m.total, m.b, side, shares)
           sold  == sell_shares(m, type, shares)
<1>1. sold.value \in 1 .. m.pool_balance /\ type <= 1 /\ shares <= m.total[side]
      /\ shares \in Nat /\ m.total[side] \in Nat
  <2>1. m.total \in [Sides -> Word] /\ side \in Sides
    BY DEF MarketData, Sides, SideOf
  <2>2. type <= 1 /\ shares \in 1 .. m.total[side] /\ sold.value \in 1 .. m.pool_balance
    BY SaleSucceeds
  <2> HIDE DEF side, sold
  <2>3. m.total[side] \in Nat
    BY <2>1, LimitsAssumption DEF Word
  <2> QED BY <2>2, <2>3
<1>2. quote \in Int
  <2>1. m.total \in [Sides -> Word] /\ m.b \in Nat \ {0} /\ side \in Sides
    BY LimitsAssumption DEF MarketData, Word, Sides, SideOf
  <2> QED BY <1>1, <2>1, QuoteType
<1>3. sold = sale_outcome(m, side, shares, gross)
    BY <1>1 DEF sell_shares
<1> HIDE DEF sold, gross, quote, side
<1>4. gross \in 0 .. MAX_BET_AMOUNT
  <2> SUFFICES ASSUME gross \notin 0 .. MAX_BET_AMOUNT PROVE FALSE
    OBVIOUS
  <2>1. sold.value = 0
    BY <1>3 DEF sale_outcome, Failed
  <2> QED BY <1>1, <2>1
<1>5. sold.value = net_amount(gross)
  <2>1. sold.value # 0
    BY <1>1
  <2> HIDE DEF sold
  <2> QED BY <1>3, <1>4, <2>1 DEF sale_outcome, Failed, Outcome
<1>6. gross = gross_tokens(quote)
  <2>1. validate_shares(shares) = NoError
    <3> SUFFICES ASSUME validate_shares(shares) # NoError PROVE FALSE
      OBVIOUS
    <3>1. gross = Err(validate_shares(shares))
      BY DEF gross, calculate_sell_gross
    <3>2. validate_shares(shares) \in Nat \ {0}
      BY DEF validate_shares, ERROR_INVALID_BET_AMOUNT, ERROR_BET_TOO_LARGE, NoError
    <3> QED BY <1>4, <3>1, <3>2 DEF Err
  <2> QED BY <1>1, <2>1 DEF gross, calculate_sell_gross, quote, side
<1>7. /\ FP_SCALE \in Nat \ {0} /\ U64 \in Nat \ {0} /\ MAX_BET_AMOUNT \in Nat
    BY ScaleAssumption, LimitsAssumption
<1>8. quote \in Nat
    BY <1>2, <1>4, <1>6, <1>7 DEF gross_tokens
<1> DEFINE tokens == quote \div FP_SCALE
<1>9. tokens \in Nat /\ tokens * FP_SCALE <= quote
    BY <1>7, <1>8, Quotient
<1> HIDE DEF tokens
<1>10. gross <= tokens
  <2>1. gross = tokens % U64
    BY <1>4, <1>6, <1>8 DEF gross_tokens, quote_tokens, tokens, Err,
                            ERROR_BET_TOO_LARGE
  <2> QED BY <1>7, <1>9, <2>1
<1>11. sold.value \in Nat /\ sold.value <= tokens
  <2>1. gross \in Nat
    BY <1>4, <1>7
  <2>2. net_amount(gross) \in 0 .. gross
    BY <2>1, NetAmount
  <2> QED BY <1>5, <1>9, <1>10, <2>1, <2>2
<1>12. sold.value * FP_SCALE <= tokens * FP_SCALE
    BY <1>7, <1>9, <1>11, ProductMonotone
<1>13. sold.value * FP_SCALE \in Nat /\ tokens * FP_SCALE \in Nat
    BY <1>7, <1>9, <1>11
<1>14. sold.value * FP_SCALE <= quote
    BY <1>8, <1>9, <1>12, <1>13
<1> QED BY <1>8, <1>14 DEF quote, side, sold

-----------------------------------------------------------------------------
(* The market under trades. *)

\* The strengthening of TypeOK: the depth is positive, and a side's total
\* counts what the traders hold.
MakerOK ==
    /\ TypeOK
    /\ market.b # 0
    /\ \A side \in Sides : held[side] <= market.total[side]

\* The two ways in which a step trades.
Bought(side, shares, net) ==
    /\ shares \in 1 .. MAX_SHARES
    /\ net \in Nat
    /\ Affordable(lmsr_buy_quote(market.total, market.b, side, shares), net)
    /\ bets < MaxBets
    /\ market' \in MarketData
    /\ market'.b = market.b
    /\ market'.total = [market.total EXCEPT ![side] = @ + shares]
    /\ market'.pool_balance = market.pool_balance + net
    /\ held' = [held EXCEPT ![side] = @ + shares]
    /\ bets' = bets + 1

Sold(side, shares, payout) ==
    /\ shares \in 1 .. held[side]
    /\ payout \in Nat
    /\ lmsr_sell_quote(market.total, market.b, side, shares) \in Nat
    /\ payout * FP_SCALE <= lmsr_sell_quote(market.total, market.b, side, shares)
    /\ market' \in MarketData
    /\ market'.b = market.b
    /\ market'.total = [market.total EXCEPT ![side] = @ - shares]
    /\ market'.pool_balance = market.pool_balance - payout
    /\ held' = [held EXCEPT ![side] = @ - shares]
    /\ bets' = bets

Traded ==
    \E side \in Sides, shares \in Nat, tokens \in Nat :
        Bought(side, shares, tokens) \/ Sold(side, shares, tokens)

\* What the invariant says of the numbers.
LEMMA MakerTypes ==
    ASSUME MakerOK
    PROVE  /\ market \in MarketData /\ market.b \in Depths
           /\ market.total \in [Sides -> Word] /\ market.total \in Quantities
           /\ held \in [Sides -> Word] /\ held \in [Sides -> Nat]
           /\ market.pool_balance \in Nat /\ bets \in Nat
BY LimitsAssumption, OpeningsAssumption
   DEF MakerOK, TypeOK, MarketData, Quantities, Depths, Word

\* A purchase that the market accepts.
LEMMA BuyTrades ==
    ASSUME MakerOK, NEW side \in Sides, NEW amount \in BetAmounts, Buy(side, amount)
    PROVE  Traded \/ UNCHANGED vars
<1> DEFINE placed == place_bet(market, side, amount)
           net    == net_amount(amount)
<1>1. market \in MarketData /\ market.b # 0 /\ amount \in Word /\ amount \in Nat
    BY OpeningsAssumption, LimitsAssumption DEF MakerOK, TypeOK, Word
<1>2. CASE placed.err = NoError
  <2>1. /\ bets < MaxBets /\ market' = placed.market
        /\ held' = [held EXCEPT ![side] = @ + placed.value] /\ bets' = bets + 1
    BY <1>2 DEF Buy
  <2>2. /\ placed.value \in 1 .. MAX_SHARES
        /\ placed.market.total = [market.total EXCEPT ![side] = @ + placed.value]
        /\ placed.market.pool_balance = market.pool_balance + net
        /\ placed.market.b = market.b
    BY <1>1, <1>2, BetSucceeds
  <2>3. placed.market \in MarketData
    BY <1>1, PlacedType
  <2>4. net \in Nat
    BY <1>1, NetAmount
  <2>5. Affordable(lmsr_buy_quote(market.total, market.b, side, placed.value), net)
    BY <1>1, <1>2, BetQuote
  <2>6. placed.value \in Nat
    BY <2>2, LimitsAssumption
  <2> HIDE DEF placed, net
  <2>7. Bought(side, placed.value, net)
    BY <2>1, <2>2, <2>3, <2>4, <2>5 DEF Bought
  <2> QED BY <2>4, <2>6, <2>7 DEF Traded
<1>3. CASE placed.err # NoError
    BY <1>3 DEF Buy
<1> QED BY <1>2, <1>3

\* A sale that the market accepts.
LEMMA SaleTrades ==
    ASSUME MakerOK, NEW type \in 0 .. 1, NEW shares \in SaleSizes,
           SellBack(type, shares)
    PROVE  Traded \/ UNCHANGED vars
<1> DEFINE sold  == sell_shares(market, type, shares)
           side  == SideOf(type)
           quote == lmsr_sell_quote(market.total, market.b, side, shares)
<1>1. /\ market \in MarketData /\ market.b # 0 /\ shares \in Word /\ shares \in Nat
      /\ type \in Nat /\ side \in Sides
    BY OpeningsAssumption, LimitsAssumption DEF MakerOK, TypeOK, Word, SideOf, Sides
<1>2. CASE sold.err = NoError
  <2>1. /\ shares <= held[side] /\ market' = sold.market
        /\ held' = [held EXCEPT ![side] = @ - shares] /\ bets' = bets
    BY <1>2 DEF SellBack
  <2>2. /\ shares \in 1 .. market.total[side]
        /\ sold.value \in 1 .. market.pool_balance
        /\ sold.market.total = [market.total EXCEPT ![side] = @ - shares]
        /\ sold.market.pool_balance = market.pool_balance - sold.value
        /\ sold.market.b = market.b
    BY <1>1, <1>2, SaleSucceeds
  <2>3. sold.market \in MarketData
    BY <1>1, SoldType
  <2>4. quote \in Nat /\ sold.value * FP_SCALE <= quote
    BY <1>1, <1>2, SaleQuote
  <2> HIDE DEF sold, side, quote
  <2>5. shares \in 1 .. held[side] /\ sold.value \in Nat
    <3>1. market.total[side] \in Nat /\ held[side] \in Nat
          /\ market.pool_balance \in Nat
      BY <1>1, MakerTypes, LimitsAssumption DEF Word
    <3> QED BY <2>1, <2>2, <3>1
  <2>6. Sold(side, shares, sold.value)
    BY <2>1, <2>2, <2>3, <2>4, <2>5 DEF Sold, quote
  <2> QED BY <1>1, <2>5, <2>6 DEF Traded
<1>3. CASE sold.err # NoError
    BY <1>3 DEF SellBack
<1> QED BY <1>2, <1>3

\* Every step trades or changes nothing.
LEMMA TradeOrStutter ==
    ASSUME MakerOK, [Next]_vars
    PROVE  Traded \/ UNCHANGED vars
<1>1. ASSUME NEW type \in 0 .. 1, NEW amount \in BetAmounts,
             Buy(SideOf(type), amount)
      PROVE  Traded \/ UNCHANGED vars
  <2>1. SideOf(type) \in Sides
    BY DEF SideOf, Sides
  <2> QED BY <1>1, <2>1, BuyTrades
<1>2. ASSUME NEW type \in 0 .. 1, NEW shares \in SaleSizes, SellBack(type, shares)
      PROVE  Traded \/ UNCHANGED vars
    BY <1>2, SaleTrades
<1> QED BY <1>1, <1>2 DEF Next

\* The invariant is preserved.
LEMMA MakerStep ==
    ASSUME MakerOK, Traded \/ UNCHANGED vars
    PROVE  MakerOK'
<1>1. CASE UNCHANGED vars
    BY <1>1 DEF MakerOK, TypeOK, vars
<1>2. CASE Traded
  <2>1. PICK side \in Sides, shares \in Nat, tokens \in Nat :
            Bought(side, shares, tokens) \/ Sold(side, shares, tokens)
    BY <1>2 DEF Traded
  <2>2. /\ market' \in MarketData /\ market'.b = market.b /\ market.b # 0
        /\ market'.total \in [Sides -> Word]
    BY <2>1 DEF Bought, Sold, MakerOK, MarketData
  <2>3. held \in [Sides -> Nat] /\ market.total \in Quantities /\ bets \in 0 .. MaxBets
    BY MakerTypes DEF MakerOK, TypeOK
  <2>4. held' \in [Sides -> Int] /\ bets' \in 0 .. MaxBets
        /\ \A s \in Sides : held'[s] >= 0 /\ held'[s] <= market'.total[s]
    <3>1. CASE Bought(side, shares, tokens)
      BY <2>3, <3>1, OpeningsAssumption DEF Bought, MakerOK, Quantities
    <3>2. CASE Sold(side, shares, tokens)
      BY <2>3, <3>2, OpeningsAssumption DEF Sold, MakerOK, Quantities
    <3> QED BY <2>1, <3>1, <3>2
  <2>5. ASSUME NEW s \in Sides PROVE held'[s] \in Word
    BY <2>2, <2>4, LimitsAssumption DEF Word
  <2>6. held' \in [Sides -> Word]
    BY <2>4, <2>5
  <2> QED BY <2>2, <2>4, <2>6 DEF MakerOK, TypeOK
<1> QED BY <1>1, <1>2

\* It holds initially.
LEMMA MakerInit == Init => MakerOK
<1> SUFFICES ASSUME Init PROVE MakerOK
    OBVIOUS
<1>1. PICK args \in Openings :
        create_error(args) = NoError /\ market = new_with_liquidity(args)
    BY DEF Init
<1>2. args \in CreateArgs
    BY OpeningsAssumption
<1>3. market \in MarketData
    BY <1>1, <1>2, NewMarketType
<1>4. market.b = args.b /\ args.b # 0
    BY <1>1 DEF new_with_liquidity, create_error, NoError, ERROR_INVALID_CALCULATION,
                ERROR_INVALID_MARKET_TIME
<1>5. held = [side \in Sides |-> 0] /\ bets = 0 /\ 0 \in Word
    BY LimitsAssumption DEF Init, Word
<1>6. market.total \in [Sides -> Word]
    BY <1>3 DEF MarketData
<1>7. \A side \in Sides : held[side] <= market.total[side]
    BY <1>5, <1>6, LimitsAssumption DEF Word
<1> QED BY <1>3, <1>4, <1>5, <1>7, OpeningsAssumption DEF MakerOK, TypeOK

\* The market stays market data with a positive depth, the shares held are
\* words that its totals count, and the bound on bets is kept.
THEOREM MakerTyped == Spec => []MakerOK
<1>1. MakerOK /\ [Next]_vars => MakerOK'
    BY TradeOrStutter, MakerStep
<1> QED BY <1>1, MakerInit, PTL DEF Spec

\* In particular every sum of MarketMaker stays typed: a checked trade never
\* leaves a total, a pool or a vault that is not a word.
THEOREM MakerTypeCorrect == Spec => []TypeOK
<1>1. MakerOK => TypeOK
    BY DEF MakerOK
<1> QED BY <1>1, MakerTyped, PTL

-----------------------------------------------------------------------------
(* Costs, prices and values over a trade. *)

\* The numbers behind a purchase: both costs could be computed.
LEMMA BoughtCosts ==
    ASSUME MakerOK, NEW side \in Sides, NEW shares \in Nat, NEW net \in Nat,
           Bought(side, shares, net)
    PROVE  /\ market'.total \in Quantities
           /\ Cost(market.total) \in Int /\ Cost(market.total) >= 0
           /\ Cost(market'.total) \in Int /\ Cost(market'.total) >= 0
           /\ LET quote == Cost(market'.total) - Cost(market.total)
              IN  /\ quote >= 0
                  /\ lmsr_buy_quote(market.total, market.b, side, shares) = quote
                  /\ quote_tokens(quote) <= net
<1> DEFINE new   == [market.total EXCEPT ![side] = @ + shares]
           quote == lmsr_buy_quote(market.total, market.b, side, shares)
           b     == market.b
<1>1. b \in Nat \ {0} /\ market.total \in [Sides -> Nat]
    BY MakerTypes DEF Depths, Quantities
<1>2. new \in [Sides -> Nat] /\ new = market'.total
    BY <1>1 DEF Bought
<1>3. quote >= 0 /\ quote_tokens(quote) <= net
    BY DEF Bought, Affordable
<1>4. lmsr_cost(new, b) \in Int /\ lmsr_cost(market.total, b) \in Int
    BY <1>1, <1>2, CostType
<1>5. quote = cost_difference(lmsr_cost(new, b), lmsr_cost(market.total, b))
  <2>1. ~(Err(ERROR_OVERFLOW) >= 0)
    BY DEF Err, ERROR_OVERFLOW
  <2> QED BY <1>3, <2>1 DEF lmsr_buy_quote
<1> HIDE DEF new, quote
<1>6. /\ lmsr_cost(new, b) >= 0 /\ lmsr_cost(market.total, b) >= 0
      /\ quote = lmsr_cost(new, b) - lmsr_cost(market.total, b)
    BY <1>3, <1>4, <1>5, QuoteIsDifference
<1>7. Cost(market.total) = lmsr_cost(market.total, b)
      /\ Cost(market'.total) = lmsr_cost(new, b)
    BY <1>2 DEF Cost
<1>8. market'.total \in Quantities
    BY <1>2 DEF Quantities
<1> QED BY <1>3, <1>4, <1>6, <1>7, <1>8 DEF quote

\* The numbers behind a sale.
LEMMA SoldCosts ==
    ASSUME MakerOK, NEW side \in Sides, NEW shares \in Nat, NEW payout \in Nat,
           Sold(side, shares, payout)
    PROVE  /\ market'.total \in Quantities
           /\ Cost(market.total) \in Int /\ Cost(market.total) >= 0
           /\ Cost(market'.total) \in Int /\ Cost(market'.total) >= 0
           /\ payout * FP_SCALE <= Cost(market.total) - Cost(market'.total)
<1> DEFINE new   == [market.total EXCEPT ![side] = @ - shares]
           quote == lmsr_sell_quote(market.total, market.b, side, shares)
           b     == market.b
<1>1. /\ b \in Nat \ {0} /\ market.total \in [Sides -> Nat]
      /\ shares <= market.total[side]
  <2>1. held[side] \in Nat /\ held[side] <= market.total[side]
        /\ market.total[side] \in Nat /\ shares <= held[side]
    BY MakerTypes DEF MakerOK, Sold, Quantities
  <2> QED BY <2>1, MakerTypes DEF Depths, Quantities
<1>2. new \in [Sides -> Nat] /\ new = market'.total
    BY <1>1 DEF Sold
<1>3. quote >= 0 /\ payout * FP_SCALE <= quote
    BY DEF Sold
<1>4. lmsr_cost(new, b) \in Int /\ lmsr_cost(market.total, b) \in Int
    BY <1>1, <1>2, CostType
<1>5. quote = cost_difference(lmsr_cost(market.total, b), lmsr_cost(new, b))
  <2>1. ~(Err(ERROR_INVALID_BET_AMOUNT) >= 0)
    BY DEF Err, ERROR_INVALID_BET_AMOUNT
  <2> QED BY <1>3, <2>1 DEF lmsr_sell_quote
<1> HIDE DEF new, quote
<1>6. /\ lmsr_cost(new, b) >= 0 /\ lmsr_cost(market.total, b) >= 0
      /\ quote = lmsr_cost(market.total, b) - lmsr_cost(new, b)
    BY <1>3, <1>4, <1>5, QuoteIsDifference
<1>7. Cost(market.total) = lmsr_cost(market.total, b)
      /\ Cost(market'.total) = lmsr_cost(new, b)
    BY <1>2 DEF Cost
<1>8. market'.total \in Quantities
    BY <1>2 DEF Quantities
<1> QED BY <1>3, <1>4, <1>6, <1>7, <1>8

\* The shares a trade moves, and where the price goes.
YesMoved == market'.total["yes"] - market.total["yes"]
NoMoved  == market'.total["no"] - market.total["no"]
PriceFollows ==
    /\ YesMoved > NoMoved => YesPrice(market') >= YesPrice(market)
    /\ YesMoved < NoMoved => YesPrice(market') <= YesPrice(market)

\* A trade moves the price its way: it changes one side, and the exponential
\* grows with the shares although the cost function does not.
LEMMA TradeMovesPrice == ASSUME MakerOK, Traded PROVE PriceFollows
<1>1. PICK side \in Sides, shares \in Nat, tokens \in Nat :
        Bought(side, shares, tokens) \/ Sold(side, shares, tokens)
    BY DEF Traded
<1> DEFINE q == market.total
           b == market.b
<1>2. /\ q \in Quantities /\ b \in Depths /\ market'.b = b
    BY <1>1, MakerTypes DEF Bought, Sold
<1>3. /\ market'.total \in Quantities
      /\ Cost(q) >= 0 /\ Cost(market'.total) >= 0
    BY <1>1, BoughtCosts, SoldCosts
<1>4. PICK r : r = market'.total
    OBVIOUS
<1>5. PICK y : y = YesPrice(market')
    OBVIOUS
<1>6. /\ lmsr_cost(q, b) >= 0 /\ lmsr_cost(r, b) >= 0 /\ r \in Quantities
    BY <1>3, <1>4 DEF Cost
<1>7. YesPrice(market) = lmsr_price_yes(q, b) /\ y = lmsr_price_yes(r, b)
    BY <1>2, <1>4, <1>5 DEF YesPrice
<1>8. \/ r = [q EXCEPT ![side] = @ + shares]
      \/ r = [q EXCEPT ![side] = @ - shares]
    BY <1>1, <1>4 DEF Bought, Sold
<1>9. /\ q["yes"] \in Nat /\ q["no"] \in Nat /\ r["yes"] \in Nat /\ r["no"] \in Nat
    BY <1>2, <1>6 DEF Quantities, Sides
<1>10. r["yes"] = q["yes"] \/ r["no"] = q["no"]
    BY <1>2, <1>8 DEF Quantities, Sides
<1> HIDE DEF q, b
<1>11. ASSUME r["yes"] - q["yes"] > r["no"] - q["no"]
       PROVE  lmsr_price_yes(q, b) <= lmsr_price_yes(r, b)
  <2>1. q["yes"] <= r["yes"] /\ r["no"] <= q["no"]
    BY <1>9, <1>10, <1>11
  <2> QED BY <1>2, <1>6, <2>1, CostsGivePrices
<1>12. ASSUME r["yes"] - q["yes"] < r["no"] - q["no"]
       PROVE  lmsr_price_yes(r, b) <= lmsr_price_yes(q, b)
  <2>1. r["yes"] <= q["yes"] /\ q["no"] <= r["no"]
    BY <1>9, <1>10, <1>12
  <2> QED BY <1>2, <1>6, <2>1, CostsGivePrices
<1>13. /\ lmsr_price_yes(q, b) \in Int /\ lmsr_price_yes(r, b) \in Int
    BY <1>2, <1>6, PriceType
<1>14. /\ r["yes"] - q["yes"] > r["no"] - q["no"] => y >= YesPrice(market)
       /\ r["yes"] - q["yes"] < r["no"] - q["no"] => y <= YesPrice(market)
    BY <1>7, <1>11, <1>12, <1>13
<1> QED BY <1>4, <1>5, <1>14 DEF PriceFollows, YesMoved, NoMoved, q

\* A trade never moves the price against its direction.
THEOREM PricesFollowTrades == Spec => PriceFollowsTrades
<1>1. MakerOK /\ [Next]_vars => [PriceFollows]_vars
    BY TradeOrStutter, TradeMovesPrice
<1>2. [PriceFollows]_vars
        <=> [/\ market'.total["yes"] - market.total["yes"]
                    > market'.total["no"] - market.total["no"]
                  => YesPrice(market') >= YesPrice(market)
             /\ market'.total["yes"] - market.total["yes"]
                    < market'.total["no"] - market.total["no"]
                  => YesPrice(market') <= YesPrice(market)]_vars
    BY DEF PriceFollows, YesMoved, NoMoved
<1> QED BY <1>1, <1>2, MakerTyped, PTL DEF Spec, PriceFollowsTrades

\* What one step says of a round trip on one side.
NoGain(type) ==
    market'.total[SideOf(type)] - market.total[SideOf(type)] > 0 =>
        calculate_sell_gross(market', type,
                market'.total[SideOf(type)] - market.total[SideOf(type)])
            <= market'.pool_balance - market.pool_balance

\* The shares a bet minted are worth its quote, which its net amount afforded.
LEMMA BetBuysNoMore ==
    ASSUME MakerOK, NEW type \in 0 .. 1, NEW shares \in Nat, NEW net \in Nat,
           Bought(SideOf(type), shares, net)
    PROVE  calculate_sell_gross(market', type, shares) <= net
<1> DEFINE side == SideOf(type)
           q == market.total
           b == market.b
<1>1. /\ side \in Sides /\ q \in Quantities /\ b \in Depths
      /\ shares \in 1 .. MAX_SHARES /\ market'.b = b
    BY MakerTypes DEF SideOf, Sides, Bought
<1>2. PICK r : r = market'.total
    OBVIOUS
<1>3. r \in Quantities /\ r = [q EXCEPT ![side] = @ + shares]
    BY <1>1, <1>2, BoughtCosts DEF Bought
<1>4. PICK quote \in Int : quote = lmsr_cost(r, b) - lmsr_cost(q, b)
  <2>1. lmsr_cost(r, b) \in Int /\ lmsr_cost(q, b) \in Int
    BY <1>1, <1>3, CostType DEF Quantities, Depths
  <2> QED BY <2>1
<1>5. /\ lmsr_cost(q, b) \in Int /\ lmsr_cost(r, b) \in Int
      /\ lmsr_cost(q, b) >= 0 /\ lmsr_cost(r, b) >= 0
      /\ quote >= 0 /\ quote_tokens(quote) <= net
    BY <1>1, <1>2, <1>4, BoughtCosts DEF Cost
<1> HIDE DEF side, q, b
<1>6. lmsr_sell_quote(r, b, side, shares) = quote
  <2>1. shares <= r[side] /\ shares \in Nat /\ r[side] \in Nat
    BY <1>1, <1>3 DEF Quantities
  <2>2. [r EXCEPT ![side] = @ - shares] = q
    <3>1. \A s \in Sides : [r EXCEPT ![side] = @ - shares][s] = q[s]
      BY <1>1, <1>3 DEF Quantities
    <3>2. [r EXCEPT ![side] = @ - shares] \in [Sides -> Int]
      BY <1>1, <1>3 DEF Quantities
    <3>3. q \in [Sides -> Nat]
      BY <1>1 DEF Quantities
    <3> QED BY <3>1, <3>2, <3>3
  <2>3. lmsr_sell_quote(r, b, side, shares)
            = cost_difference(lmsr_cost(r, b), lmsr_cost(q, b))
    <3>1. ~(shares > r[side])
      BY <2>1
    <3> QED BY <2>2, <3>1, Zenon DEF lmsr_sell_quote
  <2> QED BY <1>4, <1>5, <2>3 DEF cost_difference, safe_sub
<1>7. validate_shares(shares) = NoError /\ ~(type > 1)
    BY <1>1, LimitsAssumption DEF validate_shares
<1>8. calculate_sell_gross(market', type, shares) = gross_tokens(quote)
    BY <1>1, <1>2, <1>6, <1>7 DEF calculate_sell_gross, side
<1>9. gross_tokens(quote) <= net
  <2>1. CASE quote_tokens(quote) \in 0 .. MAX_BET_AMOUNT
    BY <1>5, <2>1 DEF gross_tokens
  <2>2. CASE quote_tokens(quote) \notin 0 .. MAX_BET_AMOUNT
    <3>1. gross_tokens(quote) = Err(ERROR_BET_TOO_LARGE)
      BY <1>5, <2>2 DEF gross_tokens
    <3> QED BY <3>1 DEF Err, ERROR_BET_TOO_LARGE
  <2> QED BY <2>1, <2>2
<1> QED BY <1>8, <1>9

\* No trade leaves a round trip that pays.
LEMMA TradeLeavesNoGain ==
    ASSUME MakerOK, Traded, NEW type \in 0 .. 1
    PROVE  NoGain(type)
<1>1. PICK side \in Sides, shares \in Nat, tokens \in Nat :
        Bought(side, shares, tokens) \/ Sold(side, shares, tokens)
    BY DEF Traded
<1>2. PICK more : more = market'.total[SideOf(type)] - market.total[SideOf(type)]
    OBVIOUS
<1>3. SideOf(type) \in Sides /\ market.total \in [Sides -> Nat]
      /\ market.pool_balance \in Nat
    BY MakerTypes DEF SideOf, Sides, Quantities
<1>4. CASE Bought(side, shares, tokens) /\ side = SideOf(type)
  <2>1. more = shares
    BY <1>2, <1>3, <1>4 DEF Bought
  <2>2. market'.pool_balance - market.pool_balance = tokens
    BY <1>3, <1>4 DEF Bought
  <2>3. calculate_sell_gross(market', type, shares) <= tokens
    BY <1>4, BetBuysNoMore
  <2> QED BY <1>2, <2>1, <2>2, <2>3 DEF NoGain
<1>5. CASE Bought(side, shares, tokens) /\ side # SideOf(type)
  <2>1. ~(more > 0)
    BY <1>2, <1>3, <1>5 DEF Bought
  <2> QED BY <1>2, <2>1 DEF NoGain
<1>6. CASE Sold(side, shares, tokens)
  <2>1. ~(more > 0)
    BY <1>2, <1>3, <1>6 DEF Sold
  <2> QED BY <1>2, <2>1 DEF NoGain
<1> QED BY <1>1, <1>4, <1>5, <1>6

\* Buying and selling back at once never pays.
THEOREM RoundTripsNeverPay == Spec => RoundTripNeverPays
<1>1. MakerOK /\ [Next]_vars => [\A type \in 0 .. 1 : NoGain(type)]_vars
    BY TradeOrStutter, TradeLeavesNoGain
<1>2. [\A type \in 0 .. 1 : NoGain(type)]_vars
        <=> [\A type \in 0 .. 1 :
                LET minted == market'.total[SideOf(type)]
                                - market.total[SideOf(type)]
                    net    == market'.pool_balance - market.pool_balance
                IN  minted > 0 =>
                        calculate_sell_gross(market', type, minted) <= net]_vars
    BY DEF NoGain
<1> QED BY <1>1, <1>2, MakerTyped, PTL DEF Spec, RoundTripNeverPays

-----------------------------------------------------------------------------
(* The pool against the cost function. *)

\* The depths in which no cost, in whole tokens, is more than a word.  With the
\* constants of the program these are the depths up to 2^64 / 76.
DepthsFit ==
    \A args \in Openings : \A sum \in Nat :
        sum < U128 => args.b * fp_ln_series[sum] < U64 * FP_SCALE

\* The invariant: the market keeps the depth of its opening, and the pool
\* covers the cost.
PoolOK ==
    /\ MakerOK
    /\ \E args \in Openings : market.b = args.b
    /\ PoolCoversCost

\* A trade does not change how many shares there were at the creation.
LEMMA OpeningKept == ASSUME MakerOK, Traded PROVE Opening' = Opening
<1>1. PICK side \in Sides, shares \in Nat, tokens \in Nat :
        Bought(side, shares, tokens) \/ Sold(side, shares, tokens)
    BY DEF Traded
<1>2. held \in [Sides -> Nat] /\ market.total \in [Sides -> Nat]
    BY MakerTypes DEF Quantities
<1>3. ASSUME NEW s \in Sides
      PROVE  market'.total[s] - held'[s] = market.total[s] - held[s]
  <2>1. CASE Bought(side, shares, tokens)
    BY <1>2, <2>1 DEF Bought
  <2>2. CASE Sold(side, shares, tokens)
    BY <1>2, <2>2 DEF Sold
  <2> QED BY <1>1, <2>1, <2>2
<1> QED BY <1>3 DEF Opening

\* The opening quantities are naturals.
LEMMA OpeningType == ASSUME MakerOK PROVE Opening \in Quantities
<1>1. held \in [Sides -> Nat] /\ market.total \in [Sides -> Nat]
    BY MakerTypes DEF Quantities
<1>2. \A side \in Sides : market.total[side] - held[side] \in Nat
    BY <1>1 DEF MakerOK
<1> QED BY <1>2 DEF Opening, Quantities

\* A trade in a market whose costs fit keeps the pool's cover: a purchase adds
\* at most one token of rounding, a sale takes no more than it lowers the cost.
LEMMA PoolStep ==
    ASSUME DepthsFit, PoolOK, Traded
    PROVE  PoolOK'
<1>1. PICK side \in Sides, shares \in Nat, tokens \in Nat :
        Bought(side, shares, tokens) \/ Sold(side, shares, tokens)
    BY DEF Traded
<1>2. MakerOK /\ MakerOK'
    BY MakerStep DEF PoolOK
<1>3. market'.b = market.b
    BY <1>1 DEF Bought, Sold
<1>4. PICK args \in Openings : market.b = args.b
    BY DEF PoolOK
<1>5. PICK before, after, opened, newopened :
        /\ before = Cost(market.total) /\ after = Cost(market'.total)
        /\ opened = Cost(Opening) /\ newopened = Cost(Opening)'
    OBVIOUS
<1>6. /\ before \in Int /\ before >= 0
      /\ after \in Int /\ after >= 0
    BY <1>1, <1>2, <1>5, BoughtCosts, SoldCosts
<1>7. opened \in Int
  <2>1. market.b \in Nat \ {0} /\ Opening \in [Sides -> Nat]
    BY <1>2, MakerTypes, OpeningType DEF Depths, Quantities
  <2> QED BY <1>5, <2>1, CostType DEF Cost
<1>8. newopened = opened
  <2>1. Opening' = Opening
    BY <1>2, OpeningKept
  <2> QED BY <1>3, <1>5, <2>1 DEF Cost
<1>9. PICK old, new : /\ old = (market.pool_balance + bets) * FP_SCALE
                      /\ new = (market'.pool_balance + bets') * FP_SCALE
    OBVIOUS
<1>10. before - opened <= old
    BY <1>5, <1>9 DEF PoolOK, PoolCoversCost
<1>11. /\ FP_SCALE \in Nat \ {0} /\ U64 \in Nat \ {0}
       /\ market.pool_balance \in Nat /\ bets \in Nat
    BY <1>2, MakerTypes, ScaleAssumption, LimitsAssumption
<1>12. old \in Int
    BY <1>9, <1>11
<1>13. new \in Int /\ after - opened <= new
  <2>1. CASE Bought(side, shares, tokens)
    <3>1. quote_tokens(after - before) <= tokens /\ after - before >= 0
      BY <1>2, <1>5, <2>1, BoughtCosts
    <3>2. after < U64 * FP_SCALE
      <4>1. market'.total \in Quantities /\ market.b \in Depths
        BY <1>2, <2>1, BoughtCosts, MakerTypes
      <4>2. PICK r : r = market'.total
        OBVIOUS
      <4>3. after = lmsr_cost(r, market.b)
        BY <1>3, <1>5, <4>2 DEF Cost
      <4>4. exp_sum(r, market.b) \in Nat /\ exp_sum(r, market.b) < U128
            /\ after = market.b * fp_ln_series[exp_sum(r, market.b)]
        BY <1>6, <4>1, <4>2, <4>3, SumType, CostNeedsSum, SumOfExponentials
      <4> QED BY <1>4, <4>4 DEF DepthsFit
    <3> DEFINE quote == after - before
               whole == quote \div FP_SCALE
    <3>3. quote \in Nat /\ quote < U64 * FP_SCALE
      <4>1. U64 * FP_SCALE \in Nat
        BY <1>11
      <4> QED BY <1>6, <3>1, <3>2, <4>1
    <3> HIDE DEF quote
    <3>4. whole \in Nat /\ whole * FP_SCALE <= quote
          /\ quote < whole * FP_SCALE + FP_SCALE
      BY <1>11, <3>3, Quotient
    <3>5. whole < U64
      <4> SUFFICES ASSUME U64 <= whole PROVE FALSE
        BY <1>11, <3>4
      <4> HIDE DEF whole
      <4>1. U64 * FP_SCALE <= whole * FP_SCALE
        BY <1>11, <3>4, ProductMonotone
      <4>2. U64 * FP_SCALE \in Nat /\ whole * FP_SCALE \in Nat
        BY <1>11, <3>4
      <4> QED BY <3>3, <3>4, <4>1, <4>2
    <3>6. whole <= tokens
      <4>1. quote_tokens(quote) = whole % U64
        BY DEF quote_tokens, whole
      <4> HIDE DEF whole
      <4>2. whole % U64 = whole
        BY <1>11, <3>4, <3>5
      <4> QED BY <3>1, <4>1, <4>2 DEF quote
    <3> HIDE DEF whole
    <3>7. whole * FP_SCALE <= tokens * FP_SCALE
      BY <1>11, <3>4, <3>6, ProductMonotone
    <3>8. market'.pool_balance = market.pool_balance + tokens /\ bets' = bets + 1
      BY <2>1 DEF Bought
    <3>9. new = old + tokens * FP_SCALE + FP_SCALE
      <4>1. PICK n \in Nat : n = market.pool_balance + bets
        BY <1>11
      <4>2. market'.pool_balance + bets' = n + (tokens + 1)
        BY <1>11, <3>8, <4>1
      <4>3. old = n * FP_SCALE /\ new = (n + (tokens + 1)) * FP_SCALE
        BY <1>9, <4>1, <4>2
      <4> QED BY <1>11, <4>3
    <3>10. tokens * FP_SCALE \in Int /\ whole * FP_SCALE \in Int
      BY <1>11, <3>4
    <3> QED BY <1>6, <1>7, <1>10, <1>11, <1>12, <3>3, <3>4, <3>7, <3>9, <3>10
            DEF quote
  <2>2. CASE Sold(side, shares, tokens)
    <3>1. tokens * FP_SCALE <= before - after
      BY <1>2, <1>5, <2>2, SoldCosts
    <3>2. market'.pool_balance = market.pool_balance - tokens /\ bets' = bets
      BY <2>2 DEF Sold
    <3>3. new = old - tokens * FP_SCALE
      BY <1>9, <1>11, <3>2
    <3>4. tokens * FP_SCALE \in Int
      BY <1>11
    <3> QED BY <1>6, <1>7, <1>10, <1>12, <3>1, <3>3, <3>4
  <2> QED BY <1>1, <2>1, <2>2
<1>14. PoolCoversCost'
  <2>1. lmsr_cost(market'.total, market'.b) = after
    BY <1>3, <1>5 DEF Cost
  <2>2. lmsr_cost(Opening', market'.b) = opened
    BY <1>5, <1>8 DEF Cost
  <2> QED BY <1>9, <1>13, <2>1, <2>2 DEF PoolCoversCost, Cost
<1> QED BY <1>2, <1>3, <1>14 DEF PoolOK

\* Initially nobody holds shares, so the two costs are the same.
LEMMA PoolInit == Init => PoolOK
<1> SUFFICES ASSUME Init PROVE PoolOK
    OBVIOUS
<1>1. MakerOK
    BY MakerInit
<1>2. \E args \in Openings : market.b = args.b
    BY DEF Init, new_with_liquidity
<1>3. /\ bets = 0 /\ market.pool_balance = 0 /\ held = [side \in Sides |-> 0]
      /\ FP_SCALE \in Nat
    BY ScaleAssumption DEF Init, new_with_liquidity
<1>4. market.total \in [Sides -> Nat] /\ market.b \in Nat \ {0}
    BY <1>1, MakerTypes DEF Quantities, Depths
<1>5. Opening = market.total
    BY <1>3, <1>4 DEF Opening
<1>6. Cost(market.total) \in Int
    BY <1>4, CostType DEF Cost
<1>7. (market.pool_balance + bets) * FP_SCALE = 0
    BY <1>3
<1>8. PoolCoversCost
    BY <1>5, <1>6, <1>7 DEF PoolCoversCost
<1> QED BY <1>1, <1>2, <1>8 DEF PoolOK

\* In markets whose costs are words, the pool is short of what the cost
\* function says by at most one token a bet, whatever the trades.
THEOREM PoolCovers ==
    ASSUME DepthsFit
    PROVE  Spec => []PoolCoversCost
<1>1. PoolOK /\ [Next]_vars => PoolOK'
  <2> SUFFICES ASSUME PoolOK, [Next]_vars PROVE PoolOK'
    OBVIOUS
  <2>1. Traded \/ UNCHANGED vars
    BY TradeOrStutter DEF PoolOK
  <2>2. CASE UNCHANGED vars
    BY <2>2 DEF PoolOK, MakerOK, TypeOK, PoolCoversCost, Cost, Opening, vars
  <2> QED BY <2>1, <2>2, PoolStep
<1>2. PoolOK => PoolCoversCost
    BY DEF PoolOK
<1> QED BY <1>1, <1>2, PoolInit, PTL DEF Spec

-----------------------------------------------------------------------------
(* The calculator of target prices.  The client's arithmetic is its own; it  *)
(* has the same squares and cubes, and its divisors do not spoil the order.  *)

\* A quotient of naturals, as bigint rounds it.
LEMMA BigDivOfNaturals ==
    ASSUME NEW a \in Nat, NEW b \in Nat \ {0}
    PROVE  BigDiv(a, b) = a \div b
BY DEF BigDiv

\* The client's exponential is the series with its divisors, and grows.
LEMMA ClientExpMonotone ==
    ASSUME NEW x \in Nat, NEW y \in Nat, x <= y
    PROVE  /\ fpExpTaylor(x) \in Nat \ {0} /\ fpExpTaylor(y) \in Nat
           /\ fpExpTaylor(x) <= fpExpTaylor(y)
<1> DEFINE F == FP_SCALE
           sum(n) == F + n + (Square(n) * F) \div 2 + (Cube(n) * F) \div 6
<1>1. F \in Nat \ {0}
    BY ScaleAssumption
<1>2. ASSUME NEW n \in Nat PROVE fpExpTaylor(n) = sum(n)
  <2>1. Square(n) \in Nat /\ Cube(n) \in Nat
    BY PowersMonotone
  <2>2. fpMul(n, n) = Square(n)
    <3>1. n * n \in Nat
      OBVIOUS
    <3> QED BY <1>1, <3>1, BigDivOfNaturals DEF fpMul, Square
  <2>3. fpMul(Square(n), n) = Cube(n)
    <3>1. Square(n) * n \in Nat
      BY <2>1
    <3> QED BY <1>1, <3>1, BigDivOfNaturals DEF fpMul, Cube
  <2>4. ASSUME NEW k \in Nat, NEW d \in Nat \ {0}
        PROVE  fpDiv(k, d) = (k * F) \div d
    <3>1. k * F \in Nat
      BY <1>1
    <3> QED BY <3>1, BigDivOfNaturals DEF fpDiv
  <2>5. fpExpTaylor(n) = F + n + fpDiv(Square(n), 2) + fpDiv(Cube(n), 6)
    BY <2>2, <2>3 DEF fpExpTaylor
  <2>6. fpDiv(Square(n), 2) = (Square(n) * F) \div 2
        /\ fpDiv(Cube(n), 6) = (Cube(n) * F) \div 6
    BY <2>1, <2>4
  <2> QED BY <2>5, <2>6
<1>3. /\ Square(x) \in Nat /\ Square(y) \in Nat /\ Square(x) <= Square(y)
      /\ Cube(x) \in Nat /\ Cube(y) \in Nat /\ Cube(x) <= Cube(y)
    BY PowersMonotone
<1>4. /\ Square(x) * F \in Nat /\ Square(y) * F \in Nat
      /\ Square(x) * F <= Square(y) * F
      /\ Cube(x) * F \in Nat /\ Cube(y) * F \in Nat
      /\ Cube(x) * F <= Cube(y) * F
    BY <1>1, <1>3, ProductMonotone
<1>5. /\ (Square(x) * F) \div 2 \in Nat /\ (Square(y) * F) \div 2 \in Nat
      /\ (Square(x) * F) \div 2 <= (Square(y) * F) \div 2
      /\ (Cube(x) * F) \div 6 \in Nat /\ (Cube(y) * F) \div 6 \in Nat
      /\ (Cube(x) * F) \div 6 <= (Cube(y) * F) \div 6
    BY <1>4, Quotient, QuotientMonotone
<1>6. sum(x) \in Nat \ {0} /\ sum(y) \in Nat /\ sum(x) <= sum(y)
    BY <1>1, <1>5
<1> QED BY <1>2, <1>6

\* The price the client shows for more YES shares is no lower.
LEMMA ClientPriceMonotone ==
    ASSUME NEW q \in Quantities, NEW b \in Depths, NEW n \in Nat, NEW k \in Nat,
           n <= k
    PROVE  /\ priceWith(q, b, n) \in Nat /\ priceWith(q, b, k) \in Nat
           /\ priceWith(q, b, n) <= priceWith(q, b, k)
<1> DEFINE yes(i) == fpExpQOverB(q["yes"] + i, b)
           no == fpExpQOverB(q["no"], b)
<1>1. q["yes"] \in Nat /\ q["no"] \in Nat /\ b \in Nat \ {0} /\ FP_SCALE \in Nat
    BY ScaleAssumption DEF Quantities, Sides, Depths
<1>2. ASSUME NEW i \in Nat, NEW j \in Nat, i <= j
      PROVE  /\ fpExpQOverB(i, b) \in Nat \ {0} /\ fpExpQOverB(j, b) \in Nat
             /\ fpExpQOverB(i, b) <= fpExpQOverB(j, b)
  <2>1. Ratio(i, b) \in Nat /\ Ratio(j, b) \in Nat /\ Ratio(i, b) <= Ratio(j, b)
    BY <1>1, <1>2, RatioMonotone
  <2>2. /\ fpExpQOverB(i, b) = fpExpTaylor(Ratio(i, b))
        /\ fpExpQOverB(j, b) = fpExpTaylor(Ratio(j, b))
    BY DEF fpExpQOverB, Ratio
  <2> QED BY <2>1, <2>2, ClientExpMonotone
<1>3. /\ yes(n) \in Nat \ {0} /\ yes(k) \in Nat \ {0} /\ yes(n) <= yes(k)
      /\ no \in Nat
  <2>1. q["yes"] + n \in Nat /\ q["yes"] + k \in Nat /\ q["yes"] + n <= q["yes"] + k
    BY <1>1
  <2>2. yes(n) \in Nat \ {0} /\ yes(n) <= yes(k) /\ yes(k) \in Nat
    BY <1>2, <2>1
  <2>3. no \in Nat
    BY <1>1, <1>2
  <2> HIDE DEF yes, no
  <2> QED BY <2>2, <2>3
<1>4. ASSUME NEW i \in Nat, yes(i) \in Nat
      PROVE  priceWith(q, b, i) = BigDiv(yes(i) * FP_SCALE, yes(i) + no)
  <2>1. PICK r : r = [q EXCEPT !["yes"] = @ + i]
    OBVIOUS
  <2>2. r["yes"] = q["yes"] + i /\ r["no"] = q["no"]
    BY <2>1 DEF Quantities, Sides
  <2>3. priceWith(q, b, i) = lmsrPriceYesFp(r, b)
    BY <2>1 DEF priceWith
  <2> QED BY <2>2, <2>3 DEF lmsrPriceYesFp, fpDiv, expSum
<1> HIDE DEF yes, no
<1>5. ASSUME NEW i \in Nat, yes(i) \in Nat \ {0}
      PROVE  /\ priceWith(q, b, i) = (yes(i) * FP_SCALE) \div (yes(i) + no)
             /\ priceWith(q, b, i) \in Nat
  <2>1. yes(i) * FP_SCALE \in Nat /\ yes(i) + no \in Nat \ {0}
    BY <1>1, <1>3, <1>5
  <2>2. priceWith(q, b, i) = BigDiv(yes(i) * FP_SCALE, yes(i) + no)
    BY <1>4, <1>5
  <2> QED BY <2>1, <2>2, BigDivOfNaturals, Quotient
<1>6. (yes(n) * FP_SCALE) \div (yes(n) + no) <= (yes(k) * FP_SCALE) \div (yes(k) + no)
    BY <1>1, <1>3, FractionMonotone
<1> QED BY <1>3, <1>5, <1>6

\* The equation of the calculator's search when A holds the numbers of shares
\* that fall short of the target.
UpwardEquation(f, A) ==
    f = [range \in Nat \X Nat |->
            LET lo  == range[1]
                hi  == range[2]
                mid == lo + (hi - lo) \div 2
            IN  IF lo >= hi THEN lo
                ELSE IF mid \in A THEN f[<<mid + 1, hi>>] ELSE f[<<lo, mid>>]]

\* Some function satisfies it.
LEMMA UpwardExists ==
    ASSUME NEW A
    PROVE  \E f : UpwardEquation(f, A)
<1> DEFINE mid(r)  == r[1] + (r[2] - r[1]) \div 2
           part(r) == IF mid(r) \in A THEN <<mid(r) + 1, r[2]>> ELSE <<r[1], mid(r)>>
           half    == [r \in Nat \X Nat |-> part(r)]
<1>1. ASSUME NEW r \in Nat \X Nat, r[1] < r[2]
      PROVE  /\ half[r] \in Nat \X Nat
             /\ half[r][2] < half[r][1] \/ half[r][2] - half[r][1] < r[2] - r[1]
  <2>1. r[1] \in Nat /\ r[2] \in Nat /\ r[1] < r[2] /\ half[r] = part(r)
    BY <1>1
  <2>2. mid(r) \in Nat /\ r[1] <= mid(r) /\ mid(r) < r[2]
    BY <2>1
  <2> HIDE DEF mid
  <2>3. CASE mid(r) \in A
    BY <2>1, <2>2, <2>3
  <2>4. CASE mid(r) \notin A
    BY <2>1, <2>2, <2>4
  <2> QED BY <2>3, <2>4
<1>2. PICK f : Bisects(f, half)
  <2> HIDE DEF half
  <2> QED BY <1>1, BisectionExists
<1>3. ASSUME NEW r \in Nat \X Nat
      PROVE  f[half[r]] = IF mid(r) \in A THEN f[<<mid(r) + 1, r[2]>>]
                          ELSE f[<<r[1], mid(r)>>]
  <2>1. half[r] = part(r)
    OBVIOUS
  <2> HIDE DEF mid, half
  <2> QED BY <2>1
<1> HIDE DEF half
<1>4. UpwardEquation(f, A)
    BY <1>2, <1>3 DEF Bisects, UpwardEquation
<1> QED BY <1>4

\* The search ends inside its range, after a number that falls short and at one
\* that does not, unless it ends at a border.
LEMMA UpwardFinds ==
    ASSUME NEW q, NEW b, NEW target
    PROVE  LET found  == searchYes(q, b, target)
               few(n) == Short(priceWith(q, b, n), target)
           IN  /\ found \in 0 .. MAX_SHARES
               /\ found = MAX_SHARES \/ ~few(found)
               /\ found = 0 \/ few(found - 1)
<1> DEFINE A == {n \in Nat : Short(priceWith(q, b, n), target)}
           f == CHOOSE g : UpwardEquation(g, A)
<1>1. UpwardEquation(f, A)
    BY UpwardExists
<1>2. searchYes(q, b, target) = f[<<0, MAX_SHARES>>]
  <2> DEFINE eq(g) ==
        g = [range \in Nat \X Nat |->
                LET lo  == range[1]
                    hi  == range[2]
                    mid == lo + (hi - lo) \div 2
                IN  IF lo >= hi THEN lo
                    ELSE IF Short(priceWith(q, b, mid), target)
                    THEN g[<<mid + 1, hi>>] ELSE g[<<lo, mid>>]]
  <2>1. searchYes(q, b, target) = (CHOOSE g : eq(g))[<<0, MAX_SHARES>>]
    BY DEF searchYes
  <2>2. ASSUME NEW g PROVE eq(g) <=> UpwardEquation(g, A)
    <3> DEFINE mid(r) == r[1] + (r[2] - r[1]) \div 2
               tested(r) == IF r[1] >= r[2] THEN r[1]
                    ELSE IF Short(priceWith(q, b, mid(r)), target)
                    THEN g[<<mid(r) + 1, r[2]>>] ELSE g[<<r[1], mid(r)>>]
               member(r) == IF r[1] >= r[2] THEN r[1]
                    ELSE IF mid(r) \in A
                    THEN g[<<mid(r) + 1, r[2]>>] ELSE g[<<r[1], mid(r)>>]
    <3>1. \A r \in Nat \X Nat : r[1] >= r[2] \/ mid(r) \in Nat
      OBVIOUS
    <3>2. \A r \in Nat \X Nat : tested(r) = member(r)
      <4> HIDE DEF mid
      <4> QED BY <3>1
    <3>3. eq(g) <=> g = [r \in Nat \X Nat |-> tested(r)]
      OBVIOUS
    <3>4. UpwardEquation(g, A) <=> g = [r \in Nat \X Nat |-> member(r)]
      BY DEF UpwardEquation
    <3>5. [r \in Nat \X Nat |-> tested(r)] = [r \in Nat \X Nat |-> member(r)]
      <4> HIDE DEF tested, member
      <4> QED BY <3>2
    <3> QED BY <3>3, <3>4, <3>5
  <2> HIDE DEF eq, A
  <2>3. (CHOOSE g : eq(g)) = (CHOOSE g : UpwardEquation(g, A))
    BY <2>2, Zenon
  <2> QED BY <2>1, <2>3
<1> DEFINE Ends(lo, hi) == /\ f[<<lo, hi>>] \in lo .. hi
                           /\ f[<<lo, hi>>] = hi \/ f[<<lo, hi>>] \notin A
                           /\ f[<<lo, hi>>] = lo \/ f[<<lo, hi>>] - 1 \in A
           T == {n \in Nat : \E lo, hi \in Nat :
                    lo <= hi /\ hi - lo = n /\ ~Ends(lo, hi)}
<1> HIDE DEF f
<1>3. T = {}
  <2> SUFFICES ASSUME T # {} PROVE FALSE
    OBVIOUS
  <2>1. PICK n \in T : \A k \in T : n <= k
    <3>1. T \subseteq Nat
      OBVIOUS
    <3> HIDE DEF T
    <3> QED BY <3>1, LeastNatural
  <2>2. PICK lo \in Nat, hi \in Nat : lo <= hi /\ hi - lo = n /\ ~Ends(lo, hi)
    OBVIOUS
  <2> DEFINE mid == lo + (hi - lo) \div 2
  <2>3. f[<<lo, hi>>] = IF lo >= hi THEN lo
                        ELSE IF mid \in A THEN f[<<mid + 1, hi>>]
                        ELSE f[<<lo, mid>>]
    BY <1>1 DEF UpwardEquation
  <2>4. lo < hi
    BY <2>2, <2>3
  <2>5. mid \in Nat /\ lo <= mid /\ mid < hi
    BY <2>4
  <2> HIDE DEF mid, Ends, A
  <2>6. ASSUME NEW a \in Nat, NEW z \in Nat, a <= z, z - a < n PROVE Ends(a, z)
    <3>1. SUFFICES ASSUME ~Ends(a, z) PROVE FALSE
      OBVIOUS
    <3>2. z - a \in Nat
      BY <2>6
    <3>3. z - a \in T
      BY <2>6, <3>1, <3>2
    <3>4. n \in Nat
      OBVIOUS
    <3> HIDE DEF T
    <3> QED BY <2>1, <2>6, <3>2, <3>3, <3>4
  <2>7. Ends(mid + 1, hi) /\ Ends(lo, mid)
    <3>1. hi - (mid + 1) < n /\ mid - lo < n /\ mid + 1 <= hi /\ mid + 1 \in Nat
      BY <2>2, <2>5
    <3> QED BY <2>5, <2>6, <3>1
  <2>8. CASE mid \in A
    <3>1. PICK e : e = f[<<mid + 1, hi>>]
      OBVIOUS
    <3>2. /\ e \in mid + 1 .. hi /\ (e = hi \/ e \notin A)
          /\ e = mid + 1 \/ e - 1 \in A
      BY <2>7, <3>1 DEF Ends
    <3>3. e - 1 \in A
      BY <2>5, <2>8, <3>2
    <3>4. f[<<lo, hi>>] = e /\ e \in lo .. hi
      BY <2>3, <2>4, <2>5, <2>8, <3>1, <3>2
    <3>5. Ends(lo, hi)
      BY <3>2, <3>3, <3>4 DEF Ends
    <3> QED BY <2>2, <3>5
  <2>9. CASE mid \notin A
    <3>1. PICK e : e = f[<<lo, mid>>]
      OBVIOUS
    <3>2. /\ e \in lo .. mid /\ (e = mid \/ e \notin A)
          /\ e = lo \/ e - 1 \in A
      BY <2>7, <3>1 DEF Ends
    <3>3. e \notin A
      BY <2>9, <3>2
    <3>4. f[<<lo, hi>>] = e /\ e \in lo .. hi
      BY <2>3, <2>4, <2>5, <2>9, <3>1, <3>2
    <3>5. Ends(lo, hi)
      BY <3>2, <3>3, <3>4 DEF Ends
    <3> QED BY <2>2, <3>5
  <2> QED BY <2>8, <2>9
<1>4. MAX_SHARES \in Nat
    BY LimitsAssumption
<1>5. Ends(0, MAX_SHARES)
  <2> HIDE DEF Ends
  <2> QED BY <1>3, <1>4
<1>6. PICK e : e = searchYes(q, b, target)
    OBVIOUS
<1>7. /\ e \in 0 .. MAX_SHARES /\ (e = MAX_SHARES \/ e \notin A)
      /\ e = 0 \/ e - 1 \in A
    BY <1>2, <1>5, <1>6
<1>8. e \in Nat
    BY <1>4, <1>7
<1> QED BY <1>6, <1>7, <1>8

\* The calculator's answer is the fewest shares that reach the target.
LEMMA CalculatorFinds ==
    ASSUME NEW q \in Quantities, NEW b \in Depths, NEW target \in Nat
    PROVE  LET delta == requiredYes(q, b, target)
               reach == {more \in 0 .. MAX_SHARES : priceWith(q, b, more) >= target}
           IN  IF reach = {} THEN delta = MAX_SHARES
               ELSE delta \in reach /\ \A more \in reach : delta <= more
<1> DEFINE reach == {more \in 0 .. MAX_SHARES : priceWith(q, b, more) >= target}
           price(n) == priceWith(q, b, n)
<1>1. MAX_SHARES \in Nat
    BY LimitsAssumption
<1>2. ASSUME NEW n \in Nat, NEW k \in Nat, n <= k
      PROVE  price(n) \in Nat /\ price(k) \in Nat /\ price(n) <= price(k)
    BY <1>2, ClientPriceMonotone
<1>3. PICK delta : delta = requiredYes(q, b, target)
    OBVIOUS
<1>4. CASE target <= price(0)
  <2>1. delta = 0
    BY <1>3, <1>4 DEF requiredYes
  <2>2. 0 \in reach
    BY <1>1, <1>2, <1>4
  <2>3. \A more \in reach : 0 <= more
    BY <1>1
  <2> HIDE DEF reach
  <2>4. IF reach = {} THEN delta = MAX_SHARES
        ELSE delta \in reach /\ \A more \in reach : delta <= more
    BY <2>1, <2>2, <2>3
  <2> QED BY <1>3, <2>4 DEF reach
<1>5. CASE ~(target <= price(0))
  <2>1. delta = searchYes(q, b, target)
    BY <1>3, <1>5 DEF requiredYes
  <2>2. /\ delta \in 0 .. MAX_SHARES
        /\ delta = MAX_SHARES \/ ~(price(delta) < target)
        /\ delta = 0 \/ price(delta - 1) < target
    BY <2>1, UpwardFinds DEF Short
  <2> HIDE DEF price
  <2>3. delta \in Nat /\ price(delta) \in Nat
    BY <1>1, <1>2, <2>2
  <2>4. ASSUME NEW more \in Nat, more < delta PROVE price(more) < target
    <3>1. delta - 1 \in Nat /\ more <= delta - 1 /\ delta # 0
      BY <2>3, <2>4
    <3>2. price(more) \in Nat /\ price(delta - 1) \in Nat
          /\ price(more) <= price(delta - 1)
      BY <1>2, <3>1
    <3> QED BY <2>2, <3>1, <3>2
  <2>5. reach = {more \in 0 .. MAX_SHARES : price(more) >= target}
    BY DEF price
  <2> HIDE DEF reach
  <2>6. CASE price(delta) < target
    <3>1. ASSUME NEW more \in 0 .. MAX_SHARES PROVE price(more) < target
      <4>1. more \in Nat /\ price(more) \in Nat /\ (more < delta \/ more = delta)
        BY <1>1, <1>2, <2>2, <2>3, <2>6
      <4> QED BY <2>4, <2>6, <4>1
    <3>2. ASSUME NEW more \in reach PROVE FALSE
      <4>1. more \in 0 .. MAX_SHARES /\ price(more) >= target
        BY <2>5
      <4>2. price(more) \in Nat /\ price(more) < target
        BY <1>1, <1>2, <3>1, <4>1
      <4> QED BY <4>1, <4>2
    <3>3. reach = {} /\ delta = MAX_SHARES
      BY <2>2, <2>6, <3>2
    <3> QED BY <1>3, <3>3 DEF reach
  <2>7. CASE ~(price(delta) < target)
    <3>1. delta \in reach
      BY <2>2, <2>3, <2>5, <2>7
    <3>2. ASSUME NEW more \in reach PROVE delta <= more
      <4>1. more \in Nat /\ price(more) >= target
        BY <1>1, <2>5
      <4>2. price(more) \in Nat
        BY <1>2, <4>1
      <4>3. ~(more < delta)
        BY <2>4, <4>1, <4>2
      <4> QED BY <2>3, <4>1, <4>3
    <3>3. IF reach = {} THEN delta = MAX_SHARES
          ELSE delta \in reach /\ \A more \in reach : delta <= more
      BY <3>1, <3>2
    <3> QED BY <1>3, <3>3 DEF reach
  <2> QED BY <2>6, <2>7
<1> QED BY <1>4, <1>5

\* In every market under trades the calculator finds the fewest YES shares
\* with which its price reaches the target, or MAX_SHARES when none do.
THEOREM TargetsReached == Spec => []TargetReached
<1>1. MakerOK => TargetReached
  <2> SUFFICES ASSUME MakerOK PROVE TargetReached
    OBVIOUS
  <2>1. market.total \in Quantities /\ market.b \in Depths
    BY MakerTypes
  <2>2. ASSUME NEW target \in Targets PROVE target \in Nat
    BY TargetsAssumption, ScaleAssumption
  <2> QED BY <2>1, <2>2, CalculatorFinds DEF TargetReached
<1> QED BY <1>1, MakerTyped, PTL

===============================================================================
