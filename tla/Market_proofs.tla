---------------------------- MODULE Market_proofs ----------------------------
(* Facts about the operators of a market for every value of the constants:   *)
(* what the recursions compute, the types of quotes, and what a successful   *)
(* bet, sale or claim does to the numbers.                                   *)
EXTENDS Market, FiniteSetTheorems, TLAPS

-----------------------------------------------------------------------------
(* Recursion.  A recursive function is a CHOOSE: its equation is a fact only *)
(* once some function is known to satisfy it.                                *)

\* The least element of a set of naturals.
LEMMA LeastNatural ==
    ASSUME NEW T, T \subseteq Nat, T # {}
    PROVE  \E n \in T : \A k \in T : n <= k
<1> DEFINE R == {ss \in Nat \X Nat : ss[1] < ss[2]}
<1>1. IsWellFoundedOn(R, Nat)
    BY NatLessThanWellFounded DEF OpToRel
<1> HIDE DEF R
<1>2. \E n \in T : \A k \in T : ~ (<<k, n>> \in R)
    BY <1>1, WFMin
<1>3. PICK n \in T : \A k \in T : ~ (<<k, n>> \in R)
    BY <1>2
<1>4. ASSUME NEW k \in T, k < n PROVE FALSE
  <2>1. <<k, n>> \in R
    BY <1>4 DEF R
  <2> QED BY <1>3, <2>1
<1> QED BY <1>4

\* One unfolding of a function that stops at some arguments and elsewhere
\* adds a term to its value at the next argument.
Unfold(g, x, stop, base, add, next) ==
    IF x \in stop THEN base[x] ELSE add[x] + g[next[x]]

\* A function on D that unfolds at every argument.
Recursive(f, D, stop, base, add, next) ==
    /\ f = [x \in D |-> f[x]]
    /\ \A x \in D : f[x] = Unfold(f, x, stop, base, add, next)

\* Such a function exists where the next argument has a lower rank.
LEMMA Recursion ==
    ASSUME NEW D, NEW stop, NEW base, NEW add, NEW next, NEW rank,
           \A x \in D : rank[x] \in Nat,
           \A x \in D : x \notin stop => next[x] \in D /\ rank[next[x]] < rank[x]
    PROVE  \E f : Recursive(f, D, stop, base, add, next)
<1> DEFINE U(g, x) == Unfold(g, x, stop, base, add, next)
           Good(g, n) == \A x \in D : rank[x] <= n => g[x] = U(g, x)
           T == {n \in Nat : ~ \E g : Good(g, n)}
<1>1. ASSUME NEW g, NEW h, NEW x \in D,
             x \notin stop => g[next[x]] = h[next[x]]
      PROVE  U(g, x) = U(h, x)
    BY <1>1 DEF Unfold
<1>2. \A n \in Nat : \E g : Good(g, n)
  <2> SUFFICES ASSUME T # {} PROVE FALSE
    OBVIOUS
  <2>1. PICK n \in T : \A k \in T : n <= k
    <3>1. T \subseteq Nat
      OBVIOUS
    <3> HIDE DEF T
    <3> QED BY <3>1, LeastNatural
  <2>2. \E g : \A x \in D : rank[x] < n => g[x] = U(g, x)
    <3>1. CASE n = 0
      BY <3>1
    <3>2. CASE n # 0
      <4>1. n - 1 \in Nat /\ n - 1 \notin T
        BY <2>1, <3>2
      <4>2. PICK g : Good(g, n - 1)
        BY <4>1
      <4>3. \A x \in D : rank[x] < n => rank[x] <= n - 1
        OBVIOUS
      <4> QED BY <4>2, <4>3
    <3> QED BY <3>1, <3>2
  <2>3. PICK g : \A x \in D : rank[x] < n => g[x] = U(g, x)
    BY <2>2
  <2> DEFINE h == [x \in D |-> IF rank[x] = n THEN U(g, x) ELSE g[x]]
  <2> HIDE DEF U
  <2>4. ASSUME NEW x \in D, rank[x] <= n PROVE h[x] = U(h, x)
    <3>1. h[x] = U(g, x)
      BY <2>3, <2>4
    <3>2. x \notin stop => g[next[x]] = h[next[x]]
      BY <2>4
    <3> HIDE DEF h
    <3> QED BY <1>1, <3>1, <3>2
  <2>5. Good(h, n)
    BY <2>4
  <2> QED BY <2>5
<1>3. ASSUME NEW m \in Nat, NEW n \in Nat, NEW g, Good(g, m), NEW h, Good(h, n),
             NEW x \in D, rank[x] <= m, rank[x] <= n
      PROVE  g[x] = h[x]
  <2> DEFINE S == {k \in Nat : \E y \in D : /\ rank[y] = k
                                            /\ k <= m /\ k <= n
                                            /\ g[y] # h[y]}
  <2> SUFFICES ASSUME S # {} PROVE FALSE
    BY <1>3
  <2>1. PICK k \in S : \A j \in S : k <= j
    <3>1. S \subseteq Nat
      OBVIOUS
    <3> HIDE DEF S
    <3> QED BY <3>1, LeastNatural
  <2>2. PICK y \in D : rank[y] = k /\ k <= m /\ k <= n /\ g[y] # h[y]
    OBVIOUS
  <2>3. g[y] = U(g, y) /\ h[y] = U(h, y)
    BY <1>3, <2>2
  <2>4. ASSUME y \notin stop PROVE g[next[y]] = h[next[y]]
    <3>1. next[y] \in D /\ rank[next[y]] < k /\ rank[next[y]] \in Nat
      BY <2>2, <2>4
    <3>2. rank[next[y]] \notin S
      BY <2>1, <3>1
    <3> QED BY <2>2, <3>1, <3>2
  <2> HIDE DEF U
  <2> QED BY <1>1, <2>2, <2>3, <2>4
<1> DEFINE G(n) == CHOOSE g : Good(g, n)
           f == [x \in D |-> G(rank[x])[x]]
<1>4. \A n \in Nat : Good(G(n), n)
    BY <1>2
<1> HIDE DEF U, G
<1>5. ASSUME NEW x \in D PROVE f[x] = U(f, x)
  <2>1. f[x] = U(G(rank[x]), x)
    BY <1>4
  <2>2. ASSUME x \notin stop PROVE G(rank[x])[next[x]] = f[next[x]]
    <3> DEFINE y == next[x]
    <3>1. y \in D /\ rank[y] < rank[x] /\ rank[y] \in Nat /\ rank[x] \in Nat
      BY <2>2
    <3>2. Good(G(rank[x]), rank[x]) /\ Good(G(rank[y]), rank[y])
      BY <1>4, <3>1
    <3> HIDE DEF Good, y
    <3>3. G(rank[x])[y] = G(rank[y])[y]
      BY <1>3, <3>1, <3>2
    <3> QED BY <3>1, <3>3 DEF y
  <2> HIDE DEF f
  <2> QED BY <1>1, <2>1, <2>2
<1>6. f = [x \in D |-> f[x]]
    OBVIOUS
<1> HIDE DEF f
<1> QED BY <1>5, <1>6 DEF U, Recursive

-----------------------------------------------------------------------------
(* The logarithm and the quotes. *)

\* The series at z = y - 1.
LnSeries(y) ==
    LET z  == y - FP_SCALE
        z2 == (z * z) \div FP_SCALE
        z3 == (z2 * z) \div FP_SCALE
    IN  z - z2 \div 2 + z3 \div 3

\* The equation of fp_ln_series.
LnEquation(f) ==
    f = [y \in Nat |->
            IF y > 2 * FP_SCALE THEN LN_2_FP + f[y \div 2] ELSE LnSeries(y)]

\* fp_ln_series satisfies its equation: an argument above 2 is halved.
LEMMA LnUnfolds == LnEquation(fp_ln_series)
<1> DEFINE stop == {y \in Nat : ~(y > 2 * FP_SCALE)}
           base == [y \in Nat |-> LnSeries(y)]
           add  == [y \in Nat |-> LN_2_FP]
           next == [y \in Nat |-> y \div 2]
           rank == [y \in Nat |-> y]
<1>1. FP_SCALE \in Nat \ {0}
    BY ScaleAssumption
<1>2. \A y \in Nat : y \notin stop => next[y] \in Nat /\ rank[next[y]] < rank[y]
    BY <1>1
<1>3. \A y \in Nat : rank[y] \in Nat
    OBVIOUS
<1>4. PICK f : Recursive(f, Nat, stop, base, add, next)
  <2> HIDE DEF stop, base, add, next, rank
  <2> QED BY <1>2, <1>3, Recursion
<1>5. /\ f = [y \in Nat |-> f[y]]
      /\ \A y \in Nat : f[y] = Unfold(f, y, stop, base, add, next)
    BY <1>4 DEF Recursive
<1>6. \A y \in Nat : f[y] = IF y > 2 * FP_SCALE THEN LN_2_FP + f[y \div 2]
                            ELSE LnSeries(y)
    BY <1>5 DEF Unfold
<1>7. LnEquation(f)
    BY <1>5, <1>6 DEF LnEquation
<1>8. fp_ln_series = CHOOSE g : LnEquation(g)
    BY DEF fp_ln_series, LnEquation, LnSeries
<1> QED BY <1>7, <1>8

\* The logarithm of a natural is an integer.
LEMMA LnType ==
    ASSUME NEW y \in Nat
    PROVE  fp_ln_series[y] \in Int
<1> DEFINE T == {n \in Nat : fp_ln_series[n] \notin Int}
<1> SUFFICES ASSUME T # {} PROVE FALSE
    OBVIOUS
<1>1. PICK n \in T : \A k \in T : n <= k
  <2>1. T \subseteq Nat
    OBVIOUS
  <2> HIDE DEF T
  <2> QED BY <2>1, LeastNatural
<1>2. FP_SCALE \in Nat \ {0} /\ LN_2_FP \in Nat
    BY ScaleAssumption
<1>3. fp_ln_series[n] = IF n > 2 * FP_SCALE THEN LN_2_FP + fp_ln_series[n \div 2]
                        ELSE LnSeries(n)
    BY LnUnfolds DEF LnEquation
<1>4. CASE n > 2 * FP_SCALE
  <2>1. n \div 2 \in Nat /\ n \div 2 < n
    BY <1>2, <1>4
  <2>2. n \div 2 \notin T
    BY <1>1, <2>1
  <2>3. fp_ln_series[n \div 2] \in Int
    BY <2>1, <2>2
  <2> QED BY <1>2, <1>3, <1>4, <2>3
<1>5. CASE ~(n > 2 * FP_SCALE)
  <2> DEFINE z == n - FP_SCALE
             p2 == z * z
             z2 == p2 \div FP_SCALE
             p3 == z2 * z
             z3 == p3 \div FP_SCALE
  <2>1. z \in Int
    BY <1>2
  <2>2. p2 \in Int
    BY <2>1
  <2> HIDE DEF p2
  <2>3. z2 \in Int
    BY <1>2, <2>2
  <2> HIDE DEF z2
  <2>4. p3 \in Int
    BY <2>1, <2>3
  <2> HIDE DEF p3
  <2>5. z3 \in Int
    BY <1>2, <2>4
  <2> HIDE DEF z, z3
  <2>6. z - z2 \div 2 + z3 \div 3 \in Int
    BY <2>1, <2>3, <2>5
  <2>7. LnSeries(n) \in Int
    BY <2>6 DEF LnSeries, z, z2, z3, p2, p3
  <2> QED BY <1>3, <1>5, <2>7
<1> QED BY <1>4, <1>5

\* The exponential of a natural is an integer.
LEMMA ExpType ==
    ASSUME NEW x \in Nat
    PROVE  fp_exp_taylor[x] \in Int
<1>1. FP_SCALE \in Nat \ {0}
    BY ScaleAssumption
<1> DEFINE p2 == x * x
           x2 == p2 \div FP_SCALE
           p3 == x2 * x
           x3 == p3 \div FP_SCALE
<1>2. p2 \in Int
    OBVIOUS
<1> HIDE DEF p2
<1>3. x2 \in Int
    BY <1>1, <1>2
<1> HIDE DEF x2
<1>4. p3 \in Int
    BY <1>3
<1> HIDE DEF p3
<1>5. x3 \in Int
    BY <1>1, <1>4
<1> HIDE DEF x3
<1>6. FP_SCALE + x + x2 \div 2 + x3 \div 6 \in Int
    BY <1>1, <1>3, <1>5
<1>7. \/ fp_exp_taylor[x] = Err(ERROR_OVERFLOW)
      \/ fp_exp_taylor[x] = FP_SCALE + x + x2 \div 2 + x3 \div 6
    BY DEF fp_exp_taylor, x2, x3, p2, p3
<1> QED BY <1>6, <1>7 DEF Err, ERROR_OVERFLOW

\* A cost is an integer, whatever overflows on the way.
LEMMA CostType ==
    ASSUME NEW q \in [Sides -> Nat], NEW b \in Nat \ {0}
    PROVE  lmsr_cost(q, b) \in Int
<1>1. ASSUME NEW n \in Nat PROVE fp_exp_q_over_b(n, b) \in Int
  <2>1. n * FP_SCALE \in Nat
    BY ScaleAssumption
  <2>2. (n * FP_SCALE) \div b \in Nat
    BY <2>1
  <2>3. fp_exp_taylor[(n * FP_SCALE) \div b] \in Int
    BY <2>2, ExpType
  <2> QED BY <2>3 DEF fp_exp_q_over_b, Err, ERROR_OVERFLOW
<1>2. q["yes"] \in Nat /\ q["no"] \in Nat
    BY DEF Sides
<1>3. exp_sum(q, b) \in Int
    BY <1>1, <1>2 DEF exp_sum, checked_sum, Err, ERROR_OVERFLOW
<1>4. CASE exp_sum(q, b) < 0
    BY <1>4 DEF lmsr_cost, scaled_ln, Err, ERROR_OVERFLOW
<1>5. CASE ~(exp_sum(q, b) < 0)
  <2>1. fp_ln_series[exp_sum(q, b)] \in Int
    BY <1>3, <1>5, LnType
  <2>2. b * fp_ln_series[exp_sum(q, b)] \in Int
    BY <2>1
  <2> QED BY <2>2 DEF lmsr_cost, scaled_ln, Err, ERROR_OVERFLOW
<1> QED BY <1>4, <1>5

\* A quote is an integer.
LEMMA QuoteType ==
    ASSUME NEW q \in [Sides -> Word], NEW b \in Nat \ {0}, NEW side \in Sides,
           NEW n \in Nat
    PROVE  /\ lmsr_buy_quote(q, b, side, n) \in Int
           /\ lmsr_sell_quote(q, b, side, n) \in Int
<1>1. ASSUME NEW high \in Int, NEW low \in Int
      PROVE  cost_difference(high, low) \in Int
    BY DEF cost_difference, safe_sub, Err, ERROR_UNDERFLOW
<1>2. q \in [Sides -> Nat]
    BY LimitsAssumption DEF Word
<1>3. [q EXCEPT ![side] = @ + n] \in [Sides -> Nat]
    BY <1>2
<1>4. n <= q[side] => [q EXCEPT ![side] = @ - n] \in [Sides -> Nat]
    BY <1>2
<1>5. lmsr_cost(q, b) \in Int /\ lmsr_cost([q EXCEPT ![side] = @ + n], b) \in Int
    BY <1>2, <1>3, CostType
<1>6. n <= q[side] => lmsr_cost([q EXCEPT ![side] = @ - n], b) \in Int
    BY <1>4, CostType
<1>7. lmsr_buy_quote(q, b, side, n) \in Int
    BY <1>1, <1>5 DEF lmsr_buy_quote, Err, ERROR_OVERFLOW
<1>8. q[side] \in Nat
    BY <1>2
<1>9. lmsr_sell_quote(q, b, side, n) \in Int
  <2>1. CASE n > q[side]
    BY <2>1 DEF lmsr_sell_quote, Err, ERROR_INVALID_BET_AMOUNT
  <2>2. CASE ~(n > q[side])
    <3>1. lmsr_cost([q EXCEPT ![side] = @ - n], b) \in Int
      BY <1>6, <1>8, <2>2
    <3>2. cost_difference(lmsr_cost(q, b),
                          lmsr_cost([q EXCEPT ![side] = @ - n], b)) \in Int
      BY <1>1, <1>5, <3>1
    <3> QED BY <2>2, <3>2 DEF lmsr_sell_quote
  <2> QED BY <2>1, <2>2
<1> QED BY <1>7, <1>9

-----------------------------------------------------------------------------
(* The search for the number of shares. *)

\* A bisection: a function that ends at ranges without an inside, with their
\* lower end, and goes on with a part of every other range.
Bisects(f, half) ==
    f = [r \in Nat \X Nat |-> IF r[1] >= r[2] THEN r[1] ELSE f[half[r]]]

\* Some function is a bisection when each part is shorter than the whole.
LEMMA BisectionExists ==
    ASSUME NEW half,
           \A r \in Nat \X Nat : r[1] < r[2] =>
                /\ half[r] \in Nat \X Nat
                /\ half[r][2] < half[r][1] \/ half[r][2] - half[r][1] < r[2] - r[1]
    PROVE  \E f : Bisects(f, half)
<1> DEFINE D    == Nat \X Nat
           stop == {r \in D : r[1] >= r[2]}
           base == [r \in D |-> r[1]]
           add  == [r \in D |-> 0]
           rank == [r \in D |-> IF r[1] >= r[2] THEN 0 ELSE r[2] - r[1]]
<1>1. \A r \in D : rank[r] \in Nat
    OBVIOUS
<1>2. ASSUME NEW r \in D, r \notin stop
      PROVE  half[r] \in D /\ rank[half[r]] < rank[r]
  <2>1. r[1] \in Nat /\ r[2] \in Nat /\ r[1] < r[2] /\ rank[r] = r[2] - r[1]
    BY <1>2
  <2>2. PICK part \in D : part = half[r]
    BY <2>1
  <2>3. /\ part[1] \in Nat /\ part[2] \in Nat
        /\ part[2] < part[1] \/ part[2] - part[1] < r[2] - r[1]
    BY <2>1, <2>2
  <2>4. rank[part] = IF part[1] >= part[2] THEN 0 ELSE part[2] - part[1]
    BY <2>2
  <2> QED BY <2>1, <2>2, <2>3, <2>4
<1>3. PICK f : Recursive(f, D, stop, base, add, half)
  <2> HIDE DEF D, stop, base, add, rank
  <2> QED BY <1>1, <1>2, Recursion
<1>4. \A r \in D : f[r] = IF r \in stop THEN r[1] ELSE 0 + f[half[r]]
    BY <1>3 DEF Recursive, Unfold
<1>5. \A r \in D : f[r] \in Int
  <2> DEFINE T == {n \in Nat : \E r \in D : rank[r] = n /\ f[r] \notin Int}
  <2> SUFFICES ASSUME T # {} PROVE FALSE
    BY <1>1
  <2>1. PICK n \in T : \A k \in T : n <= k
    <3>1. T \subseteq Nat
      OBVIOUS
    <3> HIDE DEF T
    <3> QED BY <3>1, LeastNatural
  <2>2. PICK r \in D : rank[r] = n /\ f[r] \notin Int
    OBVIOUS
  <2>3. r \notin stop
    <3>1. SUFFICES ASSUME r \in stop PROVE FALSE
      OBVIOUS
    <3>2. r[1] \in Nat
      BY <2>2
    <3> HIDE DEF stop, D
    <3>3. f[r] = r[1]
      BY <1>4, <2>2, <3>1
    <3> QED BY <2>2, <3>2, <3>3
  <2>4. half[r] \in D /\ rank[half[r]] < n /\ rank[half[r]] \in Nat
    BY <1>1, <1>2, <2>2, <2>3
  <2> HIDE DEF rank, stop
  <2>5. f[half[r]] \in Int
    BY <2>1, <2>4
  <2> QED BY <1>4, <2>2, <2>3, <2>5
<1>6. ASSUME NEW r \in D PROVE f[r] = IF r[1] >= r[2] THEN r[1] ELSE f[half[r]]
  <2>1. CASE r \in stop
    BY <1>4, <2>1
  <2>2. CASE r \notin stop
    <3>1. half[r] \in D /\ f[r] = 0 + f[half[r]]
      BY <1>2, <1>4, <2>2
    <3>2. f[r] = f[half[r]]
      BY <1>5, <3>1
    <3> QED BY <2>2, <3>2
  <2> QED BY <2>1, <2>2
<1>7. f = [r \in D |-> f[r]]
    BY <1>3 DEF Recursive
<1>8. Bisects(f, half)
    BY <1>6, <1>7 DEF Bisects
<1> QED BY <1>8

\* The equation of the search when A holds the affordable numbers.
SearchEquation(f, A) ==
    f = [range \in Nat \X Nat |->
            LET lo  == range[1]
                hi  == range[2]
                mid == lo + (hi - lo + 1) \div 2
            IN  IF lo >= hi THEN lo
                ELSE IF mid \in A THEN f[<<mid, hi>>] ELSE f[<<lo, mid - 1>>]]

\* Some function satisfies it.
LEMMA SearchExists ==
    ASSUME NEW A
    PROVE  \E f : SearchEquation(f, A)
<1> DEFINE mid(r)  == r[1] + (r[2] - r[1] + 1) \div 2
           part(r) == IF mid(r) \in A THEN <<mid(r), r[2]>> ELSE <<r[1], mid(r) - 1>>
           half    == [r \in Nat \X Nat |-> part(r)]
<1>1. ASSUME NEW r \in Nat \X Nat, r[1] < r[2]
      PROVE  /\ half[r] \in Nat \X Nat
             /\ half[r][2] < half[r][1] \/ half[r][2] - half[r][1] < r[2] - r[1]
  <2>1. r[1] \in Nat /\ r[2] \in Nat /\ r[1] < r[2] /\ half[r] = part(r)
    BY <1>1
  <2>2. mid(r) \in Nat /\ r[1] < mid(r) /\ mid(r) <= r[2]
    BY <2>1
  <2> HIDE DEF mid
  <2>3. CASE mid(r) \in A
    BY <2>1, <2>2, <2>3
  <2>4. CASE mid(r) \notin A
    BY <2>1, <2>2, <2>4
  <2> QED BY <2>3, <2>4
<1>2. PICK f : Bisects(f, half)
  <2> HIDE DEF half
  <2> QED BY <1>1, BisectionExists
<1>3. ASSUME NEW r \in Nat \X Nat
      PROVE  f[half[r]] = IF mid(r) \in A THEN f[<<mid(r), r[2]>>]
                          ELSE f[<<r[1], mid(r) - 1>>]
  <2>1. half[r] = part(r)
    OBVIOUS
  <2> HIDE DEF mid, half
  <2> QED BY <2>1
<1> HIDE DEF half
<1>4. SearchEquation(f, A)
    BY <1>2, <1>3 DEF Bisects, SearchEquation
<1> QED BY <1>4

\* The search ends inside its range, at its lower end or at an affordable
\* number, whether or not affordability is monotone.
LEMMA SearchFinds ==
    ASSUME NEW m, NEW side, NEW net
    PROVE  LET found == search_shares(m, side, net)
           IN  /\ found \in 0 .. MAX_SHARES
               /\ \/ found = 0
                  \/ Affordable(lmsr_buy_quote(m.total, m.b, side, found), net)
<1> DEFINE A == {n \in Nat : Affordable(lmsr_buy_quote(m.total, m.b, side, n), net)}
           f == CHOOSE g : SearchEquation(g, A)
<1>1. SearchEquation(f, A)
    BY SearchExists
<1>2. search_shares(m, side, net) = f[<<0, MAX_SHARES>>]
  <2> DEFINE eq(g) ==
        g = [range \in Nat \X Nat |->
                LET lo  == range[1]
                    hi  == range[2]
                    mid == lo + (hi - lo + 1) \div 2
                IN  IF lo >= hi THEN lo
                    ELSE IF Affordable(lmsr_buy_quote(m.total, m.b, side, mid), net)
                    THEN g[<<mid, hi>>] ELSE g[<<lo, mid - 1>>]]
  <2>1. search_shares(m, side, net) = (CHOOSE g : eq(g))[<<0, MAX_SHARES>>]
    BY DEF search_shares
  <2>2. ASSUME NEW g PROVE eq(g) <=> SearchEquation(g, A)
    <3> DEFINE mid(r) == r[1] + (r[2] - r[1] + 1) \div 2
               tested(r) == IF r[1] >= r[2] THEN r[1]
                    ELSE IF Affordable(lmsr_buy_quote(m.total, m.b, side, mid(r)), net)
                    THEN g[<<mid(r), r[2]>>] ELSE g[<<r[1], mid(r) - 1>>]
               member(r) == IF r[1] >= r[2] THEN r[1]
                    ELSE IF mid(r) \in A
                    THEN g[<<mid(r), r[2]>>] ELSE g[<<r[1], mid(r) - 1>>]
    <3>1. \A r \in Nat \X Nat : r[1] >= r[2] \/ mid(r) \in Nat
      OBVIOUS
    <3>2. \A r \in Nat \X Nat : tested(r) = member(r)
      <4> HIDE DEF mid
      <4> QED BY <3>1
    <3>3. eq(g) <=> g = [r \in Nat \X Nat |-> tested(r)]
      OBVIOUS
    <3>4. SearchEquation(g, A) <=> g = [r \in Nat \X Nat |-> member(r)]
      BY DEF SearchEquation
    <3>5. [r \in Nat \X Nat |-> tested(r)] = [r \in Nat \X Nat |-> member(r)]
      <4> HIDE DEF tested, member
      <4> QED BY <3>2
    <3> QED BY <3>3, <3>4, <3>5
  <2> HIDE DEF eq, A
  <2>3. (CHOOSE g : eq(g)) = (CHOOSE g : SearchEquation(g, A))
    BY <2>2, Zenon
  <2> QED BY <2>1, <2>3
<1> DEFINE Ends(lo, hi) == f[<<lo, hi>>] \in lo .. hi
                           /\ (f[<<lo, hi>>] = lo \/ f[<<lo, hi>>] \in A)
           T == {n \in Nat : \E lo, hi \in Nat :
                    lo <= hi /\ hi - lo = n /\ ~Ends(lo, hi)}
<1> HIDE DEF f
<1>3. T = {}
  <2> SUFFICES ASSUME T # {} PROVE FALSE
    OBVIOUS
  <2>1. PICK n \in T : \A k \in T : n <= k
    <3>1. T \subseteq Nat
      OBVIOUS
    <3> HIDE DEF T
    <3> QED BY <3>1, LeastNatural
  <2>2. PICK lo \in Nat, hi \in Nat : lo <= hi /\ hi - lo = n /\ ~Ends(lo, hi)
    OBVIOUS
  <2> DEFINE mid == lo + (hi - lo + 1) \div 2
  <2>3. f[<<lo, hi>>] = IF lo >= hi THEN lo
                        ELSE IF mid \in A THEN f[<<mid, hi>>]
                        ELSE f[<<lo, mid - 1>>]
    BY <1>1 DEF SearchEquation
  <2>4. lo < hi
    BY <2>2, <2>3
  <2>5. mid \in Nat /\ lo < mid /\ mid <= hi /\ mid - 1 \in Nat
    BY <2>4
  <2> HIDE DEF mid, Ends, A
  <2>6. ASSUME NEW a \in Nat, NEW b \in Nat, a <= b, b - a < n PROVE Ends(a, b)
    <3>1. SUFFICES ASSUME ~Ends(a, b) PROVE FALSE
      OBVIOUS
    <3>2. b - a \in Nat
      BY <2>6
    <3>3. b - a \in T
      BY <2>6, <3>1, <3>2
    <3>4. n \in Nat
      OBVIOUS
    <3> HIDE DEF T
    <3> QED BY <2>1, <2>6, <3>2, <3>3, <3>4
  <2>7. Ends(mid, hi) /\ Ends(lo, mid - 1)
    <3>1. hi - mid < n /\ mid - 1 - lo < n /\ lo <= mid - 1
      BY <2>2, <2>5
    <3> QED BY <2>5, <2>6, <3>1
  <2>8. Ends(lo, hi)
    BY <2>3, <2>4, <2>5, <2>7 DEF Ends
  <2> QED BY <2>2, <2>8
<1>4. Ends(0, MAX_SHARES)
  <2>1. MAX_SHARES \in Nat
    BY LimitsAssumption
  <2> HIDE DEF Ends
  <2> QED BY <1>3, <2>1
<1> QED BY <1>2, <1>4

-----------------------------------------------------------------------------
(* Typing of the operations. *)

\* The fee of an integer amount is an integer.
LEMMA FeeType ==
    ASSUME NEW amount \in Int
    PROVE  calculate_fee(amount) \in Int /\ net_amount(amount) \in Int
<1>1. PLATFORM_FEE_RATE \in Int /\ FEE_BASIS_POINTS \in Nat \ {0}
    BY FeeAssumption
<1>2. amount * PLATFORM_FEE_RATE \in Int
    BY <1>1
<1>3. amount * PLATFORM_FEE_RATE + FEE_BASIS_POINTS - 1 \in Int
    BY <1>1, <1>2
<1> QED BY <1>1, <1>3 DEF calculate_fee, net_amount

\* Every sum that wraps around is a word.
LEMMA WrapType ==
    ASSUME NEW n \in Int
    PROVE  n % U64 \in Word
BY LimitsAssumption DEF Word

\* Whatever a bet's outcome: the market it carries is market data and its value
\* is a number of shares within the limit of a trade.
LEMMA PlacedType ==
    ASSUME NEW m \in MarketData, NEW side \in Sides, NEW amount \in Word
    PROVE  /\ place_bet(m, side, amount).market \in MarketData
           /\ place_bet(m, side, amount).value \in 0 .. MAX_SHARES
<1> DEFINE shares == calculate_shares(m, side, amount)
           after  == after_bet(m, side, amount, shares)
           placed == place_bet(m, side, amount)
<1> HIDE DEF shares
<1>0. MAX_SHARES \in Nat
    BY LimitsAssumption
<1>1. placed = bet_outcome(m, side, amount, shares)
    BY DEF place_bet, shares
<1>2. CASE shares \in 1 .. MAX_SHARES /\ Fits(after)
  <2>1. after \in MarketData
    <3>1. after = [m EXCEPT !.total = after.total,
                            !.pool_balance = after.pool_balance,
                            !.total_volume = after.total_volume,
                            !.total_fees_collected = after.total_fees_collected]
      BY DEF after_bet, MarketData
    <3>2. after.total \in [Sides -> Word]
      <4>1. after.total = [m.total EXCEPT ![side] = safe_add(@, shares)]
        BY DEF after_bet, MarketData
      <4>2. m.total \in [Sides -> Word]
        BY DEF MarketData
      <4>3. \A s \in Sides : after.total[s] \in Word
        BY <1>2 DEF Fits
      <4> HIDE DEF after
      <4> QED BY <4>1, <4>2, <4>3
    <3>3. /\ after.pool_balance \in Word
          /\ after.total_volume \in Word
          /\ after.total_fees_collected \in Word
      BY <1>2 DEF Fits
    <3> HIDE DEF after
    <3> QED BY <3>1, <3>2, <3>3 DEF MarketData
  <2>2. placed = [err |-> NoError, value |-> shares, market |-> after]
    BY <1>1, <1>2 DEF bet_outcome, Outcome
  <2> QED BY <1>2, <2>1, <2>2
<1>3. CASE shares \notin 1 .. MAX_SHARES
  <2>1. placed = [err |-> -shares, value |-> 0, market |-> m]
    BY <1>1, <1>3 DEF bet_outcome, Failed
  <2> QED BY <1>0, <2>1
<1>4. CASE shares \in 1 .. MAX_SHARES /\ ~Fits(after)
  <2>1. placed = [err |-> ERROR_OVERFLOW, value |-> 0, market |-> m]
    BY <1>1, <1>4 DEF bet_outcome, Outcome
  <2> QED BY <1>0, <2>1
<1> QED BY <1>2, <1>3, <1>4

\* Whatever a sale's outcome: the market it carries is market data and its
\* value, the payout, is an integer.
LEMMA SoldType ==
    ASSUME NEW m \in MarketData, NEW type \in Nat, NEW shares \in Word
    PROVE  /\ sell_shares(m, type, shares).market \in MarketData
           /\ sell_shares(m, type, shares).value \in Int
<1> DEFINE side  == SideOf(type)
           gross == calculate_sell_gross(m, type, shares)
           after == after_sale(m, side, shares, gross)
           sold  == sell_shares(m, type, shares)
<1> HIDE DEF gross
<1>1. side \in Sides
    BY DEF SideOf, Sides
<1> HIDE DEF side
<1>2. CASE sold = Outcome(m, net_amount(gross), after)
           /\ gross \in 0 .. MAX_BET_AMOUNT /\ Fits(after)
  <2>1. after \in MarketData
    <3>1. after = [m EXCEPT !.total = after.total,
                            !.pool_balance = after.pool_balance,
                            !.total_volume = after.total_volume,
                            !.total_fees_collected = after.total_fees_collected]
      BY DEF after_sale, MarketData
    <3>2. after.total \in [Sides -> Word]
      <4>1. after.total = [m.total EXCEPT ![side] = @ - shares]
        BY DEF after_sale, MarketData
      <4>2. m.total \in [Sides -> Word]
        BY DEF MarketData
      <4>3. \A s \in Sides : after.total[s] \in Word
        BY <1>2 DEF Fits
      <4> HIDE DEF after
      <4> QED BY <4>1, <4>2, <4>3
    <3>3. /\ after.pool_balance \in Word
          /\ after.total_volume \in Word
          /\ after.total_fees_collected \in Word
      BY <1>2 DEF Fits
    <3> HIDE DEF after
    <3> QED BY <3>1, <3>2, <3>3 DEF MarketData
  <2>2. sold = [err |-> NoError, value |-> net_amount(gross), market |-> after]
    BY <1>2 DEF Outcome
  <2>3. net_amount(gross) \in Int
    BY <1>2, FeeType
  <2> QED BY <2>1, <2>2, <2>3
<1>3. CASE sold = Outcome(m, net_amount(gross), after) /\ ~Fits(after)
  <2>1. sold = [err |-> ERROR_OVERFLOW, value |-> 0, market |-> m]
    BY <1>3 DEF Outcome
  <2> QED BY <2>1
<1>4. CASE \E e : sold = Failed(m, e)
    BY <1>4 DEF Failed
<1>5. \/ sold = Outcome(m, net_amount(gross), after)
         /\ gross \in 0 .. MAX_BET_AMOUNT
      \/ \E e : sold = Failed(m, e)
    BY DEF sell_shares, sale_outcome, gross, side
<1> QED BY <1>2, <1>3, <1>4, <1>5

\* A payout is an integer.
LEMMA PayoutType ==
    ASSUME NEW m \in MarketData, NEW shares \in [Sides -> Word]
    PROVE  calculate_payout(m, shares) \in Int
<1>1. CASE ~m.resolved \/ m.pool_balance = 0 \/ m.outcome = "none"
    BY <1>1 DEF calculate_payout
<1>2. CASE m.resolved /\ m.pool_balance # 0 /\ m.outcome # "none"
  <2>1. m.outcome \in Sides
    BY <1>2 DEF MarketData, Outcomes, Sides
  <2> DEFINE a == shares[m.outcome]
             d == m.pool_balance
             c == m.total[m.outcome]
  <2>2. a \in Nat /\ d \in Nat /\ c \in Nat
    BY <2>1, LimitsAssumption DEF MarketData, Word
  <2> HIDE DEF a, d, c
  <2>3. a * d \in Nat
    BY <2>2
  <2>4. c # 0 => (a * d) \div c \in Int
    BY <2>2, <2>3
  <2>5. safe_div_high_precision(a, d, c) \in Int
    BY <2>4 DEF safe_div_high_precision, Err, ERROR_OVERFLOW,
                ERROR_DIVISION_BY_ZERO
  <2> QED BY <1>2, <2>5 DEF calculate_payout, a, d, c
<1> QED BY <1>1, <1>2

\* Creation makes market data.
LEMMA NewMarketType ==
    ASSUME NEW args \in CreateArgs
    PROVE  new_with_liquidity(args) \in MarketData
<1>1. 0 \in Word
    BY LimitsAssumption DEF Word
<1> QED BY <1>1 DEF new_with_liquidity, CreateArgs, MarketData, Outcomes

\* Resolution makes market data.
LEMMA ResolvedType ==
    ASSUME NEW m \in MarketData, NEW outcome
    PROVE  resolve(m, outcome) \in MarketData
BY DEF resolve, MarketData, Outcomes

-----------------------------------------------------------------------------
(* What a successful trade does. *)

\* A fee is never more than the amount it is taken from.
LEMMA NetAmount ==
    ASSUME NEW amount \in Nat
    PROVE  /\ calculate_fee(amount) \in 0 .. amount
           /\ net_amount(amount) \in 0 .. amount
           /\ net_amount(amount) + calculate_fee(amount) = amount
<1> DEFINE R == PLATFORM_FEE_RATE
           B == FEE_BASIS_POINTS
           x == amount * R
           y == amount * B
<1>1. R \in 0 .. B /\ B \in Nat \ {0}
    BY FeeAssumption
<1>2. x \in Nat /\ y \in Nat /\ x <= y
    BY <1>1
<1>3. y \div B = amount /\ (y + B - 1) \div B = amount
  <2>1. y + B - 1 < (amount + 1) * B
    BY <1>1
  <2> QED BY <1>1, <2>1
<1> HIDE DEF x, y
<1>4. (x + B - 1) \div B \in 0 .. amount
    BY <1>1, <1>2, <1>3
<1>5. calculate_fee(amount) \in 0 .. amount
    BY <1>4 DEF calculate_fee, x
<1> HIDE DEF R, B
<1> QED BY <1>5 DEF net_amount

\* The number of shares of a bet is an integer, and never zero.
LEMMA SharesType ==
    ASSUME NEW m \in MarketData, m.b # 0, NEW side \in Sides, NEW amount \in Word
    PROVE  calculate_shares(m, side, amount) \in Int \ {0}
<1> DEFINE net   == net_amount(amount)
           found == search_shares(m, side, net)
           one   == lmsr_buy_quote(m.total, m.b, side, 1)
           some  == at_least_one(found, one, net)
<1>1. found \in Int
    BY SearchFinds, LimitsAssumption
<1>2. one \in Int
  <2>1. m.total \in [Sides -> Word] /\ m.b \in Nat \ {0}
    BY LimitsAssumption DEF MarketData, Word
  <2> QED BY <2>1, QuoteType
<1> HIDE DEF found, one, net
<1>3. some \in Int
    BY <1>1, <1>2 DEF at_least_one, Err, ERROR_INVALID_BET_AMOUNT
<1> HIDE DEF some
<1>4. checked_shares(some) \in Int \ {0}
    BY <1>3, LimitsAssumption
       DEF checked_shares, validate_shares, Err, NoError,
           ERROR_INVALID_BET_AMOUNT, ERROR_BET_TOO_LARGE
<1>5. Err(validate_bet_amount(amount)) \in Int \ {0}
      \/ validate_bet_amount(amount) = NoError
    BY DEF validate_bet_amount, Err, NoError, ERROR_INVALID_BET_AMOUNT,
           ERROR_BET_TOO_LARGE
<1>6. \/ calculate_shares(m, side, amount) = checked_shares(some)
      \/ /\ calculate_shares(m, side, amount) = Err(validate_bet_amount(amount))
         /\ validate_bet_amount(amount) # NoError
    BY DEF calculate_shares, some, found, one, net
<1> QED BY <1>4, <1>5, <1>6

\* A successful bet mints its value, puts the net amount in the pool and the
\* fee in the vault.
LEMMA BetSucceeds ==
    ASSUME NEW m \in MarketData, m.b # 0, NEW side \in Sides, NEW amount \in Word,
           place_bet(m, side, amount).err = NoError
    PROVE  LET shares == place_bet(m, side, amount).value
               new    == place_bet(m, side, amount).market
           IN  /\ shares \in 1 .. MAX_SHARES
               /\ new.total = [m.total EXCEPT ![side] = @ + shares]
               /\ new.pool_balance = m.pool_balance + net_amount(amount)
               /\ new.total_fees_collected
                    = m.total_fees_collected + calculate_fee(amount)
               /\ new.b = m.b /\ new.resolved = m.resolved
               /\ new.outcome = m.outcome
<1> DEFINE shares == calculate_shares(m, side, amount)
           after  == after_bet(m, side, amount, shares)
           placed == place_bet(m, side, amount)
<1>1. shares \in Int \ {0}
    BY SharesType
<1> HIDE DEF shares
<1>2. placed = bet_outcome(m, side, amount, shares)
    BY DEF place_bet, shares
<1>3. shares \in 1 .. MAX_SHARES
  <2> SUFFICES ASSUME shares \notin 1 .. MAX_SHARES PROVE FALSE
    OBVIOUS
  <2>1. placed.err = -shares
    BY <1>2 DEF bet_outcome, Failed
  <2> QED BY <1>1, <2>1 DEF NoError
<1>4. Fits(after)
  <2> SUFFICES ASSUME ~Fits(after) PROVE FALSE
    OBVIOUS
  <2>1. placed.err = ERROR_OVERFLOW
    BY <1>2, <1>3 DEF bet_outcome, Outcome
  <2> QED BY <2>1 DEF NoError, ERROR_OVERFLOW
<1>5. placed.value = shares /\ placed.market = after
    BY <1>2, <1>3, <1>4 DEF bet_outcome, Outcome
<1>6. ASSUME NEW a, NEW n, safe_add(a, n) \in Word PROVE safe_add(a, n) = a + n
    BY <1>6, LimitsAssumption DEF safe_add, Err, ERROR_OVERFLOW, Word
<1>7. /\ after.total = [m.total EXCEPT ![side] = safe_add(@, shares)]
      /\ after.pool_balance = safe_add(m.pool_balance, net_amount(amount))
      /\ after.total_fees_collected
            = safe_add(m.total_fees_collected, calculate_fee(amount))
      /\ after.b = m.b /\ after.resolved = m.resolved
      /\ after.outcome = m.outcome
    BY DEF after_bet, MarketData
<1>8. m.total \in [Sides -> Word]
    BY DEF MarketData
<1>9. /\ after.total[side] \in Word
      /\ after.pool_balance \in Word /\ after.total_fees_collected \in Word
    BY <1>4 DEF Fits
<1> HIDE DEF after
<1>10. after.total[side] = safe_add(m.total[side], shares)
    BY <1>7, <1>8
<1>11. /\ safe_add(m.total[side], shares) = m.total[side] + shares
       /\ after.pool_balance = m.pool_balance + net_amount(amount)
       /\ after.total_fees_collected
            = m.total_fees_collected + calculate_fee(amount)
    BY <1>6, <1>7, <1>9, <1>10
<1>12. after.total = [m.total EXCEPT ![side] = @ + shares]
    BY <1>7, <1>11
<1> HIDE DEF placed
<1>13. /\ shares \in 1 .. MAX_SHARES
       /\ after.total = [m.total EXCEPT ![side] = @ + shares]
       /\ after.b = m.b /\ after.resolved = m.resolved
       /\ after.outcome = m.outcome
    BY <1>3, <1>7, <1>12
<1> QED BY <1>5, <1>11, <1>13 DEF placed

\* A successful sale burns its shares, takes the net value of them, its value,
\* out of the pool and puts the fee in the vault on top.
LEMMA SaleSucceeds ==
    ASSUME NEW m \in MarketData, m.b # 0, NEW type \in Nat, NEW shares \in Word,
           sell_shares(m, type, shares).err = NoError
    PROVE  LET side   == SideOf(type)
               payout == sell_shares(m, type, shares).value
               new    == sell_shares(m, type, shares).market
           IN  /\ type <= 1
               /\ shares \in 1 .. m.total[side]
               /\ payout \in 1 .. m.pool_balance
               /\ new.total = [m.total EXCEPT ![side] = @ - shares]
               /\ new.pool_balance = m.pool_balance - payout
               /\ new.total_fees_collected \in Word
               /\ new.total_fees_collected >= m.total_fees_collected
               /\ new.b = m.b /\ new.resolved = m.resolved
               /\ new.outcome = m.outcome
<1> DEFINE side   == SideOf(type)
           gross  == calculate_sell_gross(m, type, shares)
           payout == net_amount(gross)
           after  == after_sale(m, side, shares, gross)
           sold   == sell_shares(m, type, shares)
           quote  == lmsr_sell_quote(m.total, m.b, side, shares)
<1>1. /\ side \in Sides
      /\ m.total \in [Sides -> Word] /\ m.b \in Nat \ {0}
      /\ shares \in Nat /\ m.total[side] \in Nat
      /\ m.pool_balance \in Nat /\ m.total_fees_collected \in Nat
      /\ MAX_BET_AMOUNT \in Nat /\ U64 \in Nat \ {0}
    BY LimitsAssumption DEF SideOf, Sides, MarketData, Word
<1>2. quote \in Int
    BY <1>1, QuoteType
<1> HIDE DEF quote
<1>3. gross_tokens(quote) \in Int
    BY <1>1, <1>2 DEF gross_tokens, Err, ERROR_BET_TOO_LARGE
<1>4. /\ gross \in Int
      /\ shares = 0 => gross < 0
      /\ type > 1 => gross < 0
  <2>1. CASE shares = 0
    BY <2>1 DEF gross, calculate_sell_gross, validate_shares, Err, NoError,
                ERROR_INVALID_BET_AMOUNT
  <2>2. CASE shares # 0 /\ validate_shares(shares) # NoError
    BY <2>2 DEF gross, calculate_sell_gross, validate_shares, Err, NoError,
                ERROR_BET_TOO_LARGE
  <2>3. CASE shares # 0 /\ validate_shares(shares) = NoError
    BY <1>3, <2>3 DEF gross, calculate_sell_gross, quote, side, Err, NoError,
                      ERROR_INVALID_BET_TYPE
  <2> QED BY <2>1, <2>2, <2>3
<1>5. shares <= m.total[side] /\ sold = sale_outcome(m, side, shares, gross)
  <2> SUFFICES ASSUME shares > m.total[side] PROVE FALSE
    BY <1>1 DEF sell_shares
  <2>1. sold.err = ERROR_INSUFFICIENT_BALANCE
    BY DEF sell_shares, Failed
  <2> QED BY <2>1 DEF NoError, ERROR_INSUFFICIENT_BALANCE
<1> HIDE DEF gross, side
<1>6. gross \in 0 .. MAX_BET_AMOUNT
  <2> SUFFICES ASSUME gross \notin 0 .. MAX_BET_AMOUNT PROVE FALSE
    OBVIOUS
  <2>1. sold.err = -gross
    BY <1>5 DEF sale_outcome, Failed
  <2>2. gross = 0
    BY <1>4, <2>1 DEF NoError
  <2> QED BY <1>1, <2>2
<1>7. payout \in 0 .. gross /\ calculate_fee(gross) \in 0 .. gross
    BY <1>1, <1>6, NetAmount
<1> HIDE DEF payout
<1>8. payout # 0
  <2> SUFFICES ASSUME payout = 0 PROVE FALSE
    OBVIOUS
  <2>1. sold.err = ERROR_INVALID_BET_AMOUNT
    BY <1>5, <1>6 DEF sale_outcome, Failed, payout
  <2> QED BY <2>1 DEF NoError, ERROR_INVALID_BET_AMOUNT
<1>9. ~(payout > m.pool_balance)
  <2> SUFFICES ASSUME payout > m.pool_balance PROVE FALSE
    OBVIOUS
  <2>1. sold.err = ERROR_INSUFFICIENT_BALANCE
    BY <1>5, <1>6, <1>8 DEF sale_outcome, Failed, payout
  <2> QED BY <2>1 DEF NoError, ERROR_INSUFFICIENT_BALANCE
<1>10. sold = Outcome(m, payout, after)
    BY <1>5, <1>6, <1>8, <1>9 DEF sale_outcome, payout
<1>11. Fits(after)
  <2> SUFFICES ASSUME ~Fits(after) PROVE FALSE
    OBVIOUS
  <2>1. sold.err = ERROR_OVERFLOW
    BY <1>10 DEF Outcome
  <2> QED BY <2>1 DEF NoError, ERROR_OVERFLOW
<1>12. sold.value = payout /\ sold.market = after
    BY <1>10, <1>11 DEF Outcome
<1>13. /\ after.total = [m.total EXCEPT ![side] = @ - shares]
       /\ after.pool_balance = m.pool_balance - payout
       /\ after.total_fees_collected
            = safe_add(m.total_fees_collected, calculate_fee(gross))
       /\ after.b = m.b /\ after.resolved = m.resolved
       /\ after.outcome = m.outcome
    BY DEF after_sale, MarketData, payout
<1>14. after.total_fees_collected \in Word
    BY <1>11 DEF Fits
<1> HIDE DEF after
<1>15. after.total_fees_collected >= m.total_fees_collected
  <2>1. safe_add(m.total_fees_collected, calculate_fee(gross))
            = m.total_fees_collected + calculate_fee(gross)
    BY <1>1, <1>13, <1>14 DEF safe_add, Err, ERROR_OVERFLOW, Word
  <2> QED BY <1>1, <1>6, <1>7, <1>13, <2>1
<1>16. type <= 1 /\ shares \in 1 .. m.total[side] /\ payout \in 1 .. m.pool_balance
    BY <1>1, <1>4, <1>5, <1>6, <1>7, <1>8, <1>9
<1> HIDE DEF sold
<1> QED BY <1>12, <1>13, <1>14, <1>15, <1>16 DEF sold, side

-----------------------------------------------------------------------------
(* What a position is worth. *)

\* A product of two words fits in a u128.
LEMMA ProductFits ==
    ASSUME NEW a \in Word, NEW b \in Word
    PROVE  ~MulOverflows(a, b)
<1> SUFFICES ASSUME a # 0, b > (U128 - 1) \div a PROVE FALSE
    BY DEF MulOverflows
<1>1. /\ a \in 1 .. U64 - 1 /\ b \in 0 .. U64 - 1
      /\ U64 \in Nat \ {0} /\ U128 \in Nat /\ U64 * U64 <= U128
    BY LimitsAssumption, ScaleAssumption DEF Word
<1> DEFINE q == (U128 - 1) \div a
           p == a * b
           s == U64 * U64
<1>2. s \in Nat /\ p \in Nat /\ p < s
  <2>1. p <= a * U64 /\ a * U64 < s /\ p \in Nat /\ a * U64 \in Nat /\ s \in Nat
    BY <1>1
  <2> HIDE DEF p, s
  <2> QED BY <1>1, <2>1
<1>3. q \in Nat /\ U128 - 1 < a * (q + 1)
    BY <1>1, <1>2
<1>4. a * (q + 1) <= p
  <2>1. q + 1 <= b
    BY <1>1, <1>3
  <2> HIDE DEF q
  <2> QED BY <1>1, <1>3, <2>1
<1>5. a * (q + 1) \in Int
    BY <1>1, <1>3
<1> HIDE DEF q, p
<1> QED BY <1>1, <1>2, <1>3, <1>4, <1>5

\* The payout of a position that its market's winning total covers: nothing of
\* an open market, and else its fraction of the pool rounded down.
LEMMA PayoutBound ==
    ASSUME NEW m \in MarketData, NEW shares \in [Sides -> Word],
           m.outcome \in Sides =>
                m.total[m.outcome] > 0 /\ shares[m.outcome] <= m.total[m.outcome]
    PROVE  /\ calculate_payout(m, shares) \in 0 .. m.pool_balance
           /\ ~m.resolved \/ m.outcome \notin Sides
                => calculate_payout(m, shares) = 0
           /\ m.outcome \in Sides =>
                m.total[m.outcome] * calculate_payout(m, shares)
                    <= m.pool_balance * shares[m.outcome]
<1> DEFINE P == m.pool_balance
           pay == calculate_payout(m, shares)
<1>1. P \in Word /\ P \in Nat /\ m.resolved \in BOOLEAN
      /\ (m.outcome \notin Sides <=> m.outcome = "none")
    BY LimitsAssumption DEF MarketData, Word, Outcomes, Sides
<1>2. ASSUME m.outcome \in Sides
      PROVE  /\ m.total[m.outcome] \in Word /\ m.total[m.outcome] \in Nat
             /\ shares[m.outcome] \in Word /\ shares[m.outcome] \in Nat
    BY <1>2, LimitsAssumption DEF MarketData, Word
<1>3. CASE ~m.resolved \/ P = 0 \/ m.outcome = "none"
  <2>1. pay = 0
    BY <1>3 DEF calculate_payout
  <2>2. m.outcome \in Sides => P * shares[m.outcome] \in Nat
                               /\ m.total[m.outcome] * 0 = 0
    BY <1>1, <1>2
  <2> HIDE DEF pay
  <2> QED BY <1>1, <2>1, <2>2 DEF pay
<1>4. CASE m.resolved /\ P # 0 /\ m.outcome # "none"
  <2> DEFINE T == m.total[m.outcome]
             s == shares[m.outcome]
             v == s * P
             q == v \div T
  <2>1. /\ T \in Nat \ {0} /\ s \in Word /\ s \in Nat /\ s <= T
        /\ m.outcome \in Sides
    BY <1>1, <1>2, <1>4
  <2>2. ~MulOverflows(s, P)
    BY <1>1, <2>1, ProductFits
  <2>3. pay = safe_div_high_precision(s, P, T)
    BY <1>4, <2>1 DEF calculate_payout
  <2> HIDE DEF T, s, P, pay
  <2>4. v \in Nat /\ v <= T * P /\ v = P * s
    BY <1>1, <2>1
  <2>5. q \in Nat /\ T * q <= v /\ q <= P
    <3>1. (T * P) \div T = P
      BY <1>1, <2>1
    <3>2. T * P \in Nat
      BY <1>1, <2>1
    <3> HIDE DEF v
    <3>3. q \in Nat /\ T * q <= v
      BY <2>1, <2>4
    <3>4. q <= (T * P) \div T
      BY <2>1, <2>4, <3>2
    <3> QED BY <3>1, <3>3, <3>4
  <2>6. q \in Word
    BY <1>1, <2>5, LimitsAssumption DEF Word
  <2>7. pay = q
    BY <1>4, <2>1, <2>2, <2>3, <2>6 DEF safe_div_high_precision, P
  <2> HIDE DEF q, v
  <2> QED BY <1>4, <2>1, <2>4, <2>5, <2>7 DEF pay, P, T, s
<1> QED BY <1>1, <1>3, <1>4
=============================================================================
