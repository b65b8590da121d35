--------------------------- MODULE MCMarketMaker ---------------------------
(* Instances of MarketMaker for TLC.                                         *)
EXTENDS MarketMaker

Opened(yes, no, depth) ==
    [start_time |-> 0, end_time |-> 1, resolution_time |-> 1,
     liquidity |-> [side \in Sides |-> IF side = "yes" THEN yes ELSE no],
     b |-> depth]

\* A balanced and a lopsided market; the sum of the exponentials starts between
\* 4 and 8 and passes 8 and 16 as shares are bought.
Balanced == {Opened(10, 10, 10)}
Both == {Opened(10, 10, 10), Opened(12, 8, 10)}

=============================================================================
