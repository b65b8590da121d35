------------------------- MODULE MCPredictionMarket -------------------------
(* Instances of PredictionMarket for TLC.                                    *)
EXTENDS MarketProperties

administrator == <<0, 1>>
alice         == <<1, 0>>
\* A player whose words have the same low halves as the administrator's.
twin          == <<2, 1>>

OnePlayer     == {administrator, alice}
SharedSlot    == {administrator, twin}

Offer(start, end, resolution, yes, no, depth) ==
    [start_time |-> start, end_time |-> end, resolution_time |-> resolution,
     liquidity |-> [side \in Sides |-> IF side = "yes" THEN yes ELSE no],
     b |-> depth]

open  == Offer(0, 2, 2, 4, 4, 4)
brief == Offer(0, 1, 1, 4, 4, 4)

GoodOffer  == {open}
BriefOffer == {brief}
\* One offer for each way create_error refuses.
AllOffers  == {open, Offer(1, 1, 2, 4, 4, 4), Offer(0, 2, 1, 4, 4, 4),
               Offer(0, 2, 2, 3, 4, 4), Offer(0, 2, 2, 4, 200, 4),
               Offer(0, 2, 2, 4, 4, 0)}

=============================================================================
