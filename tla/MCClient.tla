------------------------------ MODULE MCClient ------------------------------
(* Instance of Client for TLC.                                               *)
EXTENDS Client

administrator == <<0, 1>>
alice         == <<1, 0>>

Both == {administrator, alice}

GoodOffer ==
    {[start_time |-> 0, end_time |-> 2, resolution_time |-> 2,
      liquidity |-> [side \in Sides |-> 4], b |-> 4]}

=============================================================================
