-------------------------- MODULE MCIndexedMarket --------------------------
(* Instances of IndexedMarket for TLC.                                       *)
EXTENDS IndexedMarket, MCPredictionMarket

\* The administrator trades as well: the player of the shortest histories.
Alone == {administrator}

=============================================================================
