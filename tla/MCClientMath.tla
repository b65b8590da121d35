---------------------------- MODULE MCClientMath ----------------------------
(* Instance of ClientMath for TLC.                                           *)
EXTENDS ClientMath, MCMarketMaker

=============================================================================
