---------------------------- MODULE MCSanitySync ----------------------------
(* Instances of SanitySync for TLC.                                          *)
EXTENDS SanitySync

administrator == <<0, 1>>
alice         == <<1, 0>>

Both == {administrator, alice}

Doc(id, start, end, yes) ==
    [id |-> id,
     offer |-> [start_time |-> start, end_time |-> end, resolution_time |-> end,
                liquidity |-> [side \in Sides |-> IF side = "yes" THEN yes ELSE 5],
                b |-> 4]]

\* Two good documents, and a listing whose second document is refused.
GoodListing == <<Doc(1, 0, 2, 4), Doc(2, 0, 3, 5)>>
BadListing  == <<Doc(1, 0, 2, 4), Doc(2, 2, 2, 5), Doc(3, 0, 3, 5)>>

EitherListing == {GoodListing, BadListing}
OnlyGood      == {GoodListing}
Listed        == {listing[i].offer : listing \in EitherListing, i \in 1 .. 2}
                    \cup {BadListing[3].offer}

=============================================================================
