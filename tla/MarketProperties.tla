-------------------------- MODULE MarketProperties --------------------------
(* What the rollup program promises about shares, money and authority.       *)
EXTENDS PredictionMarket, Sums

\* Typing of the state.  Every number stays a u64 although the program adds
\* balances and shares without a check.
TypeOK ==
    /\ DOMAIN players \subseteq Pids
    /\ players \in [DOMAIN players -> PlayerRecord]
    /\ positions \in [Slots -> [MarketIds -> PlayerMarketPosition]]
    /\ markets \in Seq(MarketData)
    /\ Len(markets) <= MaxMarkets
    /\ counter \in Word
    /\ txsize \in Nat
    /\ txcounter \in Nat
    /\ settlement \in Seq(WithdrawInfo)

-----------------------------------------------------------------------------
(* Shares. *)

\* The shares of one side of a market held in all the slots together.
HeldShares(id, side) ==
    Total([slot \in Slots |-> positions[slot][id].shares[side]])

\* A market's totals cover every share the players hold and at least the
\* minimal virtual liquidity besides, so a winning total is never zero and
\* the unchecked additions to a position cannot wrap (market.rs place_bet and
\* sell_shares against player.rs add_* and subtract_*).
SharesBacked ==
    \A id \in DOMAIN markets, side \in Sides :
        HeldShares(id, side) + MIN_LIQUIDITY <= markets[id].total[side]

\* The virtual liquidity of a market, its totals less what players hold, is
\* what its creation gave it, whatever commands run and whoever shares a slot.
VirtualLiquidityFixed ==
    [][\A id \in DOMAIN markets, side \in Sides :
            markets'[id].total[side] - HeldShares(id, side)'
                = markets[id].total[side] - HeldShares(id, side)]_vars

-----------------------------------------------------------------------------
(* Money. *)

\* What the position of a slot is worth in a market.
Payout(slot, id) == calculate_payout(markets[id], positions[slot][id].shares)

\* All positions of a resolved market can be paid from its pool, claimed ones
\* included: claims never need more than the pool held at the resolution
\* (handle_claim pays without touching pool_balance).
WinnersCovered ==
    \A id \in DOMAIN markets :
        Total([slot \in Slots |-> Payout(slot, id)]) <= markets[id].pool_balance

\* What the claims of a market have been paid so far.
PaidOut(id) ==
    Total([slot \in Slots |->
            IF positions[slot][id].claimed THEN Payout(slot, id) ELSE 0])

\* What is still in a market: its pool less the paid claims, and its fees.
Holds(id) ==
    markets[id].pool_balance - PaidOut(id) + markets[id].total_fees_collected

\* Every token there is: balances, withdrawals and what the markets hold.
Supply ==
    Total([pid \in DOMAIN players |-> players[pid].balance])
    + Total([i \in DOMAIN settlement |-> settlement[i].amount])
    + Total([id \in DOMAIN markets |-> Holds(id)])

\* The steps that issue tokens: an installation, a deposit and a sale.
Issuing ==
    \/ DOMAIN players' # DOMAIN players
    \/ /\ Admin \in DOMAIN players
       /\ \E pid \in Pids, amount \in DepositAmounts :
            Deposit(players[Admin].nonce, pid, amount)
    \/ \E id \in DOMAIN markets, side \in Sides :
            markets'[id].total[side] < markets[id].total[side]

\* No other command makes or destroys a token: bets, claims, fee withdrawals,
\* resolutions and withdrawals only move tokens, and a position is paid once.
MoneyConserved == [][~Issuing => Supply' = Supply]_vars

\* The fee of the last sale of a market, as its vault shows it.
VaultGain(id) ==
    markets'[id].total_fees_collected - markets[id].total_fees_collected

\* A sale issues exactly the fee it books: the vault gains the fee, while the
\* pool loses the net payout alone (market.rs sell_shares).
SaleIssuesItsFee ==
    [][\A id \in DOMAIN markets, side \in Sides :
            markets'[id].total[side] < markets[id].total[side]
                => Supply' = Supply + VaultGain(id)]_vars

-----------------------------------------------------------------------------
(* Authority and finality. *)

\* A balance falls only by a command of the player itself that uses up the
\* player's nonce, so that it cannot run twice, or by a deposit whose sum wraps
\* around.
SpendingConsumesNonce ==
    [][\A pid \in DOMAIN players :
            players'[pid].balance < players[pid].balance
                => \/ players'[pid].nonce = players[pid].nonce + 1
                   \/ \E amount \in DepositAmounts :
                         players[pid].balance + amount \notin Word]_vars

\* The shares of a slot change only by a command of a player of that slot
\* that uses up a nonce.
TradingConsumesNonce ==
    [][\A slot \in Slots, id \in MarketIds :
            positions'[slot][id].shares # positions[slot][id].shares
                => \E pid \in DOMAIN players :
                        /\ SlotOf(pid) = slot
                        /\ players'[pid].nonce = players[pid].nonce + 1]_vars

\* Resolution is final: the outcome, the pool and both totals of a resolved
\* market, and every position's shares in it, never change again.
ResolutionFinal ==
    [][\A id \in DOMAIN markets :
        markets[id].resolved =>
            /\ markets'[id] = [markets[id] EXCEPT
                    !.total_fees_collected = markets'[id].total_fees_collected]
            /\ \A slot \in Slots :
                positions'[slot][id].shares = positions[slot][id].shares]_vars

\* A claimed position is closed for good: it never changes, and no command
\* claims it again, although the flag is set before the claim is decided.
ClaimedIsFinal ==
    [][\A slot \in Slots, id \in MarketIds :
        positions[slot][id].claimed
            => positions'[slot][id] = positions[slot][id]]_vars

\* A claim that fails after its flag was stored loses nothing: the position
\* was, and with ResolutionFinal stays, worth nothing.
FailedClaimLosesNothing ==
    [][\A slot \in Slots, id \in DOMAIN markets :
        /\ positions[slot][id].claimed # positions'[slot][id].claimed
        /\ reply'.e # NoError
        => Payout(slot, id) = 0]_vars

-----------------------------------------------------------------------------
(* The refinement of MarketLife. *)

StageOf(id) ==
    IF id \notin DOMAIN markets THEN "none"
    ELSE IF markets[id].resolved THEN "resolved" ELSE "open"

LifeStage == [id \in MarketIds |-> StageOf(id)]
LifeVerdict ==
    [id \in MarketIds |->
        IF id \in DOMAIN markets THEN markets[id].outcome ELSE "none"]
LifeShares ==
    [slot \in Slots |-> [id \in MarketIds |-> positions[slot][id].shares]]
LifeSettled ==
    [slot \in Slots |-> [id \in MarketIds |-> positions[slot][id].claimed]]

Life == INSTANCE MarketLife WITH
    Ids <- MarketIds,
    Holdings <- [Sides -> Word],
    Nothing <- [side \in Sides |-> 0],
    stage <- LifeStage,
    verdict <- LifeVerdict,
    shares <- LifeShares,
    settled <- LifeSettled

\* Each market lives the life of MarketLife: ids are given in order, one
\* position at a time changes and only while the market is open, one resolution
\* with one outcome, and then each position is settled at most once.
MarketsLive == Life!Spec

-----------------------------------------------------------------------------
(* Events. *)

\* The shares an event reports: bought ones, or sold ones with a minus.
EventShares(event) == IF event.type <= 1 THEN event.shares ELSE -event.amount

\* Whatever changes a market, except the withdrawal of its fees, announces the
\* market's new record, and whatever changes the shares of a slot announces
\* the exact number of shares for a player of that slot.
TradesAnnounced ==
    [][/\ \A id \in DOMAIN markets' :
            \/ /\ id \in DOMAIN markets
               /\ \/ markets'[id] = markets[id]
                  \/ markets'[id] = [markets[id] EXCEPT
                                        !.total_fees_collected = 0]
            \/ \E i \in DOMAIN reply'.events :
                    reply'.events[i] = MarketEvent(id, markets'[id])
       /\ \A slot \in Slots, id \in MarketIds, side \in Sides :
            LET change == positions'[slot][id].shares[side]
                            - positions[slot][id].shares[side]
            IN  change # 0 =>
                \E i \in DOMAIN reply'.events :
                    LET event == reply'.events[i]
                    IN  /\ event.kind = "bet"
                        /\ SlotOf(event.pid) = slot
                        /\ event.id = id
                        /\ SideOf(event.type % 10) = side
                        /\ EventShares(event) = change]_vars

-----------------------------------------------------------------------------
(* Statements of the documentation and of the tests that the program does    *)
(* not meet; each has a run that shows it.                                   *)

\* README.md: "Atomic operations with rollback capability" - a command that
\* answers an error leaves the state as it was.
FailureRollsBack ==
    [][reply'.e # NoError =>
        UNCHANGED <<players, positions, markets, counter, settlement>>]_vars

\* README.md, DEPOSIT: "Deposit funds for player" - a deposit that succeeds
\* raises the balance of its target by its amount.
DepositCredits ==
    [][\A nonce \in Nonces, pid \in Pids, amount \in DepositAmounts :
        Deposit(nonce, pid, amount) /\ reply'.e = NoError
            => players'[pid].balance = players[pid].balance + amount]_vars

\* market.rs, sell_shares: "protocol fee is *not* paid out - it's retained" - a
\* sale moves tokens and makes none.
SaleConserves ==
    [][\A id \in DOMAIN markets, side \in Sides :
            markets'[id].total[side] < markets[id].total[side]
                => Supply' = Supply]_vars

=============================================================================
