-------------------------- MODULE PredictionMarket --------------------------
(* The rollup program: the state that Transaction::process reads and writes  *)
(* (state.rs, player.rs, market.rs, settlement.rs, event.rs) and one action  *)
(* per command (command.rs).  A command is executed to its end before the    *)
(* next one starts.                                                          *)
(*                                                                           *)
(* A failed `require` traps.  Every trap of this program comes before the    *)
(* first write of its command, so a trap is a guard of the action.  An Err   *)
(* is answered in reply.e and leaves whatever was stored before it.          *)
EXTENDS Market, Sequences

CONSTANTS
    Pids,                \* player ids: pairs of u64 words
    Admin,               \* the id of the administrator's key
    U32,                 \* 2^32: a slot keeps the low halves of an id's words
    NEW_PLAYER_INITIAL_BALANCE,
    \* the inputs offered to the commands
    BetAmounts, SellAmounts, WithdrawAmounts, DepositAmounts, Offers,
    \* bounds of the model: markets, ticks and successful commands
    MaxMarkets, MaxCounter, MaxTx

ASSUME PidsAssumption ==
    /\ U32 \in Nat \ {0}
    /\ Pids \subseteq Nat \X Nat
    /\ Admin \in Pids

ASSUME InputsAssumption ==
    /\ NEW_PLAYER_INITIAL_BALANCE \in Word
    /\ BetAmounts \subseteq Word
    /\ SellAmounts \subseteq Word
    /\ WithdrawAmounts \subseteq Word
    /\ DepositAmounts \subseteq Word
    /\ Offers \subseteq CreateArgs

ASSUME BoundsAssumption ==
    /\ MaxMarkets \in Nat
    /\ MaxCounter \in Nat
    /\ MaxTx \in Nat

VARIABLES
    players,     \* PlayerData and nonce of each installed player
    positions,   \* PlayerMarketPosition of each slot in each market
    markets,     \* the created markets: market id i is markets[i]
    counter,     \* GlobalState.counter, the time in ticks
    txsize,      \* GlobalState.txsize
    txcounter,   \* GlobalState.txcounter
    settlement,  \* withdrawals not yet flushed to the settlement layer
    reply        \* what process() returned last: error code and events

vars == <<players, positions, markets, counter, txsize, txcounter,
          settlement, reply>>

\* market_ids holds 1 .. Len(markets) and next_market_id is Len(markets) + 1:
\* both change only when a market is created.
MarketIds == 1 .. MaxMarkets

\* combine_player_id_safe: the key a player's positions are stored under.
SlotOf(pid) == (pid[1] % U32) * U32 + (pid[2] % U32)
Slots == 0 .. U32 * U32 - 1

PlayerMarketPosition == [shares : [Sides -> Word], claimed : BOOLEAN]
NoPosition == [shares |-> [side \in Sides |-> 0], claimed |-> FALSE]
PlayerRecord == [nonce : Nat, balance : Word]
\* The address a withdrawal goes to is an input that nothing here depends on.
WithdrawInfo == [amount : Word]

Init ==
    /\ players = << >>
    /\ positions = [slot \in Slots |-> [id \in MarketIds |-> NoPosition]]
    /\ markets = << >>
    /\ counter = 0
    /\ txsize = 0
    /\ txcounter = 0
    /\ settlement = << >>
    /\ reply = [e |-> NoError, events |-> << >>]

-----------------------------------------------------------------------------
(* Events and the end of process(). *)

BetEvent(pid, id, type, amount, shares) ==
    [kind |-> "bet", txid |-> txcounter, pid |-> pid, id |-> id, type |-> type,
     amount |-> amount, shares |-> shares, time |-> counter]

\* Mutant: a sale is announced as a purchase.
SellEvent_as_purchase(pid, id, type, shares, payout) ==
    BetEvent(pid, id, type, shares, payout)

\* A sale's event carries sell_type + 10, its shares and its payout.
SellEvent(pid, id, type, shares, payout) ==
    BetEvent(pid, id, type + 10, shares, payout)

MarketEvent(id, m) == [kind |-> "market", id |-> id, market |-> m]

LiquidityEvent(id, now) ==
    [kind |-> "liquidity", id |-> id, time |-> now, total |-> markets[id].total]

\* A command other than Tick succeeds: inc_tx_number, then the reply.  MaxTx
\* bounds the model.
Accept(events) ==
    /\ txcounter < MaxTx
    /\ txsize' = txsize + 1
    /\ txcounter' = txcounter + 1
    /\ reply' = [e |-> NoError, events |-> events]

\* A command fails: no transaction is counted and no event is left over.
Fail(e) ==
    /\ reply' = [e |-> e, events |-> << >>]
    /\ UNCHANGED <<txsize, txcounter>>

\* A command fails before it has stored anything.
Reject(e) ==
    /\ Fail(e)
    /\ UNCHANGED <<players, positions, markets, counter, settlement>>

-----------------------------------------------------------------------------
(* Helpers on players and markets. *)

\* check_and_inc_nonce: the nonce of the command must be the player's.  The
\* increment is kept only by a handler that stores the player.
check_nonce(pid, nonce) == pid \in DOMAIN players /\ players[pid].nonce = nonce

\* Mutant: the player is stored with its old nonce.
stored_without_increment(pid, balance) ==
    [nonce |-> players[pid].nonce, balance |-> balance]

\* store() of the command's player, its nonce incremented.
stored(pid, balance) == [nonce |-> players[pid].nonce + 1, balance |-> balance]

StorePlayer(pid, balance) ==
    players' = [players EXCEPT ![pid] = stored(pid, balance)]

\* add_balance and `balance += payout`: plain u64 additions.
add_balance(balance, amount) == (balance + amount) % U64

MarketExists(id) == id \in DOMAIN markets

ensure_market_active(id) ==
    IF MarketExists(id) /\ is_active(markets[id], counter)
    THEN NoError ELSE ERROR_MARKET_NOT_ACTIVE

-----------------------------------------------------------------------------
(* The administrator's clock and the installation of players. *)

\* MaxCounter bounds the model.
Tick ==
    /\ counter < MaxCounter
    /\ counter' = (counter + 1) % U64
    /\ reply' = [e |-> NoError,
                 events |-> [id \in DOMAIN markets |->
                                LiquidityEvent(id, counter')]]
    /\ UNCHANGED <<players, positions, markets, txsize, txcounter, settlement>>

InstallPlayer(pid) ==
    \/ /\ pid \in DOMAIN players
       /\ Reject(ERROR_PLAYER_ALREADY_EXISTS)
    \/ /\ pid \notin DOMAIN players
       /\ players' = [p \in DOMAIN players \cup {pid} |->
                        IF p = pid
                        THEN [nonce |-> 0, balance |-> NEW_PLAYER_INITIAL_BALANCE]
                        ELSE players[p]]
       /\ Accept(<< >>)
       /\ UNCHANGED <<positions, markets, counter, settlement>>

\* Any command of a player that is not installed, except InstallPlayer, Tick
\* and the administrator's Deposit, which traps.
UnknownPlayer(pid) ==
    /\ pid \notin DOMAIN players
    /\ Reject(ERROR_PLAYER_NOT_EXIST)

-----------------------------------------------------------------------------
(* Deposit and withdrawal. *)

\* Mutant: one token more than there is.
can_withdraw_one_more(pid, amount) == players[pid].balance + 1 >= amount

\* The `require` of Withdraw.
can_withdraw(pid, amount) == players[pid].balance >= amount

\* `amount` is the low half of the first word, which is what the balance loses
\* and what WithdrawInfo carries.
Withdraw(pid, nonce, amount) ==
    /\ check_nonce(pid, nonce)
    /\ can_withdraw(pid, amount)
    /\ StorePlayer(pid, players[pid].balance - amount)
    /\ settlement' = Append(settlement, [amount |-> amount])
    /\ Accept(<< >>)
    /\ UNCHANGED <<positions, markets, counter>>

\* The target is stored first and the administrator, read before it, second.
Deposit(nonce, target, amount) ==
    /\ check_nonce(Admin, nonce)
    /\ \/ /\ target \notin DOMAIN players
          /\ Reject(ERROR_PLAYER_NOT_EXIST)
       \/ /\ target \in DOMAIN players
          /\ players' = [players EXCEPT
                           ![target].balance = add_balance(@, amount),
                           ![Admin] = stored(Admin, players[Admin].balance)]
          /\ Accept(<< >>)
          /\ UNCHANGED <<positions, markets, counter, settlement>>

-----------------------------------------------------------------------------
(* Trading. *)

bet_error(pid, id, bet_type, amount) ==
    IF amount = 0 THEN ERROR_INVALID_BET_AMOUNT
    ELSE IF bet_type > 1 THEN ERROR_INVALID_BET_TYPE
    ELSE IF ensure_market_active(id) # NoError THEN ensure_market_active(id)
    ELSE IF players[pid].balance < amount THEN ERROR_INSUFFICIENT_BALANCE
    ELSE place_bet(markets[id], SideOf(bet_type), amount).err

Bet(pid, nonce, id, bet_type, amount) ==
    /\ check_nonce(pid, nonce)
    /\ LET e      == bet_error(pid, id, bet_type, amount)
           side   == SideOf(bet_type)
           placed == place_bet(markets[id], side, amount)
       IN \/ e # NoError /\ Reject(e)
          \/ /\ e = NoError
             /\ StorePlayer(pid, players[pid].balance - amount)
             /\ markets' = [markets EXCEPT ![id] = placed.market]
             /\ positions' = [positions EXCEPT ![SlotOf(pid)][id].shares[side] =
                                (@ + placed.value) % U64]
             /\ Accept(<<BetEvent(pid, id, bet_type, amount, placed.value),
                         MarketEvent(id, placed.market)>>)
             /\ UNCHANGED <<counter, settlement>>

sell_error(pid, id, sell_type, shares) ==
    IF shares = 0 THEN ERROR_INVALID_BET_AMOUNT
    ELSE IF ensure_market_active(id) # NoError THEN ensure_market_active(id)
    ELSE IF positions[SlotOf(pid)][id].shares[SideOf(sell_type)] < shares
    THEN ERROR_INSUFFICIENT_BALANCE
    ELSE sell_shares(markets[id], sell_type, shares).err

Sell(pid, nonce, id, sell_type, shares) ==
    /\ check_nonce(pid, nonce)
    /\ LET e    == sell_error(pid, id, sell_type, shares)
           sold == sell_shares(markets[id], sell_type, shares)
       IN \/ e # NoError /\ Reject(e)
          \/ /\ e = NoError
             /\ StorePlayer(pid, add_balance(players[pid].balance, sold.value))
             /\ markets' = [markets EXCEPT ![id] = sold.market]
             /\ positions' = [positions EXCEPT
                   ![SlotOf(pid)][id].shares[SideOf(sell_type)] = @ - shares]
             /\ Accept(<<SellEvent(pid, id, sell_type, shares, sold.value),
                         MarketEvent(id, sold.market)>>)
             /\ UNCHANGED <<counter, settlement>>

-----------------------------------------------------------------------------
(* The life of a market: creation, resolution, claims, fees. *)

\* Offers are relative to the current counter; the sums are plain u64 sums.
absolute(offer) ==
    [offer EXCEPT !.start_time = (counter + @) % U64,
                  !.end_time = (counter + @) % U64,
                  !.resolution_time = (counter + @) % U64]

\* The administrator's record is not stored: its nonce stays.
CreateMarket(nonce, offer) ==
    /\ check_nonce(Admin, nonce)
    /\ LET e  == create_error(absolute(offer))
           m  == new_with_liquidity(absolute(offer))
       IN \/ e # NoError /\ Reject(e)
          \/ /\ e = NoError
             /\ Len(markets) < MaxMarkets
             /\ markets' = Append(markets, m)
             /\ Accept(<<MarketEvent(Len(markets) + 1, m)>>)
             /\ UNCHANGED <<players, positions, counter, settlement>>

\* Mutant: a market may be resolved again.
resolve_error_repeated(id) ==
    IF ~MarketExists(id) THEN ERROR_MARKET_NOT_ACTIVE ELSE NoError

resolve_error(id) ==
    IF ~MarketExists(id) THEN ERROR_MARKET_NOT_ACTIVE
    ELSE IF markets[id].resolved THEN ERROR_MARKET_ALREADY_RESOLVED
    ELSE NoError

\* can_resolve is computed and ignored (`&& false`), and the administrator's
\* record is not stored.
Resolve(nonce, id, outcome) ==
    /\ check_nonce(Admin, nonce)
    /\ LET m == resolve(markets[id], outcome)
       IN \/ resolve_error(id) # NoError /\ Reject(resolve_error(id))
          \/ /\ resolve_error(id) = NoError
             /\ markets' = [markets EXCEPT ![id] = m]
             /\ Accept(<<MarketEvent(id, m)>>)
             /\ UNCHANGED <<players, positions, counter, settlement>>

\* Mutants: a position may be claimed twice; before the resolution.
claim_error_repeated(pid, id) ==
    IF ~MarketExists(id) THEN ERROR_MARKET_NOT_ACTIVE
    ELSE IF ~markets[id].resolved THEN ERROR_MARKET_NOT_RESOLVED
    ELSE NoError
claim_error_unresolved(pid, id) ==
    IF ~MarketExists(id) THEN ERROR_MARKET_NOT_ACTIVE
    ELSE IF positions[SlotOf(pid)][id].claimed THEN ERROR_ALREADY_CLAIMED
    ELSE NoError

claim_error(pid, id) ==
    IF ~MarketExists(id) THEN ERROR_MARKET_NOT_ACTIVE
    ELSE IF ~markets[id].resolved THEN ERROR_MARKET_NOT_RESOLVED
    ELSE IF positions[SlotOf(pid)][id].claimed THEN ERROR_ALREADY_CLAIMED
    ELSE NoError

\* The claimed flag is stored before the payout is known, so it stays when the
\* claim then fails.  The pool keeps its balance, and no event is emitted.
Claim(pid, nonce, id) ==
    /\ check_nonce(pid, nonce)
    /\ LET slot   == SlotOf(pid)
           payout == calculate_payout(markets[id], positions[slot][id].shares)
       IN \/ claim_error(pid, id) # NoError /\ Reject(claim_error(pid, id))
          \/ /\ claim_error(pid, id) = NoError
             /\ positions' = [positions EXCEPT ![slot][id].claimed = TRUE]
             /\ \/ /\ payout <= 0
                   /\ Fail(IF payout < 0 THEN -payout ELSE ERROR_NO_WINNING_POSITION)
                   /\ UNCHANGED players
                \/ /\ payout > 0
                   /\ StorePlayer(pid, add_balance(players[pid].balance, payout))
                   /\ Accept(<< >>)
             /\ UNCHANGED <<markets, counter, settlement>>

withdraw_fees_error(id) ==
    IF ~MarketExists(id) THEN ERROR_MARKET_NOT_ACTIVE
    ELSE IF markets[id].total_fees_collected = 0 THEN ERROR_NO_FEES_TO_WITHDRAW
    ELSE NoError

WithdrawFees(nonce, id) ==
    /\ check_nonce(Admin, nonce)
    /\ LET e == withdraw_fees_error(id)
       IN \/ e # NoError /\ Reject(e)
          \/ /\ e = NoError
             /\ StorePlayer(Admin, add_balance(players[Admin].balance,
                                               markets[id].total_fees_collected))
             /\ markets' = [markets EXCEPT ![id].total_fees_collected = 0]
             /\ Accept(<< >>)
             /\ UNCHANGED <<positions, counter, settlement>>

-----------------------------------------------------------------------------
\* The nonces a command may carry: one too far is offered as well.
Nonces == 0 .. MaxTx

Next ==
    \/ Tick
    \/ \E pid \in Pids :
        \/ InstallPlayer(pid)
        \/ UnknownPlayer(pid)
        \/ \E nonce \in Nonces :
            \/ \E amount \in WithdrawAmounts : Withdraw(pid, nonce, amount)
            \/ \E amount \in DepositAmounts : Deposit(nonce, pid, amount)
            \/ \E id \in MarketIds :
                \/ Claim(pid, nonce, id)
                \/ \E type \in 0 .. 2 :
                    \/ \E amount \in BetAmounts :
                            Bet(pid, nonce, id, type, amount)
                    \/ \E shares \in SellAmounts :
                            Sell(pid, nonce, id, type, shares)
    \/ \E nonce \in Nonces :
        \/ \E offer \in Offers : CreateMarket(nonce, offer)
        \/ \E id \in MarketIds :
            \/ WithdrawFees(nonce, id)
            \/ \E outcome \in 0 .. 1 : Resolve(nonce, id, outcome)

Spec == Init /\ [][Next]_vars

=============================================================================
