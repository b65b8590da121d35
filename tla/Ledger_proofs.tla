---------------------------- MODULE Ledger_proofs ----------------------------
(* Shares and money, proved for every value of the constants: markets stay   *)
(* backed, virtual liquidity stays what the creation gave, winners can be    *)
(* paid, and no command but three makes or destroys a token.                 *)
EXTENDS PredictionMarket_proofs

-----------------------------------------------------------------------------
(* The effects of a step with their amounts. *)

\* Market m is market id with n shares more on a side.
Minted(id, side, n, m) ==
    /\ m \in MarketData
    /\ m.total = [markets[id].total EXCEPT ![side] = @ + n]
    /\ m.b = markets[id].b
    /\ m.resolved = markets[id].resolved
    /\ m.outcome = markets[id].outcome

\* A bet of an amount buys n shares; the amount goes to the pool and the vault.
BoughtBy(pid, id, type, amount, n, m) ==
    /\ ~markets[id].resolved
    /\ n \in 1 .. MAX_SHARES
    /\ amount \in 0 .. players[pid].balance
    /\ StorePlayer(pid, players[pid].balance - amount)
    /\ Minted(id, SideOf(type), n, m)
    /\ m.pool_balance + m.total_fees_collected
        = markets[id].pool_balance + markets[id].total_fees_collected + amount
    /\ markets' = [markets EXCEPT ![id] = m]
    /\ positions' = [positions EXCEPT
            ![SlotOf(pid)][id].shares[SideOf(type)] = (@ + n) % U64]
    /\ reply'.events = <<BetEvent(pid, id, type, amount, n), MarketEvent(id, m)>>
    /\ UNCHANGED settlement
Bought ==
    \E pid \in DOMAIN players, id \in DOMAIN markets, type \in 0 .. 1 :
        \E amount, n, m : BoughtBy(pid, id, type, amount, n, m)

\* A sale of n shares pays the player out of the pool.
SoldBy(pid, id, type, payout, n, m) ==
    /\ ~markets[id].resolved
    /\ n \in 1 .. positions[SlotOf(pid)][id].shares[SideOf(type)]
    /\ payout \in 1 .. markets[id].pool_balance
    /\ StorePlayer(pid, add_balance(players[pid].balance, payout))
    /\ Minted(id, SideOf(type), -n, m)
    /\ m.pool_balance = markets[id].pool_balance - payout
    /\ markets' = [markets EXCEPT ![id] = m]
    /\ positions' = [positions EXCEPT
            ![SlotOf(pid)][id].shares[SideOf(type)] = @ - n]
    /\ reply'.events = <<SellEvent(pid, id, type, n, payout), MarketEvent(id, m)>>
    /\ UNCHANGED settlement
Sold ==
    \E pid \in DOMAIN players, id \in DOMAIN markets, type \in 0 .. 1 :
        \E payout, n, m : SoldBy(pid, id, type, payout, n, m)

\* A market is created empty, with its virtual liquidity.
Opened ==
    /\ \E m \in MarketData :
        /\ \A side \in Sides : MIN_LIQUIDITY <= m.total[side]
        /\ m.b # 0
        /\ m.pool_balance = 0 /\ m.total_fees_collected = 0
        /\ ~m.resolved
        /\ Len(markets) < MaxMarkets
        /\ markets' = Append(markets, m)
        /\ reply'.events = <<MarketEvent(Len(markets) + 1, m)>>
    /\ UNCHANGED <<players, positions, settlement>>

\* An open market is resolved.
Closed ==
    /\ \E id \in DOMAIN markets, outcome \in 0 .. 1 :
        LET m == resolve(markets[id], outcome)
        IN  /\ ~markets[id].resolved
            /\ markets' = [markets EXCEPT ![id] = m]
            /\ reply'.events = <<MarketEvent(id, m)>>
    /\ UNCHANGED <<players, positions, settlement>>

\* A position is claimed, with its payout or with an error.
ClaimedBy(pid, id) ==
    LET payout == Payout(SlotOf(pid), id)
    IN  /\ markets[id].resolved
        /\ ~positions[SlotOf(pid)][id].claimed
        /\ positions' = [positions EXCEPT ![SlotOf(pid)][id].claimed = TRUE]
        /\ \/ payout <= 0 /\ UNCHANGED players
           \/ /\ payout > 0
              /\ StorePlayer(pid, add_balance(players[pid].balance, payout))
              /\ reply'.e = NoError
        /\ UNCHANGED <<markets, settlement>>
Claimed == \E pid \in DOMAIN players, id \in DOMAIN markets : ClaimedBy(pid, id)

\* The administrator takes the fees of a market.
CollectedFrom(id) ==
    /\ StorePlayer(Admin, add_balance(players[Admin].balance,
                                      markets[id].total_fees_collected))
    /\ markets' = [markets EXCEPT ![id].total_fees_collected = 0]
    /\ UNCHANGED <<positions, settlement>>
Collected == Admin \in DOMAIN players /\ \E id \in DOMAIN markets : CollectedFrom(id)

\* A player's tokens leave for the settlement layer.
WithdrawnBy(pid, amount) ==
    /\ amount \in 0 .. players[pid].balance
    /\ StorePlayer(pid, players[pid].balance - amount)
    /\ settlement' = Append(settlement, [amount |-> amount])
    /\ UNCHANGED <<positions, markets>>
Withdrawn == \E pid \in DOMAIN players : \E amount : WithdrawnBy(pid, amount)

\* A player is installed, or a deposit is made.
Funded ==
    /\ \/ DOMAIN players' # DOMAIN players
       \/ /\ Admin \in DOMAIN players
          /\ \E pid \in Pids, amount \in DepositAmounts :
                Deposit(players[Admin].nonce, pid, amount)
    /\ UNCHANGED <<positions, markets, settlement>>

\* Nothing that the ledger counts changes.
Idle == UNCHANGED <<players, positions, markets, settlement>>

\* Every market has a positive depth: validate_b at its creation.
Priced == \A id \in DOMAIN markets : markets[id].b # 0

\* A bet that is not refused buys.
LEMMA BetLedger ==
    ASSUME TypeOK, Priced, NEW pid \in Pids, NEW nonce,
           NEW id, NEW type \in 0 .. 2, NEW amount \in BetAmounts,
           Bet(pid, nonce, id, type, amount),
           bet_error(pid, id, type, amount) = NoError
    PROVE  Bought
<1> DEFINE side   == SideOf(type)
           placed == place_bet(markets[id], side, amount)
<1>1. /\ amount # 0 /\ ~(type > 1) /\ ensure_market_active(id) = NoError
      /\ ~(players[pid].balance < amount)
      /\ placed.err = NoError
    BY DEF bet_error, NoError, ERROR_INVALID_BET_AMOUNT, ERROR_INVALID_BET_TYPE,
           ERROR_INSUFFICIENT_BALANCE
<1>2. id \in DOMAIN markets /\ ~markets[id].resolved
    BY <1>1 DEF ensure_market_active, MarketExists, is_active, NoError,
                ERROR_MARKET_NOT_ACTIVE
<1>3. /\ pid \in DOMAIN players /\ side \in Sides /\ type \in 0 .. 1
      /\ amount \in Word
    BY <1>1, InputsAssumption DEF Bet, check_nonce, SideOf, Sides
<1>4. /\ markets[id] \in MarketData /\ markets[id].b # 0
      /\ players[pid].balance \in Nat /\ amount \in Nat
      /\ markets[id].pool_balance \in Nat
      /\ markets[id].total_fees_collected \in Nat
    BY <1>2, <1>3, Reading, LimitsAssumption DEF Priced, MarketData, Word
<1>5. placed.market \in MarketData
    BY <1>3, <1>4, PlacedType
<1>6. /\ placed.value \in 1 .. MAX_SHARES
      /\ placed.market.total = [markets[id].total EXCEPT ![side] = @ + placed.value]
      /\ placed.market.pool_balance
            = markets[id].pool_balance + net_amount(amount)
      /\ placed.market.total_fees_collected
            = markets[id].total_fees_collected + calculate_fee(amount)
      /\ placed.market.b = markets[id].b
      /\ placed.market.resolved = markets[id].resolved
      /\ placed.market.outcome = markets[id].outcome
    BY <1>1, <1>3, <1>4, BetSucceeds
<1> HIDE DEF placed
<1>7. placed.market.pool_balance + placed.market.total_fees_collected
        = markets[id].pool_balance + markets[id].total_fees_collected + amount
  <2>1. /\ net_amount(amount) \in Nat /\ calculate_fee(amount) \in Nat
        /\ net_amount(amount) + calculate_fee(amount) = amount
    BY <1>4, NetAmount
  <2> QED BY <1>4, <1>6, <2>1
<1>8. amount \in 0 .. players[pid].balance
    BY <1>1, <1>4
<1>9. Minted(id, side, placed.value, placed.market)
    BY <1>5, <1>6 DEF Minted
<1>10. /\ StorePlayer(pid, players[pid].balance - amount)
       /\ markets' = [markets EXCEPT ![id] = placed.market]
       /\ positions' = [positions EXCEPT ![SlotOf(pid)][id].shares[side] =
                            (@ + placed.value) % U64]
       /\ reply'.events = <<BetEvent(pid, id, type, amount, placed.value),
                            MarketEvent(id, placed.market)>>
       /\ UNCHANGED settlement
    BY DEF Bet, Accept, placed
<1>11. BoughtBy(pid, id, type, amount, placed.value, placed.market)
    BY <1>2, <1>6, <1>7, <1>8, <1>9, <1>10 DEF BoughtBy
<1> QED BY <1>2, <1>3, <1>11 DEF Bought

\* A sale that is not refused sells.
LEMMA SellLedger ==
    ASSUME TypeOK, Priced, NEW pid \in Pids, NEW nonce,
           NEW id, NEW type \in 0 .. 2, NEW shares \in SellAmounts,
           Sell(pid, nonce, id, type, shares),
           sell_error(pid, id, type, shares) = NoError
    PROVE  Sold
<1> DEFINE side == SideOf(type)
           held == positions[SlotOf(pid)][id].shares[side]
           sold == sell_shares(markets[id], type, shares)
<1>1. /\ shares # 0 /\ ensure_market_active(id) = NoError
      /\ ~(held < shares)
      /\ sold.err = NoError
    BY DEF sell_error, NoError, ERROR_INVALID_BET_AMOUNT,
           ERROR_INSUFFICIENT_BALANCE
<1>2. id \in DOMAIN markets /\ ~markets[id].resolved
    BY <1>1 DEF ensure_market_active, MarketExists, is_active, NoError,
                ERROR_MARKET_NOT_ACTIVE
<1>3. /\ pid \in DOMAIN players /\ side \in Sides /\ shares \in Word
      /\ SlotOf(pid) \in Slots /\ type \in Nat
    BY InputsAssumption, SlotType DEF Sell, check_nonce, SideOf, Sides
<1>4. /\ markets[id] \in MarketData /\ markets[id].b # 0
      /\ held \in Nat /\ shares \in Nat
    BY <1>2, <1>3, Reading, LimitsAssumption DEF Priced, Word
<1>5. sold.market \in MarketData
    BY <1>3, <1>4, SoldType
<1>6. /\ type <= 1
      /\ sold.value \in 1 .. markets[id].pool_balance
      /\ sold.market.total = [markets[id].total EXCEPT ![side] = @ - shares]
      /\ sold.market.pool_balance = markets[id].pool_balance - sold.value
      /\ sold.market.b = markets[id].b
      /\ sold.market.resolved = markets[id].resolved
      /\ sold.market.outcome = markets[id].outcome
    BY <1>1, <1>3, <1>4, SaleSucceeds
<1> HIDE DEF sold
<1>7. [markets[id].total EXCEPT ![side] = @ - shares]
        = [markets[id].total EXCEPT ![side] = @ + (-shares)]
  <2>1. markets[id].total[side] \in Nat
    BY <1>3, <1>4, LimitsAssumption DEF MarketData, Word
  <2>2. markets[id].total[side] - shares = markets[id].total[side] + (-shares)
    BY <1>4, <2>1
  <2> QED BY <2>2
<1>8. Minted(id, side, -shares, sold.market)
    BY <1>5, <1>6, <1>7 DEF Minted
<1>9. /\ shares \in 1 .. held
      /\ type \in 0 .. 1
    BY <1>1, <1>4, <1>6
<1>10. /\ StorePlayer(pid, add_balance(players[pid].balance, sold.value))
       /\ markets' = [markets EXCEPT ![id] = sold.market]
       /\ positions' = [positions EXCEPT ![SlotOf(pid)][id].shares[side] =
                            @ - shares]
       /\ reply'.events = <<SellEvent(pid, id, type, shares, sold.value),
                            MarketEvent(id, sold.market)>>
       /\ UNCHANGED settlement
    BY DEF Sell, Accept, sold
<1>11. SoldBy(pid, id, type, sold.value, shares, sold.market)
    BY <1>2, <1>6, <1>8, <1>9, <1>10 DEF SoldBy
<1> QED BY <1>2, <1>3, <1>9, <1>11 DEF Sold

\* A creation that is not refused opens a market.
LEMMA CreateLedger ==
    ASSUME TypeOK, NEW nonce, NEW offer \in Offers,
           CreateMarket(nonce, offer), create_error(absolute(offer)) = NoError
    PROVE  Opened
<1> DEFINE args == absolute(offer)
           m    == new_with_liquidity(args)
<1>1. args \in CreateArgs
  <2>1. offer \in CreateArgs /\ counter \in Word
    BY InputsAssumption DEF TypeOK
  <2>2. \A t \in Word : (counter + t) % U64 \in Word
    BY <2>1, WrapType, LimitsAssumption DEF Word
  <2> QED BY <2>1, <2>2 DEF absolute, CreateArgs
<1> HIDE DEF args
<1>2. m \in MarketData
    BY <1>1, NewMarketType
<1>3. /\ validate_liquidity(args.liquidity["yes"]) = NoError
      /\ validate_liquidity(args.liquidity["no"]) = NoError
      /\ args.b # 0
    BY DEF create_error, args, NoError, ERROR_INVALID_MARKET_TIME,
           ERROR_INVALID_CALCULATION
<1>4. \A side \in Sides : MIN_LIQUIDITY <= args.liquidity[side]
  <2> SUFFICES ASSUME NEW side \in Sides PROVE MIN_LIQUIDITY <= args.liquidity[side]
    OBVIOUS
  <2>1. validate_liquidity(args.liquidity[side]) = NoError
    BY <1>3 DEF Sides
  <2>2. args.liquidity[side] \in Nat /\ MIN_LIQUIDITY \in Nat
    BY <1>1, LimitsAssumption DEF CreateArgs, Word
  <2> QED BY <2>1, <2>2 DEF validate_liquidity, NoError, ERROR_INVALID_CALCULATION
<1>5. /\ m.total = args.liquidity /\ m.b = args.b /\ m.pool_balance = 0
      /\ m.total_fees_collected = 0 /\ ~m.resolved
    BY DEF new_with_liquidity
<1> HIDE DEF m
<1>6. /\ Len(markets) < MaxMarkets
      /\ markets' = Append(markets, m)
      /\ reply'.events = <<MarketEvent(Len(markets) + 1, m)>>
      /\ UNCHANGED <<players, positions, settlement>>
    BY DEF CreateMarket, Accept, m, args
<1> QED BY <1>2, <1>3, <1>4, <1>5, <1>6 DEF Opened

\* A claim that is not refused marks its position.
LEMMA ClaimLedger ==
    ASSUME TypeOK, NEW pid \in Pids, NEW nonce, NEW id,
           Claim(pid, nonce, id), claim_error(pid, id) = NoError
    PROVE  Claimed
<1>1. /\ id \in DOMAIN markets /\ markets[id].resolved
      /\ ~positions[SlotOf(pid)][id].claimed
    BY DEF claim_error, MarketExists, NoError, ERROR_MARKET_NOT_ACTIVE,
           ERROR_MARKET_NOT_RESOLVED, ERROR_ALREADY_CLAIMED
<1>2. pid \in DOMAIN players
    BY DEF Claim, check_nonce
<1> DEFINE payout == Payout(SlotOf(pid), id)
<1>3. /\ positions' = [positions EXCEPT ![SlotOf(pid)][id].claimed = TRUE]
      /\ \/ payout <= 0 /\ UNCHANGED players
         \/ /\ payout > 0
            /\ StorePlayer(pid, add_balance(players[pid].balance, payout))
            /\ reply'.e = NoError
      /\ UNCHANGED <<markets, settlement>>
    BY DEF Claim, Accept, Payout
<1>4. ClaimedBy(pid, id)
    BY <1>1, <1>3 DEF ClaimedBy
<1> QED BY <1>1, <1>2, <1>4 DEF Claimed

\* Every step has one of these effects.
LEMMA StepLedger ==
    ASSUME TypeOK, Priced, [Command]_vars
    PROVE  \/ Bought \/ Sold \/ Opened \/ Closed \/ Claimed \/ Collected
           \/ Withdrawn \/ Funded \/ Idle
<1>0. ASSUME NEW e, Reject(e) PROVE Idle
    BY <1>0 DEF Reject, Idle
<1>1. CASE Tick
    BY <1>1 DEF Tick, Idle
<1>2. ASSUME NEW pid \in Pids, InstallPlayer(pid) PROVE Funded \/ Idle
  <2>1. CASE Reject(ERROR_PLAYER_ALREADY_EXISTS)
    BY <1>0, <2>1
  <2>2. CASE ~Reject(ERROR_PLAYER_ALREADY_EXISTS)
    <3>1. pid \notin DOMAIN players /\ pid \in DOMAIN players'
      BY <1>2, <2>2 DEF InstallPlayer
    <3>2. UNCHANGED <<positions, markets, settlement>>
      BY <1>2, <2>2 DEF InstallPlayer
    <3> QED BY <3>1, <3>2 DEF Funded
  <2> QED BY <2>1, <2>2
<1>3. ASSUME NEW pid \in Pids, UnknownPlayer(pid) PROVE Idle
    BY <1>0, <1>3 DEF UnknownPlayer
<1>4. ASSUME NEW pid \in Pids, NEW nonce, NEW amount \in Word,
             Withdraw(pid, nonce, amount)
      PROVE  Withdrawn
  <2>1. pid \in DOMAIN players /\ players[pid].balance >= amount
    BY <1>4 DEF Withdraw, check_nonce, can_withdraw
  <2>2. players[pid].balance \in Nat /\ amount \in Nat
    BY <2>1, Reading, InputsAssumption, LimitsAssumption DEF Word
  <2>3. WithdrawnBy(pid, amount)
    BY <1>4, <2>1, <2>2 DEF Withdraw, WithdrawnBy
  <2> QED BY <2>1, <2>3 DEF Withdrawn
<1>5. ASSUME NEW pid \in Pids, NEW nonce, NEW amount \in DepositAmounts,
             Deposit(nonce, pid, amount)
      PROVE  Funded
  <2>1. UNCHANGED <<positions, markets, settlement>>
    BY <1>5 DEF Deposit, Reject
  <2>2. Admin \in DOMAIN players /\ nonce = players[Admin].nonce
    BY <1>5 DEF Deposit, check_nonce
  <2> QED BY <1>5, <2>1, <2>2 DEF Funded
<1>6. ASSUME NEW pid \in Pids, NEW nonce, NEW id,
             Claim(pid, nonce, id)
      PROVE  Claimed \/ Idle
    BY <1>0, <1>6, ClaimLedger DEF Claim
<1>7. ASSUME NEW pid \in Pids, NEW nonce, NEW id,
             NEW type \in 0 .. 2, NEW amount \in BetAmounts,
             Bet(pid, nonce, id, type, amount)
      PROVE  Bought \/ Idle
    BY <1>0, <1>7, BetLedger DEF Bet
<1>8. ASSUME NEW pid \in Pids, NEW nonce, NEW id,
             NEW type \in 0 .. 2, NEW shares \in SellAmounts,
             Sell(pid, nonce, id, type, shares)
      PROVE  Sold \/ Idle
    BY <1>0, <1>8, SellLedger DEF Sell
<1>9. ASSUME NEW nonce, NEW offer \in Offers, CreateMarket(nonce, offer)
      PROVE  Opened \/ Idle
    BY <1>0, <1>9, CreateLedger DEF CreateMarket
<1>10. ASSUME NEW nonce, NEW id, WithdrawFees(nonce, id)
       PROVE  Collected \/ Idle
  <2>1. CASE withdraw_fees_error(id) # NoError
    BY <1>0, <1>10, <2>1 DEF WithdrawFees
  <2>2. CASE withdraw_fees_error(id) = NoError
    <3>1. id \in DOMAIN markets /\ Admin \in DOMAIN players
      BY <1>10, <2>2 DEF withdraw_fees_error, MarketExists, NoError,
                  ERROR_MARKET_NOT_ACTIVE, WithdrawFees, check_nonce
    <3>2. CollectedFrom(id)
      BY <1>10, <2>2 DEF WithdrawFees, CollectedFrom
    <3> QED BY <3>1, <3>2 DEF Collected
  <2> QED BY <2>1, <2>2
<1>11. ASSUME NEW nonce, NEW id, NEW outcome \in 0 .. 1,
              Resolve(nonce, id, outcome)
       PROVE  Closed \/ Idle
  <2>1. CASE resolve_error(id) # NoError
    BY <1>0, <1>11, <2>1 DEF Resolve
  <2>2. CASE resolve_error(id) = NoError
    <3>1. id \in DOMAIN markets /\ ~markets[id].resolved
      BY <2>2 DEF resolve_error, MarketExists, NoError,
                  ERROR_MARKET_NOT_ACTIVE, ERROR_MARKET_ALREADY_RESOLVED
    <3>2. /\ markets' = [markets EXCEPT ![id] = resolve(markets[id], outcome)]
          /\ reply'.events = <<MarketEvent(id, resolve(markets[id], outcome))>>
          /\ UNCHANGED <<players, positions, settlement>>
      BY <1>11, <2>2 DEF Resolve, Accept
    <3> QED BY <3>1, <3>2 DEF Closed
  <2> QED BY <2>1, <2>2
<1>12. CASE UNCHANGED vars
    BY <1>12 DEF vars, Idle
<1> QED BY <1>1, <1>2, <1>3, <1>4, <1>5, <1>6, <1>7, <1>8, <1>9, <1>10, <1>11,
           <1>12 DEF Command

-----------------------------------------------------------------------------
(* The shares that players hold. *)

\* Slots are finitely many, so what they hold has a sum.
LEMMA SlotsFinite == IsFiniteSet(Slots)
<1>1. 0 \in Int /\ U32 * U32 - 1 \in Int
    BY PidsAssumption
<1> QED BY <1>1, FS_Interval DEF Slots

\* The shares held are a natural, and no position holds more than all together.
LEMMA HeldType ==
    ASSUME TypeOK, NEW id \in MarketIds, NEW side \in Sides
    PROVE  /\ HeldShares(id, side) \in Nat
           /\ \A slot \in Slots :
                /\ positions[slot][id].shares[side] \in Nat
                /\ positions[slot][id].shares[side] <= HeldShares(id, side)
<1> DEFINE f == [slot \in Slots |-> positions[slot][id].shares[side]]
<1>1. \A slot \in Slots : f[slot] \in Nat
  <2> TAKE slot \in Slots
  <2>1. positions[slot][id].shares \in [Sides -> Word]
    BY Reading
  <2> QED BY <2>1, LimitsAssumption DEF Word
<1>2. HeldShares(id, side) = SumOver(Slots, f)
    BY DEF HeldShares, Total
<1>3. \A slot \in Slots : f[slot] = positions[slot][id].shares[side]
    OBVIOUS
<1> HIDE DEF f
<1> QED BY <1>1, <1>2, <1>3, SlotsFinite, SumOfNaturals

Counted == \A id \in MarketIds, side \in Sides : HeldShares(id, side) \in Nat

LEMMA HeldNatural == TypeOK => Counted
BY HeldType DEF Counted

\* Where no position's shares change, neither does their sum.
LEMMA HeldSame ==
    ASSUME NEW id, NEW side,
           \A slot \in Slots : positions'[slot][id].shares[side]
                                 = positions[slot][id].shares[side]
    PROVE  HeldShares(id, side)' = HeldShares(id, side)
<1>1. [slot \in Slots |-> positions'[slot][id].shares[side]]
        = [slot \in Slots |-> positions[slot][id].shares[side]]
    OBVIOUS
<1> QED BY <1>1 DEF HeldShares

\* The shares of one side of one position become n.
Repositioned(slot, id, side, n) ==
    positions' = [positions EXCEPT ![slot][id].shares[side] = n]

\* That leaves all others.
LEMMA Restored ==
    ASSUME TypeOK, NEW slot \in Slots, NEW id \in MarketIds, NEW side \in Sides,
           NEW n, Repositioned(slot, id, side, n),
           NEW x \in Slots, NEW i \in MarketIds
    PROVE  /\ \A s \in Sides :
                positions'[x][i].shares[s] =
                    IF x = slot /\ i = id /\ s = side THEN n
                    ELSE positions[x][i].shares[s]
           /\ positions'[x][i].claimed = positions[x][i].claimed
<1> DEFINE p == [positions[slot][id] EXCEPT !.shares[side] = n]
<1>1. positions \in [Slots -> [MarketIds -> PlayerMarketPosition]]
    BY DEF TypeOK
<1>2. positions[slot][id] \in PlayerMarketPosition
    BY <1>1
<1>3. /\ p.shares = [positions[slot][id].shares EXCEPT ![side] = n]
      /\ p.claimed = positions[slot][id].claimed
    BY <1>2 DEF PlayerMarketPosition
<1>4. \A s \in Sides :
        p.shares[s] = IF s = side THEN n ELSE positions[slot][id].shares[s]
  <2>1. positions[slot][id].shares \in [Sides -> Word]
    BY <1>2 DEF PlayerMarketPosition
  <2> HIDE DEF p
  <2> QED BY <1>3, <2>1
<1> HIDE DEF p
<1>5. positions' = [positions EXCEPT ![slot][id] = p]
    BY DEF p, Repositioned
<1>6. positions'[x][i] = IF x = slot /\ i = id THEN p ELSE positions[x][i]
    BY <1>1, <1>5
<1> QED BY <1>3, <1>4, <1>6

\* A trade gives a position n shares more and mints as many (fewer and burns,
\* where n is negative).
Exchanged(slot, id, side, n) ==
    /\ ~markets[id].resolved
    /\ positions[slot][id].shares[side] + n \in Nat
    /\ Repositioned(slot, id, side, positions[slot][id].shares[side] + n)
    /\ \E m : Minted(id, side, n, m) /\ markets' = [markets EXCEPT ![id] = m]

\* The unchecked addition of a bet to a position does not wrap: the market's
\* total, which is checked, is larger.
LEMMA BoughtShares ==
    ASSUME TypeOK, SharesBacked,
           NEW pid \in DOMAIN players, NEW id \in DOMAIN markets,
           NEW type \in 0 .. 1, NEW amount, NEW n, NEW m,
           BoughtBy(pid, id, type, amount, n, m)
    PROVE  Exchanged(SlotOf(pid), id, SideOf(type), n)
<1> DEFINE slot == SlotOf(pid)
           side == SideOf(type)
           held == positions[slot][id].shares[side]
<1>1. pid \in Pids /\ id \in MarketIds /\ slot \in Slots /\ side \in Sides
    BY Reading, SlotType DEF SideOf, Sides
<1>2. n \in Nat /\ n >= 1
    BY LimitsAssumption DEF BoughtBy
<1>3. m.total[side] = markets[id].total[side] + n /\ m.total[side] \in Word
      /\ markets[id].total[side] \in Word
  <2>1. markets[id].total \in [Sides -> Word]
    BY Reading DEF MarketData
  <2>2. m.total \in [Sides -> Word]
        /\ m.total = [markets[id].total EXCEPT ![side] = @ + n]
    BY DEF BoughtBy, Minted, MarketData
  <2> QED BY <1>1, <2>1, <2>2
<1>4. held \in Nat /\ held <= HeldShares(id, side) /\ HeldShares(id, side) \in Nat
    BY <1>1, HeldType
<1>5. HeldShares(id, side) + MIN_LIQUIDITY <= markets[id].total[side]
    BY <1>1 DEF SharesBacked
<1>6. positions' = [positions EXCEPT ![slot][id].shares[side] = (held + n) % U64]
    BY DEF BoughtBy
<1>7. \E k : Minted(id, side, n, k) /\ markets' = [markets EXCEPT ![id] = k]
    BY DEF BoughtBy
<1> HIDE DEF held
<1>8. (held + n) % U64 = held + n /\ held + n \in Nat
    BY <1>2, <1>3, <1>4, <1>5, LimitsAssumption DEF Word
<1>9. Repositioned(slot, id, side, held + n)
    BY <1>6, <1>8 DEF Repositioned
<1> QED BY <1>7, <1>8, <1>9 DEF Exchanged, BoughtBy, held

LEMMA SoldShares ==
    ASSUME TypeOK,
           NEW pid \in DOMAIN players, NEW id \in DOMAIN markets,
           NEW type \in 0 .. 1, NEW payout, NEW n, NEW m,
           SoldBy(pid, id, type, payout, n, m)
    PROVE  Exchanged(SlotOf(pid), id, SideOf(type), -n)
<1> DEFINE slot == SlotOf(pid)
           side == SideOf(type)
           held == positions[slot][id].shares[side]
<1>1. pid \in Pids /\ id \in MarketIds /\ slot \in Slots /\ side \in Sides
    BY Reading, SlotType DEF SideOf, Sides
<1>2. held \in Nat
    BY <1>1, HeldType
<1>3. n \in 1 .. held
    BY DEF SoldBy
<1>4. positions' = [positions EXCEPT ![slot][id].shares[side] = held - n]
    BY DEF SoldBy
<1>5. \E k : Minted(id, side, -n, k) /\ markets' = [markets EXCEPT ![id] = k]
    BY DEF SoldBy
<1> HIDE DEF held
<1>6. held - n = held + (-n) /\ held + (-n) \in Nat
    BY <1>2, <1>3
<1>7. Repositioned(slot, id, side, held + (-n))
    BY <1>4, <1>6 DEF Repositioned
<1> QED BY <1>5, <1>6, <1>7 DEF Exchanged, SoldBy, held

\* What an exchange does to the totals and to the shares held of any side of
\* any market.
LEMMA ExchangedShares ==
    ASSUME TypeOK, NEW slot \in Slots, NEW id \in DOMAIN markets,
           NEW side \in Sides, NEW n \in Int, Exchanged(slot, id, side, n)
    PROVE  /\ DOMAIN markets' = DOMAIN markets
           /\ \A i \in DOMAIN markets, s \in Sides :
                /\ markets'[i].b = markets[i].b
                /\ markets'[i].total[s] =
                    IF i = id /\ s = side THEN markets[i].total[s] + n
                    ELSE markets[i].total[s]
           /\ \A i \in MarketIds, s \in Sides :
                HeldShares(i, s)' =
                    IF i = id /\ s = side THEN HeldShares(i, s) + n
                    ELSE HeldShares(i, s)
<1>1. PICK m : Minted(id, side, n, m) /\ markets' = [markets EXCEPT ![id] = m]
    BY DEF Exchanged
<1>2. markets \in Seq(MarketData) /\ id \in MarketIds
      /\ markets[id].total \in [Sides -> Word]
    BY Reading DEF TypeOK, MarketData
<1>3. DOMAIN markets' = DOMAIN markets
      /\ \A i \in DOMAIN markets : markets'[i] = IF i = id THEN m ELSE markets[i]
    BY <1>1, <1>2
<1>4. ASSUME NEW i \in DOMAIN markets, NEW s \in Sides
      PROVE  /\ markets'[i].b = markets[i].b
             /\ markets'[i].total[s] =
                    IF i = id /\ s = side THEN markets[i].total[s] + n
                    ELSE markets[i].total[s]
  <2>1. CASE i # id
    BY <1>3, <2>1
  <2>2. CASE i = id
    <3>1. m.b = markets[id].b
          /\ m.total = [markets[id].total EXCEPT ![side] = @ + n]
      BY <1>1 DEF Minted
    <3> QED BY <1>2, <1>3, <2>2, <3>1
  <2> QED BY <2>1, <2>2
<1>5. ASSUME NEW i \in MarketIds, NEW s \in Sides
      PROVE  HeldShares(i, s)' =
                    IF i = id /\ s = side THEN HeldShares(i, s) + n
                    ELSE HeldShares(i, s)
  <2> DEFINE before == [x \in Slots |-> positions[x][i].shares[s]]
             after == [x \in Slots |-> positions'[x][i].shares[s]]
             new == positions[slot][id].shares[side] + n
  <2>1. new \in Nat /\ Repositioned(slot, id, side, new)
    BY DEF Exchanged
  <2> HIDE DEF new
  <2>2. \A x \in Slots :
            positions'[x][i].shares[s] =
                IF x = slot /\ i = id /\ s = side THEN new
                ELSE positions[x][i].shares[s]
    BY <1>2, <2>1, Restored
  <2>3. CASE ~(i = id /\ s = side)
    BY <2>2, <2>3, HeldSame
  <2>4. CASE i = id /\ s = side
    <3>1. \A x \in Slots : before[x] \in Nat
      BY HeldType
    <3>2. /\ \A x \in Slots : before[x] \in Int /\ after[x] \in Int
          /\ \A x \in Slots \ {slot} : after[x] = before[x]
          /\ after[slot] = new /\ before[slot] = positions[slot][id].shares[side]
      BY <2>1, <2>2, <2>4, <3>1
    <3>3. HeldShares(i, s) = SumOver(Slots, before)
          /\ HeldShares(i, s)' = SumOver(Slots, after)
      BY DEF HeldShares, Total
    <3> HIDE DEF before, after
    <3>4. SumOver(Slots, after) = SumOver(Slots, before) + (after[slot] - before[slot])
      <4>1. /\ \A y \in Slots : before[y] \in Int /\ after[y] \in Int
            /\ \A y \in Slots \ {slot} : after[y] = before[y]
        BY <3>2
      <4> QED BY <4>1, SlotsFinite, SumChanged
    <3>5. SumOver(Slots, before) \in Int /\ before[slot] \in Int
      BY <3>2, SlotsFinite, SumType
    <3> QED BY <2>4, <3>2, <3>3, <3>4, <3>5 DEF new
  <2> QED BY <2>3, <2>4
<1> QED BY <1>3, <1>4, <1>5

-----------------------------------------------------------------------------
(* Markets stay backed.  SharesBacked alone is not inductive: a bet needs    *)
(* the positive depth of its market, for the number of its shares to be a    *)
(* number, and a creation needs that nobody holds shares of a market that    *)
(* does not exist.                                                           *)

Untouched ==
    \A slot \in Slots, id \in MarketIds \ DOMAIN markets, side \in Sides :
        positions[slot][id].shares[side] = 0

Backed == Priced /\ Untouched /\ SharesBacked

\* Every step that changes shares is an exchange.
LEMMA SharesStep ==
    ASSUME TypeOK, Backed, [Command]_vars
    PROVE  \/ \E slot \in Slots, id \in DOMAIN markets, side \in Sides, n \in Int :
                Exchanged(slot, id, side, n)
           \/ /\ \A slot \in Slots, id \in MarketIds :
                    positions'[slot][id].shares = positions[slot][id].shares
              /\ \/ Opened
                 \/ /\ DOMAIN markets' = DOMAIN markets
                    /\ \A id \in DOMAIN markets :
                        /\ markets'[id].b = markets[id].b
                        /\ markets'[id].total = markets[id].total
<1> DEFINE Exchange ==
            \E slot \in Slots, id \in DOMAIN markets, side \in Sides, n \in Int :
                Exchanged(slot, id, side, n)
           SameShares ==
            \A slot \in Slots, id \in MarketIds :
                positions'[slot][id].shares = positions[slot][id].shares
           SameTotals ==
            /\ DOMAIN markets' = DOMAIN markets
            /\ \A id \in DOMAIN markets : /\ markets'[id].b = markets[id].b
                                          /\ markets'[id].total = markets[id].total
<1>1. /\ markets \in Seq(MarketData)
      /\ \A id \in DOMAIN markets : markets[id] \in MarketData
      /\ \A pid \in DOMAIN players : pid \in Pids /\ SlotOf(pid) \in Slots
      /\ \A type : SideOf(type) \in Sides
    BY Reading, SlotType DEF TypeOK, SideOf, Sides
<1>2. CASE Bought
  <2>1. PICK pid \in DOMAIN players, id \in DOMAIN markets, type \in 0 .. 1 :
            \E amount, n, m : BoughtBy(pid, id, type, amount, n, m)
    BY <1>2 DEF Bought
  <2>2. PICK amount, n, m : BoughtBy(pid, id, type, amount, n, m)
    BY <2>1
  <2>3. Exchanged(SlotOf(pid), id, SideOf(type), n)
    BY <2>2, BoughtShares DEF Backed
  <2>4. n \in Int
    BY <2>2, LimitsAssumption DEF BoughtBy
  <2> QED BY <1>1, <2>3, <2>4
<1>3. CASE Sold
  <2>1. PICK pid \in DOMAIN players, id \in DOMAIN markets, type \in 0 .. 1 :
            \E payout, n, m : SoldBy(pid, id, type, payout, n, m)
    BY <1>3 DEF Sold
  <2>2. PICK payout, n, m : SoldBy(pid, id, type, payout, n, m)
    BY <2>1
  <2>3. Exchanged(SlotOf(pid), id, SideOf(type), -n)
    BY <2>2, SoldShares
  <2>4. -n \in Int
    <3>1. positions[SlotOf(pid)][id].shares[SideOf(type)] \in Nat
      BY <1>1, Reading, HeldType
    <3> QED BY <2>2, <3>1 DEF SoldBy
  <2> QED BY <1>1, <2>3, <2>4
<1>4. CASE Opened
    BY <1>4 DEF Opened
<1>5. CASE Closed
  <2>1. PICK id \in DOMAIN markets, outcome \in 0 .. 1 :
            markets' = [markets EXCEPT ![id] = resolve(markets[id], outcome)]
    BY <1>5 DEF Closed
  <2>2. /\ resolve(markets[id], outcome).b = markets[id].b
        /\ resolve(markets[id], outcome).total = markets[id].total
    BY <1>1 DEF resolve, MarketData
  <2>3. SameTotals
    BY <1>1, <2>1, <2>2
  <2> QED BY <1>5, <2>3 DEF Closed
<1>6. CASE Claimed
  <2>1. PICK pid \in DOMAIN players, id \in DOMAIN markets :
            positions' = [positions EXCEPT ![SlotOf(pid)][id].claimed = TRUE]
    BY <1>6 DEF Claimed, ClaimedBy
  <2>2. pid \in Pids /\ id \in MarketIds
    BY Reading
  <2>3. SameShares
    BY <2>1, <2>2, MarkedPositions
  <2> QED BY <1>6, <2>3 DEF Claimed, ClaimedBy
<1>7. CASE Collected
  <2>1. PICK id \in DOMAIN markets :
            markets' = [markets EXCEPT ![id].total_fees_collected = 0]
    BY <1>7 DEF Collected, CollectedFrom
  <2> DEFINE m == [markets[id] EXCEPT !.total_fees_collected = 0]
  <2>2. m.b = markets[id].b /\ m.total = markets[id].total
    BY <1>1 DEF MarketData
  <2> HIDE DEF m
  <2>3. markets' = [markets EXCEPT ![id] = m]
    BY <2>1 DEF m
  <2>4. SameTotals
    BY <1>1, <2>2, <2>3
  <2> QED BY <1>7, <2>4 DEF Collected, CollectedFrom
<1>8. CASE Withdrawn
    BY <1>8 DEF Withdrawn, WithdrawnBy
<1> QED BY <1>2, <1>3, <1>4, <1>5, <1>6, <1>7, <1>8, StepLedger
           DEF Backed, Funded, Idle

\* Markets are appended, and an appended one has the next id.
LEMMA OpenedMarkets ==
    ASSUME TypeOK, Opened
    PROVE  /\ Len(markets) + 1 \in MarketIds \ DOMAIN markets
           /\ DOMAIN markets' = DOMAIN markets \cup {Len(markets) + 1}
           /\ \A id \in DOMAIN markets : markets'[id] = markets[id]
           /\ LET m == markets'[Len(markets) + 1]
              IN  /\ m \in MarketData
                  /\ \A side \in Sides : MIN_LIQUIDITY <= m.total[side]
                  /\ m.b # 0 /\ ~m.resolved
                  /\ m.pool_balance = 0 /\ m.total_fees_collected = 0
<1>1. PICK m \in MarketData :
        /\ \A side \in Sides : MIN_LIQUIDITY <= m.total[side]
        /\ m.b # 0 /\ ~m.resolved
        /\ m.pool_balance = 0 /\ m.total_fees_collected = 0
        /\ Len(markets) < MaxMarkets
        /\ markets' = Append(markets, m)
    BY DEF Opened
<1>2. /\ markets \in Seq(MarketData) /\ Len(markets) \in Nat
      /\ DOMAIN markets = 1 .. Len(markets)
    BY DEF TypeOK
<1>3. /\ markets' \in Seq(MarketData) /\ Len(markets') = Len(markets) + 1
      /\ DOMAIN markets' = 1 .. Len(markets')
      /\ markets'[Len(markets) + 1] = m
      /\ \A id \in 1 .. Len(markets) : markets'[id] = markets[id]
    BY <1>1, <1>2, AppendProperties
<1>4. Len(markets) + 1 \in MarketIds
    BY <1>1, <1>2, BoundsAssumption DEF MarketIds
<1> QED BY <1>1, <1>2, <1>3, <1>4

\* A step keeps a market's virtual liquidity, and its depth.
LEMMA VirtualStep ==
    ASSUME TypeOK, Backed, [Command]_vars,
           NEW id \in DOMAIN markets, NEW side \in Sides
    PROVE  /\ id \in DOMAIN markets'
           /\ markets'[id].b = markets[id].b
           /\ markets'[id].total[side] - HeldShares(id, side)'
                = markets[id].total[side] - HeldShares(id, side)
<1>1. /\ id \in MarketIds /\ HeldShares(id, side) \in Nat
      /\ markets[id].total[side] \in Nat
  <2>1. id \in MarketIds /\ markets[id].total \in [Sides -> Word]
    BY Reading DEF MarketData
  <2> QED BY <2>1, HeldType, LimitsAssumption DEF Word
<1>2. ASSUME NEW slot \in Slots, NEW i \in DOMAIN markets, NEW s \in Sides,
             NEW n \in Int, Exchanged(slot, i, s, n)
      PROVE  /\ id \in DOMAIN markets' /\ markets'[id].b = markets[id].b
             /\ markets'[id].total[side] - HeldShares(id, side)'
                    = markets[id].total[side] - HeldShares(id, side)
  <2>1. /\ DOMAIN markets' = DOMAIN markets
        /\ markets'[id].b = markets[id].b
        /\ markets'[id].total[side] =
                IF id = i /\ side = s THEN markets[id].total[side] + n
                ELSE markets[id].total[side]
        /\ HeldShares(id, side)' =
                IF id = i /\ side = s THEN HeldShares(id, side) + n
                ELSE HeldShares(id, side)
    BY <1>1, <1>2, ExchangedShares
  <2> QED BY <1>1, <2>1
<1>3. ASSUME \A slot \in Slots, i \in MarketIds :
                positions'[slot][i].shares = positions[slot][i].shares
      PROVE  HeldShares(id, side)' = HeldShares(id, side)
    BY <1>1, <1>3, HeldSame
<1>4. CASE Opened
    BY <1>3, <1>4, OpenedMarkets DEF Opened
<1> QED BY <1>2, <1>3, <1>4, SharesStep

\* A step keeps every market backed.
LEMMA BackedStep == TypeOK /\ TypeOK' /\ Backed /\ [Command]_vars => Backed'
<1> SUFFICES ASSUME TypeOK, TypeOK', Backed, [Command]_vars PROVE Backed'
    OBVIOUS
<1>1. \A id \in DOMAIN markets : id \in MarketIds /\ DOMAIN markets \subseteq DOMAIN markets'
    BY Reading, VirtualStep DEF Sides
<1>2. \A id \in DOMAIN markets' \ DOMAIN markets :
        Opened /\ id = Len(markets) + 1 /\ id \in MarketIds
    BY SharesStep, ExchangedShares, OpenedMarkets
<1>3. Priced'
  <2> SUFFICES ASSUME NEW id \in DOMAIN markets' PROVE markets'[id].b # 0
    BY DEF Priced
  <2>1. CASE id \in DOMAIN markets
    BY <2>1, VirtualStep DEF Backed, Priced, Sides
  <2>2. CASE id \notin DOMAIN markets
    BY <1>2, <2>2, OpenedMarkets
  <2> QED BY <2>1, <2>2
<1>4. Untouched'
  <2> SUFFICES ASSUME NEW x \in Slots, NEW i \in MarketIds, i \notin DOMAIN markets',
                      NEW s \in Sides
               PROVE  positions'[x][i].shares[s] = 0
    BY DEF Untouched
  <2>1. i \notin DOMAIN markets /\ positions[x][i].shares[s] = 0
    BY <1>1 DEF Backed, Untouched
  <2>2. ASSUME NEW slot \in Slots, NEW id \in DOMAIN markets, NEW side \in Sides,
               NEW n \in Int, Exchanged(slot, id, side, n)
        PROVE  positions'[x][i].shares[s] = positions[x][i].shares[s]
    <3> DEFINE new == positions[slot][id].shares[side] + n
    <3>1. id \in MarketIds /\ i # id /\ Repositioned(slot, id, side, new)
      BY <2>1, <2>2, Reading DEF Exchanged
    <3> HIDE DEF new
    <3> QED BY <3>1, Restored
  <2> QED BY <2>1, <2>2, SharesStep
<1>5. SharesBacked'
  <2> SUFFICES ASSUME NEW id \in DOMAIN markets', NEW side \in Sides
               PROVE  HeldShares(id, side)' + MIN_LIQUIDITY <= markets'[id].total[side]
    BY DEF SharesBacked
  <2>1. CASE id \in DOMAIN markets
    <3>1. markets'[id].total[side] - HeldShares(id, side)'
            = markets[id].total[side] - HeldShares(id, side)
      BY <2>1, VirtualStep
    <3>2. HeldShares(id, side) + MIN_LIQUIDITY <= markets[id].total[side]
      BY <2>1 DEF Backed, SharesBacked
    <3>3. /\ id \in MarketIds /\ HeldShares(id, side) \in Nat
          /\ markets[id].total[side] \in Nat
      <4>1. id \in MarketIds /\ markets[id].total \in [Sides -> Word]
        BY <2>1, Reading DEF MarketData
      <4> QED BY <4>1, HeldType, LimitsAssumption DEF Word
    <3>4. HeldShares(id, side)' \in Nat
      <4>1. Counted'
        BY HeldNatural, PTL
      <4> QED BY <3>3, <4>1 DEF Counted
    <3>5. markets'[id].total[side] \in Nat
      <4>1. markets'[id] \in MarketData
        BY ElementOfSeq DEF TypeOK
      <4>2. markets'[id].total \in [Sides -> Word]
        BY <4>1 DEF MarketData
      <4> QED BY <4>2, LimitsAssumption DEF Word
    <3> QED BY <3>1, <3>2, <3>3, <3>4, <3>5, LimitsAssumption
  <2>2. CASE id \notin DOMAIN markets
    <3>1. Opened /\ id = Len(markets) + 1 /\ id \in MarketIds
      BY <1>2, <2>2
    <3> DEFINE none == [x \in Slots |-> positions'[x][id].shares[side]]
    <3>2. \A x \in Slots : none[x] = 0
      BY <2>2, <3>1 DEF Backed, Untouched, Opened
    <3>3. HeldShares(id, side)' = SumOver(Slots, none)
      BY DEF HeldShares, Total
    <3> HIDE DEF none
    <3>4. HeldShares(id, side)' = 0
      BY <3>2, <3>3, SlotsFinite, SumOfZeros
    <3>5. MIN_LIQUIDITY <= markets'[id].total[side]
      BY <3>1, OpenedMarkets
    <3> QED BY <3>4, <3>5, LimitsAssumption
  <2> QED BY <2>1, <2>2
<1> QED BY <1>3, <1>4, <1>5 DEF Backed

\* It holds at first, and so in every reachable state.
LEMMA InitBacked == Init => Backed
<1> SUFFICES ASSUME Init PROVE Backed
    OBVIOUS
<1>1. DOMAIN markets = {}
    BY DEF Init
<1>2. Untouched
    BY DEF Init, Untouched, NoPosition
<1> QED BY <1>1, <1>2 DEF Backed, Priced, SharesBacked

LEMMA AlwaysBacked == Spec => []Backed
BY InitBacked, BackedStep, TypeCorrect, NextIsCommand, PTL DEF Spec

\* In every reachable state a market's totals cover all the shares players
\* hold and the least virtual liquidity besides, so no unchecked addition to a
\* position wraps and no winning total is zero.
THEOREM MarketsBacked == Spec => []SharesBacked
<1>1. Backed => SharesBacked
    BY DEF Backed
<1> QED BY <1>1, AlwaysBacked, PTL

\* No command changes the virtual liquidity of a market: what a bet mints and
\* a sale burns is exactly what the position gains and loses.
THEOREM VirtualIsFixed == Spec => VirtualLiquidityFixed
<1>1. TypeOK /\ Backed /\ [Command]_vars =>
        [\A id \in DOMAIN markets, side \in Sides :
            markets'[id].total[side] - HeldShares(id, side)'
                = markets[id].total[side] - HeldShares(id, side)]_vars
    BY VirtualStep
<1> QED BY <1>1, TypeCorrect, AlwaysBacked, NextIsCommand, PTL DEF Spec, VirtualLiquidityFixed

-----------------------------------------------------------------------------
(* Winners can be paid. *)

\* What a position of a backed market is worth: nothing or a fraction of the
\* pool that is no more than its share of the winning total.
LEMMA PayoutBacked ==
    ASSUME TypeOK, SharesBacked, NEW id \in DOMAIN markets, NEW slot \in Slots
    PROVE  LET m == markets[id]
           IN  /\ m.pool_balance \in Nat /\ m.total_fees_collected \in Nat
               /\ Payout(slot, id) \in 0 .. m.pool_balance
               /\ ~m.resolved \/ m.outcome \notin Sides => Payout(slot, id) = 0
               /\ m.outcome \in Sides =>
                    m.total[m.outcome] * Payout(slot, id)
                        <= m.pool_balance * positions[slot][id].shares[m.outcome]
<1> DEFINE m == markets[id]
           shares == positions[slot][id].shares
<1>1. id \in MarketIds /\ m \in MarketData /\ shares \in [Sides -> Word]
    BY Reading
<1>2. m.pool_balance \in Nat /\ m.total_fees_collected \in Nat
    BY <1>1, LimitsAssumption DEF MarketData, Word
<1>3. ASSUME m.outcome \in Sides
      PROVE  m.total[m.outcome] > 0 /\ shares[m.outcome] <= m.total[m.outcome]
  <2>1. /\ shares[m.outcome] \in Nat
        /\ shares[m.outcome] <= HeldShares(id, m.outcome)
        /\ HeldShares(id, m.outcome) \in Nat
    BY <1>1, <1>3, HeldType
  <2>2. HeldShares(id, m.outcome) + MIN_LIQUIDITY <= m.total[m.outcome]
    BY <1>3 DEF SharesBacked
  <2>3. m.total[m.outcome] \in Nat
    BY <1>1, <1>3, LimitsAssumption DEF MarketData, Word
  <2> QED BY <2>1, <2>2, <2>3, LimitsAssumption
<1> HIDE DEF shares, m
<1>4. /\ calculate_payout(m, shares) \in 0 .. m.pool_balance
      /\ ~m.resolved \/ m.outcome \notin Sides => calculate_payout(m, shares) = 0
      /\ m.outcome \in Sides =>
            m.total[m.outcome] * calculate_payout(m, shares)
                <= m.pool_balance * shares[m.outcome]
    BY <1>1, <1>3, PayoutBound
<1>5. Payout(slot, id) = calculate_payout(m, shares)
    BY DEF Payout, m, shares
<1> QED BY <1>2, <1>4, <1>5 DEF m, shares

\* All the payouts of a market together are at most its pool.
LEMMA PayoutsCovered ==
    ASSUME TypeOK, SharesBacked, NEW id \in DOMAIN markets
    PROVE  /\ Total([slot \in Slots |-> Payout(slot, id)]) \in Nat
           /\ Total([slot \in Slots |-> Payout(slot, id)])
                <= markets[id].pool_balance
<1> DEFINE pay == [slot \in Slots |-> Payout(slot, id)]
           sum == SumOver(Slots, pay)
           m   == markets[id]
           P   == m.pool_balance
<1>1. /\ P \in Nat
      /\ \A slot \in Slots : pay[slot] \in Nat
  <2>1. \A slot \in Slots :
            Payout(slot, id) \in 0 .. m.pool_balance /\ m.pool_balance \in Nat
    BY PayoutBacked
  <2>2. m.pool_balance \in Nat
    <3>1. markets[id] \in MarketData
      BY Reading
    <3> QED BY <3>1, LimitsAssumption DEF MarketData, Word
  <2> QED BY <2>1, <2>2
<1>2. Total(pay) = sum
    BY DEF Total
<1>3. sum \in Nat
    BY <1>1, SlotsFinite, SumOfNaturals
<1>4. CASE m.outcome \notin Sides
  <2>1. \A slot \in Slots : pay[slot] = 0
    BY <1>4, PayoutBacked
  <2>2. sum = 0
    BY <2>1, SlotsFinite, SumOfZeros
  <2> QED BY <1>1, <1>2, <2>2
<1>5. CASE m.outcome \in Sides
  <2> DEFINE T    == m.total[m.outcome]
             held == [slot \in Slots |-> positions[slot][id].shares[m.outcome]]
             all  == HeldShares(id, m.outcome)
  <2>1. /\ T \in Nat /\ all \in Nat /\ all < T /\ T > 0
        /\ \A slot \in Slots : held[slot] \in Nat
    <3>1. id \in MarketIds /\ m \in MarketData
      BY Reading
    <3>2. T \in Nat
      BY <1>5, <3>1, LimitsAssumption DEF MarketData, Word
    <3>3. all + MIN_LIQUIDITY <= T
      BY <1>5 DEF SharesBacked
    <3>4. all \in Nat /\ \A slot \in Slots : held[slot] \in Nat
      BY <1>5, <3>1, HeldType
    <3> HIDE DEF T, all
    <3> QED BY <3>2, <3>3, <3>4, LimitsAssumption
  <2>2. \A slot \in Slots : T * pay[slot] <= P * held[slot]
    BY <1>5, PayoutBacked
  <2>3. all = SumOver(Slots, held)
    BY DEF HeldShares, Total
  <2> HIDE DEF T, all, held, pay, P, m
  <2>4. T * SumOver(Slots, pay) <= P * SumOver(Slots, held)
    BY <1>1, <2>1, <2>2, SlotsFinite, SumBounded
  <2>5. T * sum <= P * all
    BY <2>3, <2>4
  <2> HIDE DEF sum
  <2>6. sum <= P
    <3> SUFFICES ASSUME P + 1 <= sum PROVE FALSE
      BY <1>1, <1>3
    <3>1. P * all <= P * T /\ P * T \in Nat /\ P * all \in Nat
      BY <1>1, <2>1
    <3>2. T * (P + 1) <= T * sum /\ T * sum \in Nat
      BY <1>1, <1>3, <2>1
    <3>3. T * (P + 1) = P * T + T
      BY <1>1, <2>1
    <3> QED BY <2>1, <2>5, <3>1, <3>2, <3>3
  <2> QED BY <1>2, <1>3, <2>6 DEF P, m, pay
<1> QED BY <1>2, <1>3, <1>4, <1>5

\* In every reachable state the pool of a market pays all its winning positions,
\* claimed or not: the winning total counts every share held, each payout is
\* rounded down, and no claim lowers the pool.
THEOREM WinnersAreCovered == Spec => []WinnersCovered
<1>1. TypeOK /\ SharesBacked => WinnersCovered
    BY PayoutsCovered DEF WinnersCovered
<1> QED BY <1>1, TypeCorrect, MarketsBacked, PTL

\* A step marks a position as claimed only where ClaimedBy does.
LEMMA MarkStep ==
    ASSUME TypeOK, Backed, [Command]_vars, NEW slot \in Slots, NEW i \in MarketIds,
           positions[slot][i].claimed # positions'[slot][i].claimed
    PROVE  \E pid \in DOMAIN players :
                slot = SlotOf(pid) /\ i \in DOMAIN markets /\ ClaimedBy(pid, i)
<1>1. CASE Claimed
  <2>1. PICK pid \in DOMAIN players, id \in DOMAIN markets : ClaimedBy(pid, id)
    BY <1>1 DEF Claimed
  <2>2. positions' = [positions EXCEPT ![SlotOf(pid)][id].claimed = TRUE]
    BY <2>1 DEF ClaimedBy
  <2>3. slot = SlotOf(pid) /\ i = id
    <3>1. pid \in Pids /\ id \in MarketIds
      BY Reading
    <3>2. slot # SlotOf(pid) \/ i # id => positions'[slot][i] = positions[slot][i]
      BY <2>2, <3>1, MarkedPositions
    <3> QED BY <3>2
  <2> QED BY <2>1, <2>3
<1>2. ASSUME NEW pid \in DOMAIN players, NEW id \in DOMAIN markets,
             NEW type, NEW n, Repositioned(SlotOf(pid), id, SideOf(type), n)
      PROVE  FALSE
  <2>1. SlotOf(pid) \in Slots /\ id \in MarketIds /\ SideOf(type) \in Sides
    BY Reading, SlotType DEF SideOf, Sides
  <2> QED BY <1>2, <2>1, Restored
<1>3. CASE Bought
  <2>1. PICK pid \in DOMAIN players, id \in DOMAIN markets, type \in 0 .. 1 :
            \E amount, n, m : BoughtBy(pid, id, type, amount, n, m)
    BY <1>3 DEF Bought
  <2>2. PICK amount, n, m : BoughtBy(pid, id, type, amount, n, m)
    BY <2>1
  <2> QED BY <1>2, <2>2 DEF BoughtBy, Repositioned
<1>4. CASE Sold
  <2>1. PICK pid \in DOMAIN players, id \in DOMAIN markets, type \in 0 .. 1 :
            \E payout, n, m : SoldBy(pid, id, type, payout, n, m)
    BY <1>4 DEF Sold
  <2>2. PICK payout, n, m : SoldBy(pid, id, type, payout, n, m)
    BY <2>1
  <2> QED BY <1>2, <2>2 DEF SoldBy, Repositioned
<1> QED BY <1>1, <1>3, <1>4, StepLedger
           DEF Backed, Opened, Closed, Collected, CollectedFrom, Withdrawn,
               WithdrawnBy, Funded, Idle

\* A claim that fails after storing its flag loses nothing: a payout is never
\* an error, so the position was worth nothing (handle_claim stores the flag
\* before calculate_payout can fail).
THEOREM FailedClaimsLoseNothing == Spec => FailedClaimLosesNothing
<1>1. TypeOK /\ Backed /\ [Command]_vars =>
        [\A slot \in Slots, id \in DOMAIN markets :
            /\ positions[slot][id].claimed # positions'[slot][id].claimed
            /\ reply'.e # NoError
            => Payout(slot, id) = 0]_vars
  <2> SUFFICES ASSUME TypeOK, Backed, [Command]_vars, NEW slot \in Slots,
                      NEW id \in DOMAIN markets,
                      positions[slot][id].claimed # positions'[slot][id].claimed,
                      reply'.e # NoError
               PROVE  Payout(slot, id) = 0
    OBVIOUS
  <2>1. PICK pid \in DOMAIN players : slot = SlotOf(pid) /\ ClaimedBy(pid, id)
    BY Reading, MarkStep
  <2>2. Payout(slot, id) <= 0
    BY <2>1 DEF ClaimedBy
  <2>3. Payout(slot, id) \in Nat
    BY PayoutBacked DEF Backed
  <2> QED BY <2>2, <2>3
<1> QED BY <1>1, TypeCorrect, AlwaysBacked, NextIsCommand, PTL DEF Spec, FailedClaimLosesNothing

-----------------------------------------------------------------------------
(* Events. *)

\* An event announces the change of one side of a slot's position.
Announces(event, slot, id, side, change) ==
    /\ event.kind = "bet"
    /\ SlotOf(event.pid) = slot
    /\ event.id = id
    /\ SideOf(event.type % 10) = side
    /\ EventShares(event) = change

\* A market changes only together with an event that carries its new record,
\* or by losing its fees.
LEMMA MarketAnnounced ==
    ASSUME TypeOK, Backed, [Command]_vars, NEW i \in DOMAIN markets'
    PROVE  \/ /\ i \in DOMAIN markets
              /\ \/ markets'[i] = markets[i]
                 \/ markets'[i] = [markets[i] EXCEPT !.total_fees_collected = 0]
           \/ \E e \in DOMAIN reply'.events :
                reply'.events[e] = MarketEvent(i, markets'[i])
<1>1. markets \in Seq(MarketData)
    BY DEF TypeOK
<1>2. ASSUME NEW id \in DOMAIN markets, NEW m,
             markets' = [markets EXCEPT ![id] = m]
      PROVE  /\ i \in DOMAIN markets
             /\ markets'[i] = IF i = id THEN m ELSE markets[i]
    BY <1>1, <1>2
<1>3. CASE Bought
  <2>1. PICK pid \in DOMAIN players, id \in DOMAIN markets, type \in 0 .. 1 :
            \E amount, n, m : BoughtBy(pid, id, type, amount, n, m)
    BY <1>3 DEF Bought
  <2>2. PICK amount, n, m : BoughtBy(pid, id, type, amount, n, m)
    BY <2>1
  <2>3. /\ reply'.events = <<BetEvent(pid, id, type, amount, n), MarketEvent(id, m)>>
        /\ markets' = [markets EXCEPT ![id] = m]
    BY <2>2 DEF BoughtBy
  <2>4. 2 \in DOMAIN reply'.events /\ reply'.events[2] = MarketEvent(id, m)
    BY <2>3
  <2> QED BY <1>2, <2>3, <2>4
<1>4. CASE Sold
  <2>1. PICK pid \in DOMAIN players, id \in DOMAIN markets, type \in 0 .. 1 :
            \E payout, n, m : SoldBy(pid, id, type, payout, n, m)
    BY <1>4 DEF Sold
  <2>2. PICK payout, n, m : SoldBy(pid, id, type, payout, n, m)
    BY <2>1
  <2>3. /\ reply'.events = <<SellEvent(pid, id, type, n, payout), MarketEvent(id, m)>>
        /\ markets' = [markets EXCEPT ![id] = m]
    BY <2>2 DEF SoldBy
  <2>4. 2 \in DOMAIN reply'.events /\ reply'.events[2] = MarketEvent(id, m)
    BY <2>3
  <2> QED BY <1>2, <2>3, <2>4
<1>5. CASE Opened
  <2>1. PICK m : /\ markets' = Append(markets, m)
                 /\ reply'.events = <<MarketEvent(Len(markets) + 1, m)>>
    BY <1>5 DEF Opened
  <2>2. 1 \in DOMAIN reply'.events /\ reply'.events[1] = MarketEvent(Len(markets) + 1, m)
    BY <2>1
  <2>3. markets'[Len(markets) + 1] = m
    BY <1>1, <2>1, AppendProperties
  <2>4. /\ DOMAIN markets' = DOMAIN markets \cup {Len(markets) + 1}
        /\ \A id \in DOMAIN markets : markets'[id] = markets[id]
    BY <1>5, OpenedMarkets
  <2> QED BY <2>2, <2>3, <2>4
<1>6. CASE Closed
  <2>1. PICK id \in DOMAIN markets, outcome \in 0 .. 1 :
            LET m == resolve(markets[id], outcome)
            IN  /\ markets' = [markets EXCEPT ![id] = m]
                /\ reply'.events = <<MarketEvent(id, m)>>
    BY <1>6 DEF Closed
  <2>2. 1 \in DOMAIN reply'.events
        /\ reply'.events[1] = MarketEvent(id, resolve(markets[id], outcome))
    BY <2>1
  <2> QED BY <1>2, <2>1, <2>2
<1>7. CASE Collected
  <2>1. PICK id \in DOMAIN markets :
            markets' = [markets EXCEPT ![id].total_fees_collected = 0]
    BY <1>7 DEF Collected, CollectedFrom
  <2> QED BY <1>2, <2>1
<1>8. CASE UNCHANGED markets
    BY <1>8
<1> QED BY <1>3, <1>4, <1>5, <1>6, <1>7, <1>8, StepLedger
           DEF Backed, Claimed, ClaimedBy, Withdrawn, WithdrawnBy, Funded, Idle

\* The shares of a slot change only together with an event that carries the
\* exact change.
LEMMA SharesAnnounced ==
    ASSUME TypeOK, Backed, [Command]_vars,
           NEW slot \in Slots, NEW i \in MarketIds, NEW s \in Sides
    PROVE  LET change == positions'[slot][i].shares[s] - positions[slot][i].shares[s]
           IN  change # 0 =>
                \E e \in DOMAIN reply'.events :
                    Announces(reply'.events[e], slot, i, s, change)
<1> DEFINE change == positions'[slot][i].shares[s] - positions[slot][i].shares[s]
<1>1. positions[slot][i].shares[s] \in Nat
    BY HeldType
<1>2. ASSUME NEW pid \in DOMAIN players, NEW id \in DOMAIN markets,
             NEW type \in 0 .. 1, NEW n \in Int,
             Exchanged(SlotOf(pid), id, SideOf(type), n), change # 0
      PROVE  slot = SlotOf(pid) /\ i = id /\ s = SideOf(type) /\ change = n
  <2>1. SlotOf(pid) \in Slots /\ id \in MarketIds /\ SideOf(type) \in Sides
    BY Reading, SlotType DEF SideOf, Sides
  <2> DEFINE held == positions[SlotOf(pid)][id].shares[SideOf(type)]
  <2>2. Repositioned(SlotOf(pid), id, SideOf(type), held + n)
    BY <1>2 DEF Exchanged
  <2>3. held \in Nat
    BY <2>1, HeldType
  <2> HIDE DEF held
  <2>4. positions'[slot][i].shares[s] =
            IF slot = SlotOf(pid) /\ i = id /\ s = SideOf(type) THEN held + n
            ELSE positions[slot][i].shares[s]
    BY <2>1, <2>2, Restored
  <2>5. slot = SlotOf(pid) /\ i = id /\ s = SideOf(type)
    BY <1>1, <1>2, <2>4
  <2>6. positions[slot][i].shares[s] = held
    BY <2>5 DEF held
  <2> QED BY <2>3, <2>4, <2>5, <2>6
<1>3. CASE Bought
  <2>1. PICK pid \in DOMAIN players, id \in DOMAIN markets, type \in 0 .. 1 :
            \E amount, n, m : BoughtBy(pid, id, type, amount, n, m)
    BY <1>3 DEF Bought
  <2>2. PICK amount, n, m : BoughtBy(pid, id, type, amount, n, m)
    BY <2>1
  <2>3. n \in Int
    BY <2>2, LimitsAssumption DEF BoughtBy
  <2>4. Exchanged(SlotOf(pid), id, SideOf(type), n)
    BY <2>2, BoughtShares DEF Backed
  <2> DEFINE event == BetEvent(pid, id, type, amount, n)
  <2>5. 1 \in DOMAIN reply'.events /\ reply'.events[1] = event
    <3>1. reply'.events = <<event, MarketEvent(id, m)>>
      BY <2>2 DEF BoughtBy
    <3> QED BY <3>1
  <2>6. Announces(event, SlotOf(pid), id, SideOf(type), n)
    BY DEF Announces, BetEvent, EventShares
  <2> HIDE DEF change, event
  <2>7. change # 0 => Announces(event, slot, i, s, change)
    BY <1>2, <2>3, <2>4, <2>6
  <2> QED BY <2>5, <2>7 DEF change
<1>4. CASE Sold
  <2>1. PICK pid \in DOMAIN players, id \in DOMAIN markets, type \in 0 .. 1 :
            \E payout, n, m : SoldBy(pid, id, type, payout, n, m)
    BY <1>4 DEF Sold
  <2>2. PICK payout, n, m : SoldBy(pid, id, type, payout, n, m)
    BY <2>1
  <2>3. -n \in Int
    <3>1. id \in MarketIds /\ SlotOf(pid) \in Slots /\ SideOf(type) \in Sides
      BY Reading, SlotType DEF SideOf, Sides
    <3>2. positions[SlotOf(pid)][id].shares[SideOf(type)] \in Nat
      BY <3>1, HeldType
    <3> QED BY <2>2, <3>2 DEF SoldBy
  <2>4. Exchanged(SlotOf(pid), id, SideOf(type), -n)
    BY <2>2, SoldShares
  <2> DEFINE event == SellEvent(pid, id, type, n, payout)
  <2>5. 1 \in DOMAIN reply'.events /\ reply'.events[1] = event
    <3>1. reply'.events = <<event, MarketEvent(id, m)>>
      BY <2>2 DEF SoldBy
    <3> QED BY <3>1
  <2>6. Announces(event, SlotOf(pid), id, SideOf(type), -n)
    <3>1. (type + 10) % 10 = type /\ ~(type + 10 <= 1)
      OBVIOUS
    <3> QED BY <3>1 DEF Announces, SellEvent, BetEvent, EventShares
  <2> HIDE DEF change, event
  <2>7. change # 0 => Announces(event, slot, i, s, change)
    BY <1>2, <2>3, <2>4, <2>6
  <2> QED BY <2>5, <2>7 DEF change
<1>5. CASE positions'[slot][i].shares = positions[slot][i].shares
    BY <1>1, <1>5
<1>6. CASE Claimed
  <2>1. PICK pid \in DOMAIN players, id \in DOMAIN markets :
            positions' = [positions EXCEPT ![SlotOf(pid)][id].claimed = TRUE]
    BY <1>6 DEF Claimed, ClaimedBy
  <2>2. pid \in Pids /\ id \in MarketIds
    BY Reading
  <2> QED BY <1>5, <2>1, <2>2, MarkedPositions
<1> QED BY <1>3, <1>4, <1>5, <1>6, StepLedger
           DEF Backed, Opened, Closed, Collected, CollectedFrom, Withdrawn,
               WithdrawnBy, Funded, Idle

\* Whatever changes a market, except the withdrawal of its fees, announces its
\* new record, and whatever changes a position announces the exact number of
\* shares (handle_bet and handle_sell insert both events after place_bet and
\* sell_shares have returned).
THEOREM TradesAreAnnounced == Spec => TradesAnnounced
<1> DEFINE markets_announced ==
        \A id \in DOMAIN markets' :
            \/ /\ id \in DOMAIN markets
               /\ \/ markets'[id] = markets[id]
                  \/ markets'[id] = [markets[id] EXCEPT !.total_fees_collected = 0]
            \/ \E i \in DOMAIN reply'.events :
                    reply'.events[i] = MarketEvent(id, markets'[id])
           shares_announced ==
        \A slot \in Slots, id \in MarketIds, side \in Sides :
            LET change == positions'[slot][id].shares[side]
                            - positions[slot][id].shares[side]
            IN  change # 0 =>
                \E i \in DOMAIN reply'.events :
                    LET event == reply'.events[i]
                    IN  /\ event.kind = "bet"
                        /\ SlotOf(event.pid) = slot
                        /\ event.id = id
                        /\ SideOf(event.type % 10) = side
                        /\ EventShares(event) = change
<1>1. TypeOK /\ Backed /\ [Command]_vars => markets_announced
    BY MarketAnnounced
<1>2. TypeOK /\ Backed /\ [Command]_vars => shares_announced
    BY SharesAnnounced DEF Announces
<1>3. TypeOK /\ Backed /\ [Command]_vars => [markets_announced /\ shares_announced]_vars
    BY <1>1, <1>2
<1> QED BY <1>3, TypeCorrect, AlwaysBacked, NextIsCommand, PTL DEF Spec, TradesAnnounced

-----------------------------------------------------------------------------
(* The parts of the supply. *)

Balances  == Total([pid \in DOMAIN players |-> players[pid].balance])
Queued    == Total([i \in DOMAIN settlement |-> settlement[i].amount])
InMarkets == Total([id \in DOMAIN markets |-> Holds(id)])

\* Players are installed one at a time, so they are finitely many even where
\* their ids are not.
FewPlayers == IsFiniteSet(DOMAIN players)

LEMMA PlayersStep == TypeOK /\ FewPlayers /\ [Command]_vars => FewPlayers'
<1> SUFFICES ASSUME TypeOK, FewPlayers, [Command]_vars PROVE FewPlayers'
    OBVIOUS
<1>1. SUFFICES \/ DOMAIN players' = DOMAIN players
               \/ \E pid : DOMAIN players' = DOMAIN players \cup {pid}
    BY FS_AddElement DEF FewPlayers
<1>2. ASSUME NEW pid, Signed(pid) PROVE DOMAIN players' = DOMAIN players
    BY <1>2, SignedEffect
<1>3. ASSUME NEW pid \in DOMAIN players, NEW nonce, NEW amount,
             Deposit(nonce, pid, amount)
      PROVE  DOMAIN players' = DOMAIN players
    BY <1>3 DEF Deposit, TypeOK
<1> QED BY <1>2, <1>3, StepEffect
           DEF Traded, TradedBy, Created, Decided, Marked, Emptied, Moved

LEMMA FewPlayersAlways == Spec => []FewPlayers
<1>1. Init => FewPlayers
  <2> SUFFICES ASSUME Init PROVE FewPlayers
    OBVIOUS
  <2>1. DOMAIN players = {}
    BY DEF Init
  <2> QED BY <2>1, FS_EmptySet DEF FewPlayers
<1> QED BY <1>1, PlayersStep, TypeCorrect, NextIsCommand, PTL DEF Spec

\* The balances are a natural, and no balance is more than all together.
LEMMA BalancesType ==
    ASSUME TypeOK, FewPlayers
    PROVE  /\ Balances \in Nat
           /\ \A pid \in DOMAIN players :
                players[pid].balance \in Nat /\ players[pid].balance <= Balances
<1> DEFINE before == [pid \in DOMAIN players |-> players[pid].balance]
<1>1. \A pid \in DOMAIN players : before[pid] \in Nat
    BY Reading, LimitsAssumption DEF Word
<1>2. Balances = SumOver(DOMAIN players, before)
    BY DEF Balances, Total
<1>3. \A pid \in DOMAIN players : before[pid] = players[pid].balance
    OBVIOUS
<1> HIDE DEF before
<1> QED BY <1>1, <1>2, <1>3, SumOfNaturals DEF FewPlayers

\* Storing one player changes the balances by the change of its balance.
LEMMA BalancesStored ==
    ASSUME TypeOK, FewPlayers, NEW pid \in DOMAIN players, NEW balance \in Nat,
           StorePlayer(pid, balance)
    PROVE  Balances' = Balances + (balance - players[pid].balance)
<1> DEFINE before == [p \in DOMAIN players |-> players[p].balance]
           after  == [p \in DOMAIN players |-> players'[p].balance]
<1>1. /\ DOMAIN players' = DOMAIN players
      /\ \A p \in DOMAIN players :
            players'[p] = IF p = pid THEN stored(pid, balance) ELSE players[p]
    BY DEF StorePlayer, TypeOK
<1>2. \A p \in DOMAIN players : before[p] \in Int
    BY Reading, LimitsAssumption DEF Word
<1>3. /\ \A p \in DOMAIN players : before[p] \in Int /\ after[p] \in Int
      /\ \A p \in DOMAIN players \ {pid} : after[p] = before[p]
      /\ after[pid] = balance /\ before[pid] = players[pid].balance
    BY <1>1, <1>2 DEF stored
<1>4. Balances = SumOver(DOMAIN players, before)
      /\ Balances' = SumOver(DOMAIN players, after)
    BY <1>1 DEF Balances, Total
<1> HIDE DEF before, after
<1>5. SumOver(DOMAIN players, after)
        = SumOver(DOMAIN players, before) + (after[pid] - before[pid])
    BY <1>3, SumChanged DEF FewPlayers
<1> QED BY <1>3, <1>4, <1>5

\* The queued withdrawals are a natural; one more adds its amount.
LEMMA QueuedType ==
    ASSUME TypeOK
    PROVE  /\ Queued \in Nat
           /\ \A amount \in Nat :
                settlement' = Append(settlement, [amount |-> amount])
                    => Queued' = Queued + amount
<1> DEFINE n      == Len(settlement)
           before == [i \in DOMAIN settlement |-> settlement[i].amount]
<1>1. /\ settlement \in Seq(WithdrawInfo) /\ n \in Nat
      /\ DOMAIN settlement = 1 .. n
    BY DEF TypeOK
<1>2. \A i \in 1 .. n : before[i] \in Nat
  <2> TAKE i \in 1 .. n
  <2>1. settlement[i] \in WithdrawInfo
    BY <1>1, ElementOfSeq
  <2> QED BY <1>1, <2>1, LimitsAssumption DEF WithdrawInfo, Word
<1>3. IsFiniteSet(1 .. n)
    BY <1>1, FS_Interval
<1>4. Queued = SumOver(1 .. n, before)
    BY <1>1 DEF Queued, Total
<1>5. Queued \in Nat
  <2> HIDE DEF before, n
  <2> QED BY <1>2, <1>3, <1>4, SumOfNaturals
<1>6. ASSUME NEW amount \in Nat,
             settlement' = Append(settlement, [amount |-> amount])
      PROVE  Queued' = Queued + amount
  <2> DEFINE after == [i \in DOMAIN settlement' |-> settlement'[i].amount]
  <2>1. /\ DOMAIN settlement' = 1 .. n + 1
        /\ settlement'[n + 1] = [amount |-> amount]
        /\ \A i \in 1 .. n : settlement'[i] = settlement[i]
    BY <1>1, <1>6, AppendProperties
  <2>2. /\ \A i \in 1 .. n : after[i] = before[i]
        /\ after[n + 1] = amount
        /\ 1 .. n + 1 = (1 .. n) \cup {n + 1} /\ n + 1 \notin 1 .. n
    BY <1>1, <2>1
  <2>3. Queued' = SumOver((1 .. n) \cup {n + 1}, after)
    BY <2>1, <2>2 DEF Queued, Total
  <2> HIDE DEF before, after, n
  <2>4. \A i \in (1 .. n) \cup {n + 1} : after[i] \in Int
    BY <1>2, <1>6, <2>2
  <2>5. SumOver((1 .. n) \cup {n + 1}, after) = SumOver(1 .. n, after) + after[n + 1]
    <3> DEFINE earlier == 1 .. n
               last    == n + 1
    <3>1. /\ IsFiniteSet(earlier) /\ last \notin earlier
          /\ \A y \in earlier \cup {last} : after[y] \in Int
      BY <1>3, <2>2, <2>4
    <3> HIDE DEF earlier, last
    <3>2. SumOver(earlier \cup {last}, after) = SumOver(earlier, after) + after[last]
      BY <3>1, SumAdded
    <3> QED BY <3>2 DEF earlier, last
  <2>6. SumOver(1 .. n, after) = SumOver(1 .. n, before)
    BY <1>3, <2>2, SumSame
  <2> QED BY <1>4, <2>2, <2>3, <2>5, <2>6
<1> QED BY <1>5, <1>6

-----------------------------------------------------------------------------
(* What a market holds. *)

\* What the claims of a market have been paid is a natural, and the payout of
\* a position not yet claimed is still in the pool.
LEMMA PaidType ==
    ASSUME TypeOK, SharesBacked, NEW id \in DOMAIN markets
    PROVE  /\ PaidOut(id) \in Nat
           /\ PaidOut(id) <= markets[id].pool_balance
           /\ \A slot \in Slots :
                ~positions[slot][id].claimed
                    => PaidOut(id) + Payout(slot, id) <= markets[id].pool_balance
<1> DEFINE pay  == [slot \in Slots |-> Payout(slot, id)]
           paid == [slot \in Slots |->
                        IF positions[slot][id].claimed THEN Payout(slot, id) ELSE 0]
           P    == markets[id].pool_balance
<1>1. \A slot \in Slots : pay[slot] \in Nat /\ P \in Nat
    BY PayoutBacked
<1>2. P \in Nat
  <2>1. markets[id] \in MarketData
    BY Reading
  <2> QED BY <2>1, LimitsAssumption DEF MarketData, Word
<1>3. SumOver(Slots, pay) \in Nat /\ SumOver(Slots, pay) <= P
    BY PayoutsCovered DEF Total
<1>4. PaidOut(id) = SumOver(Slots, paid)
    BY DEF PaidOut, Total
<1>5. \A slot \in Slots : paid[slot] \in Nat /\ paid[slot] <= pay[slot]
    BY <1>1
<1>6. ASSUME NEW table, \A slot \in Slots : /\ table[slot] \in Nat
                                            /\ table[slot] <= pay[slot]
      PROVE  SumOver(Slots, table) \in Nat /\ SumOver(Slots, table) <= P
  <2> HIDE DEF pay, P
  <2>1. /\ \A slot \in Slots : table[slot] \in Int /\ pay[slot] \in Int
        /\ \A slot \in Slots : 1 * table[slot] <= 1 * pay[slot]
    BY <1>1, <1>6
  <2>2. 1 * SumOver(Slots, table) <= 1 * SumOver(Slots, pay)
    BY <2>1, SlotsFinite, SumBounded
  <2>3. SumOver(Slots, table) \in Nat
    BY <1>6, SlotsFinite, SumOfNaturals
  <2> QED BY <1>2, <1>3, <2>2, <2>3
<1>7. PaidOut(id) \in Nat /\ PaidOut(id) <= P
  <2> HIDE DEF paid, pay, P
  <2> QED BY <1>4, <1>5, <1>6
<1>8. ASSUME NEW slot \in Slots, ~positions[slot][id].claimed
      PROVE  PaidOut(id) + Payout(slot, id) <= P
  <2> DEFINE more == [paid EXCEPT ![slot] = pay[slot]]
  <2>1. /\ \A x \in Slots : more[x] \in Nat /\ more[x] <= pay[x]
        /\ \A x \in Slots \ {slot} : more[x] = paid[x]
        /\ more[slot] = pay[slot] /\ paid[slot] = 0
        /\ pay[slot] = Payout(slot, id)
    BY <1>1, <1>5, <1>8
  <2> HIDE DEF more, pay, paid, P
  <2>2. SumOver(Slots, more) <= P
    BY <1>6, <2>1
  <2>3. \A x \in Slots : paid[x] \in Int /\ more[x] \in Int
    BY <1>5, <2>1
  <2>4. SumOver(Slots, more) = SumOver(Slots, paid) + (more[slot] - paid[slot])
    <3>1. \A y \in Slots \ {slot} : more[y] = paid[y]
      BY <2>1
    <3>2. \A y \in Slots : paid[y] \in Int /\ more[y] \in Int
      BY <2>3
    <3> QED BY <3>1, <3>2, SlotsFinite, SumChanged
  <2> QED BY <1>1, <1>4, <1>7, <2>1, <2>2, <2>4
<1> QED BY <1>7, <1>8

\* A market still open has paid nothing.
OpenUnpaid ==
    \A id \in DOMAIN markets : ~markets[id].resolved => PaidOut(id) = 0

LEMMA OpenPaysNothing == OpenUnpaid
<1> SUFFICES ASSUME NEW id \in DOMAIN markets, ~markets[id].resolved
             PROVE  PaidOut(id) = 0
    BY DEF OpenUnpaid
<1> DEFINE paid == [slot \in Slots |->
                        IF positions[slot][id].claimed THEN Payout(slot, id) ELSE 0]
<1>1. \A slot \in Slots : paid[slot] = 0
    BY DEF Payout, calculate_payout
<1>2. PaidOut(id) = SumOver(Slots, paid)
    BY DEF PaidOut, Total
<1> HIDE DEF paid
<1> QED BY <1>1, <1>2, SlotsFinite, SumOfZeros

\* What a market holds is a natural and at least its fees.
LEMMA HoldsType ==
    ASSUME TypeOK, SharesBacked, NEW id \in DOMAIN markets
    PROVE  /\ Holds(id) \in Nat
           /\ markets[id].total_fees_collected \in Nat
           /\ markets[id].total_fees_collected <= Holds(id)
           /\ \A slot \in Slots :
                ~positions[slot][id].claimed => Payout(slot, id) <= Holds(id)
<1>1. /\ markets[id].pool_balance \in Nat
      /\ markets[id].total_fees_collected \in Nat
  <2>1. markets[id] \in MarketData
    BY Reading
  <2> QED BY <2>1, LimitsAssumption DEF MarketData, Word
<1>2. PaidOut(id) \in Nat /\ PaidOut(id) <= markets[id].pool_balance
    BY PaidType
<1>3. \A slot \in Slots : Payout(slot, id) \in Nat
    BY PayoutBacked
<1>4. \A slot \in Slots : ~positions[slot][id].claimed
        => PaidOut(id) + Payout(slot, id) <= markets[id].pool_balance
    BY PaidType
<1> QED BY <1>1, <1>2, <1>3, <1>4 DEF Holds

HoldsNatural == \A id \in DOMAIN markets : Holds(id) \in Nat

LEMMA HoldsAreNatural == TypeOK /\ SharesBacked => HoldsNatural
BY HoldsType DEF HoldsNatural

\* There are finitely many markets, and what they hold is a natural.
LEMMA InMarketsType ==
    ASSUME TypeOK, SharesBacked
    PROVE  /\ IsFiniteSet(DOMAIN markets)
           /\ InMarkets \in Nat
           /\ \A id \in DOMAIN markets : Holds(id) <= InMarkets
<1> DEFINE before == [id \in DOMAIN markets |-> Holds(id)]
<1>1. IsFiniteSet(DOMAIN markets)
  <2>1. DOMAIN markets = 1 .. Len(markets) /\ Len(markets) \in Nat
    BY DEF TypeOK
  <2> QED BY <2>1, FS_Interval
<1>2. \A id \in DOMAIN markets : before[id] \in Nat
    BY HoldsType
<1>3. InMarkets = SumOver(DOMAIN markets, before)
    BY DEF InMarkets, Total
<1>4. \A id \in DOMAIN markets : before[id] = Holds(id)
    OBVIOUS
<1> HIDE DEF before
<1> QED BY <1>1, <1>2, <1>3, <1>4, SumOfNaturals

\* When what one market holds changes, the markets hold as much more.
LEMMA InMarketsChanged ==
    ASSUME TypeOK, SharesBacked, HoldsNatural', DOMAIN markets' = DOMAIN markets,
           NEW id \in DOMAIN markets,
           \A i \in DOMAIN markets \ {id} : Holds(i)' = Holds(i)
    PROVE  InMarkets' = InMarkets + (Holds(id)' - Holds(id))
<1> DEFINE before == [i \in DOMAIN markets |-> Holds(i)]
           after  == [i \in DOMAIN markets |-> Holds(i)']
<1>1. \A i \in DOMAIN markets : before[i] \in Int
    BY HoldsType
<1>2. \A i \in DOMAIN markets : after[i] \in Int
    BY DEF HoldsNatural
<1>3. /\ \A i \in DOMAIN markets : before[i] \in Int /\ after[i] \in Int
      /\ \A i \in DOMAIN markets \ {id} : after[i] = before[i]
      /\ after[id] = Holds(id)' /\ before[id] = Holds(id)
    BY <1>1, <1>2
<1>4. /\ InMarkets = SumOver(DOMAIN markets, before)
      /\ InMarkets' = SumOver(DOMAIN markets, after)
    BY DEF InMarkets, Total
<1> HIDE DEF before, after
<1>5. SumOver(DOMAIN markets, after)
        = SumOver(DOMAIN markets, before) + (after[id] - before[id])
    BY <1>3, InMarketsType, SumChanged
<1> QED BY <1>3, <1>4, <1>5

\* Where neither the payouts nor the flags of a market change, neither does
\* what it has paid.
LEMMA PaidSame ==
    ASSUME NEW id,
           \A slot \in Slots :
                /\ positions'[slot][id].claimed = positions[slot][id].claimed
                /\ Payout(slot, id)' = Payout(slot, id)
    PROVE  PaidOut(id)' = PaidOut(id)
<1>1. [slot \in Slots |->
            IF positions'[slot][id].claimed THEN Payout(slot, id)' ELSE 0]
        = [slot \in Slots |->
            IF positions[slot][id].claimed THEN Payout(slot, id) ELSE 0]
    OBVIOUS
<1> QED BY <1>1 DEF PaidOut

\* A market that stays, with its positions, holds what it held.
LEMMA HoldsSame ==
    ASSUME NEW id, markets'[id] = markets[id],
           \A slot \in Slots : positions'[slot][id] = positions[slot][id]
    PROVE  Holds(id)' = Holds(id)
<1>1. \A slot \in Slots :
        /\ positions'[slot][id].claimed = positions[slot][id].claimed
        /\ Payout(slot, id)' = Payout(slot, id)
    BY DEF Payout
<1> QED BY <1>1, PaidSame DEF Holds

-----------------------------------------------------------------------------
(* Where the tokens go.  The sums of balances and payouts are plain u64      *)
(* sums: they are exact while all the tokens there are fit in a word.        *)

SupplyFits == Supply \in Word

\* The supply, and that no balance wraps when it takes what a market holds.
LEMMA SupplyParts ==
    ASSUME TypeOK, SharesBacked, FewPlayers, SupplyFits
    PROVE  /\ Supply = Balances + Queued + InMarkets
           /\ Balances \in Nat /\ Queued \in Nat /\ InMarkets \in Nat
           /\ \A pid \in DOMAIN players, id \in DOMAIN markets, amount \in Nat :
                amount <= Holds(id) =>
                    add_balance(players[pid].balance, amount)
                        = players[pid].balance + amount
<1>1. Supply = Balances + Queued + InMarkets
    BY DEF Supply, Balances, Queued, InMarkets
<1>2. Balances \in Nat /\ Queued \in Nat /\ InMarkets \in Nat
    BY BalancesType, QueuedType, InMarketsType
<1>3. ASSUME NEW pid \in DOMAIN players, NEW id \in DOMAIN markets,
             NEW amount \in Nat, amount <= Holds(id)
      PROVE  add_balance(players[pid].balance, amount)
                = players[pid].balance + amount
  <2>1. players[pid].balance \in Nat /\ players[pid].balance <= Balances
    BY BalancesType
  <2>2. Holds(id) \in Nat /\ Holds(id) <= InMarkets
    BY HoldsType, InMarketsType
  <2>3. /\ players[pid].balance + amount \in Word
        /\ players[pid].balance \in Word /\ amount \in Word
    BY <1>1, <1>2, <1>3, <2>1, <2>2, LimitsAssumption DEF SupplyFits, Word
  <2> QED BY <2>3, NoWrap
<1> QED BY <1>1, <1>2, <1>3

\* The supply after a step.
LEMMA SupplyAfter == Supply' = Balances' + Queued' + InMarkets'
BY DEF Supply, Balances, Queued, InMarkets

\* Where neither markets nor positions change, the markets hold what they held.
LEMMA InMarketsSame ==
    ASSUME UNCHANGED <<markets, positions>>
    PROVE  InMarkets' = InMarkets
BY DEF InMarkets, Holds, PaidOut, Payout

\* A trade leaves alone what other markets hold.
LEMMA TradedElsewhere ==
    ASSUME TypeOK, NEW pid \in DOMAIN players, NEW id \in DOMAIN markets,
           NEW type, NEW m, NEW n, Repositioned(SlotOf(pid), id, SideOf(type), n),
           markets' = [markets EXCEPT ![id] = m]
    PROVE  /\ DOMAIN markets' = DOMAIN markets
           /\ markets'[id] = m
           /\ \A i \in DOMAIN markets \ {id} : Holds(i)' = Holds(i)
<1>1. /\ DOMAIN markets' = DOMAIN markets
      /\ \A i \in DOMAIN markets : markets'[i] = IF i = id THEN m ELSE markets[i]
    BY DEF TypeOK
<1>2. ASSUME NEW i \in DOMAIN markets \ {id} PROVE Holds(i)' = Holds(i)
  <2>1. pid \in Pids /\ id \in MarketIds /\ i \in MarketIds /\ SideOf(type) \in Sides
    BY Reading DEF SideOf, Sides
  <2>2. \A slot \in Slots : positions'[slot][i] = positions[slot][i]
    BY <2>1, TradedPositions DEF Repositioned
  <2> QED BY <1>1, <2>2, HoldsSame
<1> QED BY <1>1, <1>2

\* A bet moves its amount from the balance to the pool and the vault.
LEMMA BoughtMoney ==
    ASSUME TypeOK, SharesBacked, FewPlayers, SupplyFits, HoldsNatural',
           NEW pid \in DOMAIN players, NEW id \in DOMAIN markets,
           NEW type \in 0 .. 1, NEW amount, NEW n, NEW m,
           BoughtBy(pid, id, type, amount, n, m)
    PROVE  Supply' = Supply
<1>1. /\ DOMAIN markets' = DOMAIN markets /\ markets'[id] = m
      /\ \A i \in DOMAIN markets \ {id} : Holds(i)' = Holds(i)
    BY TradedElsewhere DEF BoughtBy, Repositioned
<1>2. amount \in Nat /\ players[pid].balance - amount \in Nat
      /\ players[pid].balance \in Nat
    BY BalancesType DEF BoughtBy
<1>3. Balances' = Balances + ((players[pid].balance - amount) - players[pid].balance)
    BY <1>2, BalancesStored DEF BoughtBy
<1>4. /\ markets[id].pool_balance \in Nat /\ markets[id].total_fees_collected \in Nat
      /\ m.pool_balance \in Nat /\ m.total_fees_collected \in Nat
  <2>1. markets[id] \in MarketData /\ m \in MarketData
    BY Reading DEF BoughtBy, Minted
  <2> QED BY <2>1, LimitsAssumption DEF MarketData, Word
<1>5. PaidOut(id) = 0 /\ PaidOut(id)' = 0
  <2>1. OpenUnpaid'
    BY OpenPaysNothing, PTL
  <2>2. ~markets[id].resolved /\ ~markets'[id].resolved
    BY <1>1 DEF BoughtBy, Minted
  <2> QED BY <1>1, <2>1, <2>2, OpenPaysNothing DEF OpenUnpaid
<1>6. Holds(id)' = Holds(id) + amount /\ Holds(id) \in Nat
  <2>1. m.pool_balance + m.total_fees_collected
            = markets[id].pool_balance + markets[id].total_fees_collected + amount
    BY DEF BoughtBy
  <2>2. Holds(id)' = m.pool_balance - 0 + m.total_fees_collected
    BY <1>1, <1>5 DEF Holds
  <2>3. Holds(id) = markets[id].pool_balance - 0 + markets[id].total_fees_collected
    BY <1>5 DEF Holds
  <2> QED BY <1>2, <1>4, <2>1, <2>2, <2>3
<1>7. InMarkets' = InMarkets + (Holds(id)' - Holds(id))
    BY <1>1, InMarketsChanged
<1>8. Queued' = Queued
    BY DEF BoughtBy, Queued
<1> QED BY <1>2, <1>3, <1>6, <1>7, <1>8, SupplyParts, SupplyAfter

\* A sale moves its payout from the pool to the balance and adds the fee to
\* the vault.
LEMMA SoldMoney ==
    ASSUME TypeOK, SharesBacked, FewPlayers, SupplyFits, HoldsNatural',
           NEW pid \in DOMAIN players, NEW id \in DOMAIN markets,
           NEW type \in 0 .. 1, NEW payout, NEW n, NEW m,
           SoldBy(pid, id, type, payout, n, m)
    PROVE  Supply' = Supply + VaultGain(id)
<1>1. /\ DOMAIN markets' = DOMAIN markets /\ markets'[id] = m
      /\ \A i \in DOMAIN markets \ {id} : Holds(i)' = Holds(i)
    BY TradedElsewhere DEF SoldBy, Repositioned
<1>2. /\ markets[id].pool_balance \in Nat /\ markets[id].total_fees_collected \in Nat
      /\ m.pool_balance \in Nat /\ m.total_fees_collected \in Nat
  <2>1. markets[id] \in MarketData /\ m \in MarketData
    BY Reading DEF SoldBy, Minted
  <2> QED BY <2>1, LimitsAssumption DEF MarketData, Word
<1>3. PaidOut(id) = 0 /\ PaidOut(id)' = 0
  <2>1. OpenUnpaid'
    BY OpenPaysNothing, PTL
  <2>2. ~markets[id].resolved /\ ~markets'[id].resolved
    BY <1>1 DEF SoldBy, Minted
  <2> QED BY <1>1, <2>1, <2>2, OpenPaysNothing DEF OpenUnpaid
<1>4. payout \in Nat /\ payout <= markets[id].pool_balance
      /\ m.pool_balance = markets[id].pool_balance - payout
    BY <1>2 DEF SoldBy
<1>5. Holds(id) = markets[id].pool_balance + markets[id].total_fees_collected
      /\ Holds(id)' = m.pool_balance + m.total_fees_collected
  <2>1. Holds(id)' = m.pool_balance - 0 + m.total_fees_collected
    BY <1>1, <1>3 DEF Holds
  <2>2. Holds(id) = markets[id].pool_balance - 0 + markets[id].total_fees_collected
    BY <1>3 DEF Holds
  <2> QED BY <1>2, <2>1, <2>2
<1>6. add_balance(players[pid].balance, payout) = players[pid].balance + payout
  <2>1. payout <= Holds(id)
    BY <1>2, <1>4, <1>5
  <2> QED BY <1>4, <2>1, SupplyParts
<1>7. players[pid].balance \in Nat
    BY BalancesType
<1>8. Balances' = Balances + ((players[pid].balance + payout) - players[pid].balance)
  <2>1. StorePlayer(pid, players[pid].balance + payout)
    BY <1>6 DEF SoldBy
  <2>2. players[pid].balance + payout \in Nat
    BY <1>4, <1>7
  <2> QED BY <2>1, <2>2, BalancesStored
<1>9. InMarkets' = InMarkets + (Holds(id)' - Holds(id))
    BY <1>1, InMarketsChanged
<1>10. Queued' = Queued
    BY DEF SoldBy, Queued
<1>11. VaultGain(id) = m.total_fees_collected - markets[id].total_fees_collected
    BY <1>1 DEF VaultGain
<1> QED BY <1>2, <1>4, <1>5, <1>7, <1>8, <1>9, <1>10, <1>11, SupplyParts,
           SupplyAfter

\* A new market holds nothing.
LEMMA OpenedMoney ==
    ASSUME TypeOK, SharesBacked, FewPlayers, SupplyFits, Opened
    PROVE  Supply' = Supply
<1>1. PICK id \in MarketIds \ DOMAIN markets :
        /\ DOMAIN markets' = DOMAIN markets \cup {id}
        /\ \A i \in DOMAIN markets : markets'[i] = markets[i]
        /\ ~markets'[id].resolved
        /\ markets'[id].pool_balance = 0 /\ markets'[id].total_fees_collected = 0
    BY OpenedMarkets
<1>2. UNCHANGED <<players, positions, settlement>>
    BY DEF Opened
<1>3. \A i \in DOMAIN markets : Holds(i)' = Holds(i) /\ Holds(i) \in Nat
    BY <1>1, <1>2, HoldsSame, HoldsType
<1>4. Holds(id)' = 0
  <2>1. OpenUnpaid'
    BY OpenPaysNothing, PTL
  <2>2. PaidOut(id)' = 0
    BY <1>1, <2>1 DEF OpenUnpaid
  <2> QED BY <1>1, <2>2 DEF Holds
<1>5. PICK before, after, ids :
        /\ before = [i \in DOMAIN markets |-> Holds(i)]
        /\ after = [i \in DOMAIN markets' |-> Holds(i)']
        /\ ids = DOMAIN markets
    OBVIOUS
<1>6. /\ InMarkets = SumOver(ids, before)
      /\ InMarkets' = SumOver(ids \cup {id}, after)
  <2>1. InMarkets = SumOver(DOMAIN before, before) /\ DOMAIN before = ids
    BY <1>5 DEF InMarkets, Total
  <2>2. InMarkets' = SumOver(DOMAIN after, after)
        /\ DOMAIN after = ids \cup {id}
    BY <1>1, <1>5 DEF InMarkets, Total
  <2> QED BY <2>1, <2>2
<1>7. /\ \A i \in ids : after[i] = before[i]
      /\ after[id] = 0
      /\ \A i \in ids \cup {id} : after[i] \in Int
    BY <1>1, <1>3, <1>4, <1>5
<1>8. IsFiniteSet(ids) /\ InMarkets \in Nat /\ id \notin ids
    BY <1>1, <1>5, InMarketsType
<1>9. SumOver(ids \cup {id}, after) = SumOver(ids, after) + after[id]
    BY <1>7, <1>8, SumAdded
<1>10. SumOver(ids, after) = SumOver(ids, before)
    BY <1>7, <1>8, SumSame
<1>11. InMarkets' = InMarkets
    BY <1>6, <1>7, <1>8, <1>9, <1>10
<1>12. Balances' = Balances /\ Queued' = Queued
    BY <1>2 DEF Balances, Queued
<1> QED BY <1>11, <1>12, SupplyParts, SupplyAfter

\* A resolution moves nothing: nobody has claimed yet.
LEMMA ClosedMoney ==
    ASSUME TypeOK, SharesBacked, FewPlayers, SupplyFits, ClaimedResolved,
           HoldsNatural', Closed
    PROVE  Supply' = Supply
<1>1. PICK id \in DOMAIN markets, outcome \in 0 .. 1 :
        /\ ~markets[id].resolved
        /\ markets' = [markets EXCEPT ![id] = resolve(markets[id], outcome)]
    BY DEF Closed
<1> DEFINE m == resolve(markets[id], outcome)
<1>2. UNCHANGED <<players, positions, settlement>>
    BY DEF Closed
<1>3. id \in MarketIds /\ markets[id] \in MarketData
    BY Reading
<1>4. /\ m.pool_balance = markets[id].pool_balance
      /\ m.total_fees_collected = markets[id].total_fees_collected
    BY <1>3 DEF resolve, MarketData
<1> HIDE DEF m
<1>5. /\ DOMAIN markets' = DOMAIN markets /\ markets'[id] = m
      /\ \A i \in DOMAIN markets \ {id} : markets'[i] = markets[i]
    BY <1>1 DEF TypeOK, m
<1>6. \A i \in DOMAIN markets \ {id} : Holds(i)' = Holds(i)
    BY <1>2, <1>5, HoldsSame
<1>7. PaidOut(id)' = 0
  <2> DEFINE paid == [slot \in Slots |->
                IF positions'[slot][id].claimed THEN Payout(slot, id)' ELSE 0]
  <2>1. \A slot \in Slots : paid[slot] = 0
    BY <1>1, <1>2, <1>3 DEF ClaimedResolved
  <2>2. PaidOut(id)' = SumOver(Slots, paid)
    BY DEF PaidOut, Total
  <2> HIDE DEF paid
  <2> QED BY <2>1, <2>2, SlotsFinite, SumOfZeros
<1>8. Holds(id)' = Holds(id)
  <2>1. PaidOut(id) = 0
    BY <1>1, OpenPaysNothing DEF OpenUnpaid
  <2> QED BY <1>4, <1>5, <1>7, <2>1 DEF Holds
<1>9. Holds(id) \in Nat
    BY HoldsType
<1>10. InMarkets' = InMarkets + (Holds(id)' - Holds(id))
    BY <1>5, <1>6, InMarketsChanged
<1>11. Balances' = Balances /\ Queued' = Queued
    BY <1>2 DEF Balances, Queued
<1> QED BY <1>8, <1>9, <1>10, <1>11, SupplyParts, SupplyAfter

\* A claim moves its payout from the unpaid part of the pool to the balance.
LEMMA ClaimedMoney ==
    ASSUME TypeOK, SharesBacked, FewPlayers, SupplyFits, HoldsNatural',
           NEW pid \in DOMAIN players, NEW id \in DOMAIN markets, ClaimedBy(pid, id)
    PROVE  Supply' = Supply
<1> DEFINE slot   == SlotOf(pid)
           payout == Payout(slot, id)
<1>1. pid \in Pids /\ id \in MarketIds /\ slot \in Slots
    BY Reading, SlotType
<1>2. /\ ~positions[slot][id].claimed
      /\ positions' = [positions EXCEPT ![slot][id].claimed = TRUE]
      /\ UNCHANGED <<markets, settlement>>
    BY DEF ClaimedBy
<1>3. \A x \in Slots, i \in MarketIds :
        /\ positions'[x][i].shares = positions[x][i].shares
        /\ x # slot \/ i # id => positions'[x][i] = positions[x][i]
    BY <1>1, <1>2, MarkedPositions
<1>4. positions'[slot][id].claimed
  <2>1. positions \in [Slots -> [MarketIds -> PlayerMarketPosition]]
    BY DEF TypeOK
  <2> QED BY <1>1, <1>2, <2>1 DEF PlayerMarketPosition
<1> HIDE DEF slot
<1>5. \A x \in Slots : Payout(x, id)' = Payout(x, id)
    BY <1>1, <1>2, <1>3 DEF Payout
<1>6. payout \in Nat /\ payout <= Holds(id) /\ Holds(id) \in Nat
      /\ \A x \in Slots : Payout(x, id) \in Nat
    BY <1>1, <1>2, PayoutBacked, HoldsType
<1>7. PaidOut(id)' = PaidOut(id) + payout
  <2> DEFINE before == [x \in Slots |->
                IF positions[x][id].claimed THEN Payout(x, id) ELSE 0]
             after  == [x \in Slots |->
                IF positions'[x][id].claimed THEN Payout(x, id)' ELSE 0]
  <2>1. PaidOut(id) = SumOver(Slots, before) /\ PaidOut(id)' = SumOver(Slots, after)
    BY DEF PaidOut, Total
  <2>2. \A x \in Slots : before[x] \in Int /\ after[x] \in Int
    BY <1>5, <1>6
  <2>3. \A x \in Slots \ {slot} : after[x] = before[x]
    BY <1>1, <1>3, <1>5
  <2>4. before[slot] = 0 /\ after[slot] = payout
    BY <1>1, <1>2, <1>4, <1>5
  <2> HIDE DEF before, after, payout
  <2>5. SumOver(Slots, after) = SumOver(Slots, before) + (after[slot] - before[slot])
    BY <1>1, <2>2, <2>3, SlotsFinite, SumChanged
  <2>6. SumOver(Slots, before) \in Int
    BY <2>2, SlotsFinite, SumType
  <2> QED BY <1>6, <2>1, <2>4, <2>5, <2>6
<1>8. Holds(id)' = Holds(id) - payout
  <2>1. /\ markets[id].pool_balance \in Nat /\ PaidOut(id) \in Nat
        /\ markets[id].total_fees_collected \in Nat
    BY <1>1, PayoutBacked, PaidType
  <2>2. Holds(id)' = markets[id].pool_balance - PaidOut(id)'
                        + markets[id].total_fees_collected
    BY <1>2 DEF Holds
  <2> HIDE DEF payout
  <2> QED BY <1>6, <1>7, <2>1, <2>2 DEF Holds
<1>9. \A i \in DOMAIN markets \ {id} : Holds(i)' = Holds(i)
    BY <1>2, <1>3, HoldsSame, Reading
<1>10. InMarkets' = InMarkets + (Holds(id)' - Holds(id))
    BY <1>2, <1>9, InMarketsChanged
<1>11. Queued' = Queued
    BY <1>2 DEF Queued
<1>12. Balances' = Balances + payout
  <2>1. \/ payout <= 0 /\ UNCHANGED players
        \/ StorePlayer(pid, add_balance(players[pid].balance, payout))
    BY DEF ClaimedBy, slot
  <2>2. Balances \in Nat /\ players[pid].balance \in Nat
    BY BalancesType
  <2> HIDE DEF payout
  <2>3. CASE payout <= 0 /\ UNCHANGED players
    <3>1. Balances' = Balances
      BY <2>3 DEF Balances
    <3> QED BY <1>6, <2>2, <2>3, <3>1
  <2>4. CASE StorePlayer(pid, add_balance(players[pid].balance, payout))
    <3>1. add_balance(players[pid].balance, payout) = players[pid].balance + payout
      BY <1>6, SupplyParts
    <3>2. Balances' = Balances
                + ((players[pid].balance + payout) - players[pid].balance)
      <4>1. players[pid].balance + payout \in Nat
        BY <1>6, <2>2
      <4> QED BY <2>4, <3>1, <4>1, BalancesStored
    <3> QED BY <1>6, <2>2, <3>2
  <2> QED BY <2>1, <2>3, <2>4
<1> HIDE DEF payout
<1> QED BY <1>6, <1>8, <1>10, <1>11, <1>12, SupplyParts, SupplyAfter

\* The fees move from the vault to the administrator.
LEMMA CollectedMoney ==
    ASSUME TypeOK, SharesBacked, FewPlayers, SupplyFits, HoldsNatural',
           Admin \in DOMAIN players, NEW id \in DOMAIN markets, CollectedFrom(id)
    PROVE  Supply' = Supply
<1> DEFINE fees == markets[id].total_fees_collected
           m    == [markets[id] EXCEPT !.total_fees_collected = 0]
<1>1. markets[id] \in MarketData
    BY Reading
<1>2. /\ m.total_fees_collected = 0
      /\ m.pool_balance = markets[id].pool_balance
      /\ \A shares : calculate_payout(m, shares) = calculate_payout(markets[id], shares)
    BY <1>1 DEF MarketData, calculate_payout
<1> HIDE DEF m
<1>3. /\ DOMAIN markets' = DOMAIN markets /\ markets'[id] = m
      /\ \A i \in DOMAIN markets \ {id} : markets'[i] = markets[i]
    BY DEF TypeOK, CollectedFrom, m
<1>4. UNCHANGED <<positions, settlement>>
    BY DEF CollectedFrom
<1>5. \A i \in DOMAIN markets \ {id} : Holds(i)' = Holds(i)
    BY <1>3, <1>4, HoldsSame
<1>6. PaidOut(id)' = PaidOut(id)
  <2>1. \A slot \in Slots :
            /\ positions'[slot][id].claimed = positions[slot][id].claimed
            /\ Payout(slot, id)' = Payout(slot, id)
    BY <1>2, <1>3, <1>4 DEF Payout
  <2> QED BY <2>1, PaidSame
<1>7. /\ fees \in Nat /\ fees <= Holds(id) /\ Holds(id) \in Nat
      /\ PaidOut(id) \in Nat
    BY HoldsType, PaidType
<1>8. Holds(id)' = Holds(id) - fees
  <2>1. markets[id].pool_balance \in Nat
    BY <1>1, LimitsAssumption DEF MarketData, Word
  <2>2. Holds(id)' = markets[id].pool_balance - PaidOut(id) + 0
    BY <1>2, <1>3, <1>6 DEF Holds
  <2> QED BY <1>7, <2>1, <2>2 DEF Holds
<1> HIDE DEF fees
<1>9. InMarkets' = InMarkets + (Holds(id)' - Holds(id))
    BY <1>3, <1>5, InMarketsChanged
<1>10. Queued' = Queued
    BY <1>4 DEF Queued
<1>11. Balances' = Balances + ((players[Admin].balance + fees) - players[Admin].balance)
  <2>1. players[Admin].balance \in Nat
    BY BalancesType
  <2>2. add_balance(players[Admin].balance, fees) = players[Admin].balance + fees
    BY <1>7, SupplyParts
  <2>3. StorePlayer(Admin, players[Admin].balance + fees)
    BY <2>2 DEF CollectedFrom, fees
  <2>4. players[Admin].balance + fees \in Nat
    BY <1>7, <2>1
  <2> QED BY <2>3, <2>4, BalancesStored
<1>12. players[Admin].balance \in Nat
    BY BalancesType
<1> QED BY <1>7, <1>8, <1>9, <1>10, <1>11, <1>12, SupplyParts, SupplyAfter

\* A withdrawal moves its amount from the balance to the queue.
LEMMA WithdrawnMoney ==
    ASSUME TypeOK, SharesBacked, FewPlayers, SupplyFits,
           NEW pid \in DOMAIN players, NEW amount, WithdrawnBy(pid, amount)
    PROVE  Supply' = Supply
<1>1. players[pid].balance \in Nat
    BY BalancesType
<1>2. amount \in Nat /\ players[pid].balance - amount \in Nat
    BY <1>1 DEF WithdrawnBy
<1>3. Balances' = Balances + ((players[pid].balance - amount) - players[pid].balance)
    BY <1>2, BalancesStored DEF WithdrawnBy
<1>4. Queued' = Queued + amount
    BY <1>2, QueuedType DEF WithdrawnBy
<1>5. InMarkets' = InMarkets
    BY InMarketsSame DEF WithdrawnBy
<1> QED BY <1>1, <1>2, <1>3, <1>4, <1>5, SupplyParts, SupplyAfter

-----------------------------------------------------------------------------
(* What a step does to the supply. *)

\* The totals of a market that a sale lowers.
Falls(id, side) == markets'[id].total[side] < markets[id].total[side]

\* What the money lemmas need of a state.
Accounted == TypeOK /\ Backed /\ FewPlayers /\ ClaimedResolved /\ SupplyFits

\* A bet only raises totals.
LEMMA BoughtTotals ==
    ASSUME TypeOK, Backed, NEW pid \in DOMAIN players, NEW id \in DOMAIN markets,
           NEW type \in 0 .. 1, NEW amount, NEW n, NEW m,
           BoughtBy(pid, id, type, amount, n, m),
           NEW i \in DOMAIN markets, NEW side \in Sides
    PROVE  ~Falls(i, side)
<1>1. /\ SlotOf(pid) \in Slots /\ SideOf(type) \in Sides
      /\ n \in Nat /\ markets[i].total[side] \in Nat
  <2>1. markets[i].total \in [Sides -> Word] /\ pid \in Pids
    BY Reading DEF MarketData
  <2> QED BY <2>1, SlotType, LimitsAssumption DEF SideOf, Sides, BoughtBy, Word
<1>2. Exchanged(SlotOf(pid), id, SideOf(type), n)
    BY BoughtShares DEF Backed
<1>3. markets'[i].total[side] = IF i = id /\ side = SideOf(type)
                                THEN markets[i].total[side] + n
                                ELSE markets[i].total[side]
    BY <1>1, <1>2, ExchangedShares
<1> QED BY <1>1, <1>3 DEF Falls

\* A sale lowers one total of its market.
LEMMA SoldTotals ==
    ASSUME TypeOK, Backed, NEW pid \in DOMAIN players, NEW id \in DOMAIN markets,
           NEW type \in 0 .. 1, NEW payout, NEW n, NEW m,
           SoldBy(pid, id, type, payout, n, m)
    PROVE  /\ Falls(id, SideOf(type))
           /\ \A i \in DOMAIN markets, side \in Sides : Falls(i, side) => i = id
<1>1. /\ pid \in Pids /\ SlotOf(pid) \in Slots /\ SideOf(type) \in Sides
      /\ id \in MarketIds
      /\ \A i \in DOMAIN markets, side \in Sides : markets[i].total[side] \in Nat
  <2>1. pid \in Pids /\ id \in MarketIds
        /\ \A i \in DOMAIN markets : markets[i].total \in [Sides -> Word]
    BY Reading DEF MarketData
  <2> QED BY <2>1, SlotType, LimitsAssumption DEF SideOf, Sides, Word
<1>2. -n \in Int /\ -n < 0
  <2>1. positions[SlotOf(pid)][id].shares[SideOf(type)] \in Nat
    BY <1>1, HeldType
  <2> QED BY <2>1 DEF SoldBy
<1>3. Exchanged(SlotOf(pid), id, SideOf(type), -n)
    BY SoldShares
<1>4. \A i \in DOMAIN markets, side \in Sides :
        markets'[i].total[side] = IF i = id /\ side = SideOf(type)
                                  THEN markets[i].total[side] + (-n)
                                  ELSE markets[i].total[side]
    BY <1>1, <1>2, <1>3, ExchangedShares
<1> QED BY <1>1, <1>2, <1>4 DEF Falls

\* A step that leaves the totals alone lowers none.
LEMMA KeptTotals ==
    ASSUME TypeOK, \A id \in DOMAIN markets : markets'[id].total = markets[id].total,
           NEW id \in DOMAIN markets, NEW side \in Sides
    PROVE  ~Falls(id, side)
<1>1. markets[id].total[side] \in Nat
    BY Reading, LimitsAssumption DEF MarketData, Word
<1> QED BY <1>1 DEF Falls

\* Every step funds a player, or is a sale that issues its fee, or conserves
\* the supply and lowers no total.
LEMMA MoneyStep ==
    ASSUME Accounted, TypeOK', Backed', [Command]_vars
    PROVE  \/ Funded
           \/ \E id \in DOMAIN markets :
                /\ \E side \in Sides : Falls(id, side)
                /\ \A i \in DOMAIN markets, side \in Sides : Falls(i, side) => i = id
                /\ Supply' = Supply + VaultGain(id)
           \/ /\ Supply' = Supply
              /\ \A id \in DOMAIN markets, side \in Sides : ~Falls(id, side)
<1>1. TypeOK /\ Backed /\ SharesBacked /\ FewPlayers /\ ClaimedResolved /\ SupplyFits
    BY DEF Accounted, Backed
<1>2. HoldsNatural'
  <2>1. SharesBacked'
    BY DEF Backed
  <2> QED BY <2>1, HoldsAreNatural, PTL
<1>3. CASE Bought
  <2>1. PICK pid \in DOMAIN players, id \in DOMAIN markets, type \in 0 .. 1 :
            \E amount, n, m : BoughtBy(pid, id, type, amount, n, m)
    BY <1>3 DEF Bought
  <2>2. PICK amount, n, m : BoughtBy(pid, id, type, amount, n, m)
    BY <2>1
  <2> QED BY <1>1, <1>2, <2>2, BoughtMoney, BoughtTotals
<1>4. CASE Sold
  <2>1. PICK pid \in DOMAIN players, id \in DOMAIN markets, type \in 0 .. 1 :
            \E payout, n, m : SoldBy(pid, id, type, payout, n, m)
    BY <1>4 DEF Sold
  <2>2. PICK payout, n, m : SoldBy(pid, id, type, payout, n, m)
    BY <2>1
  <2>3. SideOf(type) \in Sides
    BY DEF SideOf, Sides
  <2> QED BY <1>1, <1>2, <2>2, <2>3, SoldMoney, SoldTotals
<1>5. CASE Opened
  <2>1. \A id \in DOMAIN markets : markets'[id].total = markets[id].total
    BY <1>1, <1>5, OpenedMarkets
  <2> QED BY <1>1, <1>5, <2>1, OpenedMoney, KeptTotals
<1>6. CASE Closed
  <2>1. \A id \in DOMAIN markets : markets'[id].total = markets[id].total
    <3>1. PICK id \in DOMAIN markets, outcome \in 0 .. 1 :
            markets' = [markets EXCEPT ![id] = resolve(markets[id], outcome)]
      BY <1>6 DEF Closed
    <3>2. \A i \in DOMAIN markets : markets[i] \in MarketData
      BY <1>1, Reading
    <3> QED BY <1>1, <3>1, <3>2 DEF TypeOK, resolve, MarketData
  <2> QED BY <1>1, <1>2, <1>6, <2>1, ClosedMoney, KeptTotals
<1>7. CASE Claimed
  <2>1. PICK pid \in DOMAIN players, id \in DOMAIN markets : ClaimedBy(pid, id)
    BY <1>7 DEF Claimed
  <2>2. markets' = markets
    BY <2>1 DEF ClaimedBy
  <2> QED BY <1>1, <1>2, <2>1, <2>2, ClaimedMoney, KeptTotals
<1>8. CASE Collected
  <2>1. PICK id \in DOMAIN markets : CollectedFrom(id)
    BY <1>8 DEF Collected
  <2>2. \A i \in DOMAIN markets : markets'[i].total = markets[i].total
    <3>1. \A i \in DOMAIN markets : markets[i] \in MarketData
      BY <1>1, Reading
    <3> QED BY <1>1, <2>1, <3>1 DEF TypeOK, CollectedFrom, MarketData
  <2>3. Admin \in DOMAIN players
    BY <1>8 DEF Collected
  <2> QED BY <1>1, <1>2, <2>1, <2>2, <2>3, CollectedMoney, KeptTotals
<1>9. CASE Withdrawn
  <2>1. PICK pid \in DOMAIN players : \E amount : WithdrawnBy(pid, amount)
    BY <1>9 DEF Withdrawn
  <2>2. PICK amount : WithdrawnBy(pid, amount)
    BY <2>1
  <2>3. markets' = markets
    BY <2>2 DEF WithdrawnBy
  <2> QED BY <1>1, <2>2, <2>3, WithdrawnMoney, KeptTotals
<1>10. CASE Idle
  <2>1. Supply' = Supply
    BY <1>10, InMarketsSame, SupplyAfter
       DEF Idle, Supply, Balances, Queued, InMarkets
  <2> QED BY <1>1, <1>10, <2>1, KeptTotals DEF Idle
<1> QED BY <1>1, <1>3, <1>4, <1>5, <1>6, <1>7, <1>8, <1>9, <1>10, StepLedger
           DEF Backed

\* While all the tokens there are fit in a word, only installations, deposits
\* and sales change how many there are: no bet, claim, resolution, fee
\* withdrawal or withdrawal of any player makes or loses one.
THEOREM MoneyIsConserved == Spec /\ []SupplyFits => MoneyConserved
<1>1. Accounted /\ TypeOK' /\ Backed' /\ [Command]_vars
        => [~Issuing => Supply' = Supply]_vars
  <2> SUFFICES ASSUME Accounted, TypeOK', Backed', [Command]_vars, ~Issuing
               PROVE  Supply' = Supply
    OBVIOUS
  <2>1. ~Funded
    BY DEF Funded, Issuing
  <2>2. \A id \in DOMAIN markets, side \in Sides : ~Falls(id, side)
    BY DEF Issuing, Falls
  <2> QED BY <2>1, <2>2, MoneyStep
<1>2. TypeOK /\ Backed /\ FewPlayers /\ ClaimedResolved /\ SupplyFits => Accounted
    BY DEF Accounted
<1> QED BY <1>1, <1>2, TypeCorrect, AlwaysBacked, FewPlayersAlways,
           ClaimedOnlyResolved, NextIsCommand, PTL DEF Spec, MoneyConserved

\* While all the tokens there are fit in a word, a sale issues exactly the fee
\* that it books: sell_shares pays the net payout out of the pool and adds the
\* fee to the vault on top of it.
THEOREM SalesIssueTheirFee == Spec /\ []SupplyFits => SaleIssuesItsFee
<1>1. Accounted /\ TypeOK' /\ Backed' /\ [Command]_vars
        => [\A id \in DOMAIN markets, side \in Sides :
                markets'[id].total[side] < markets[id].total[side]
                    => Supply' = Supply + VaultGain(id)]_vars
  <2> SUFFICES ASSUME Accounted, TypeOK', Backed', [Command]_vars,
                      NEW id \in DOMAIN markets, NEW side \in Sides,
                      markets'[id].total[side] < markets[id].total[side]
               PROVE  Supply' = Supply + VaultGain(id)
    OBVIOUS
  <2>1. Falls(id, side)
    BY DEF Falls
  <2>2. ~Funded
    BY <2>1, KeptTotals DEF Funded, Accounted
  <2> QED BY <2>1, <2>2, MoneyStep
<1>2. TypeOK /\ Backed /\ FewPlayers /\ ClaimedResolved /\ SupplyFits => Accounted
    BY DEF Accounted
<1> QED BY <1>1, <1>2, TypeCorrect, AlwaysBacked, FewPlayersAlways,
           ClaimedOnlyResolved, NextIsCommand, PTL DEF Spec, SaleIssuesItsFee

=============================================================================
