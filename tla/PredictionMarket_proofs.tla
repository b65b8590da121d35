----------------------- MODULE PredictionMarket_proofs -----------------------
(* Proofs about the rollup program for every value of the constants: its     *)
(* state stays typed, what is decided stays decided, money and shares move   *)
(* by a nonce, and it implements MarketLife.                                 *)
EXTENDS MarketProperties, Market_proofs, Sums_proofs, SequenceTheorems, TLAPS

-----------------------------------------------------------------------------
(* Operators. *)

\* A balance stays a word whatever is added to it.
LEMMA AddBalanceType ==
    ASSUME NEW balance \in Word, NEW amount \in Int
    PROVE  add_balance(balance, amount) \in Word
<1>1. balance + amount \in Int
    BY LimitsAssumption DEF Word
<1> QED BY <1>1, WrapType DEF add_balance

\* The key of a player's positions is a slot.
LEMMA SlotType ==
    ASSUME NEW pid \in Pids
    PROVE  SlotOf(pid) \in Slots
<1>1. U32 \in Nat /\ U32 > 0 /\ pid[1] \in Nat /\ pid[2] \in Nat
    BY PidsAssumption
<1> DEFINE h == pid[1] % U32
           l == pid[2] % U32
<1>2. h \in 0 .. U32 - 1 /\ l \in 0 .. U32 - 1
    BY <1>1
<1> HIDE DEF h, l
<1>3. h * U32 \in Nat /\ h * U32 <= (U32 - 1) * U32
    BY <1>1, <1>2
<1>4. (U32 - 1) * U32 = U32 * U32 - U32
    BY <1>1
<1>5. h * U32 + l \in 0 .. U32 * U32 - 1
    BY <1>1, <1>2, <1>3, <1>4
<1> QED BY <1>5 DEF SlotOf, Slots, h, l

\* Storing a new position in a slot keeps the table of positions a table.
LEMMA PositionStored ==
    ASSUME positions \in [Slots -> [MarketIds -> PlayerMarketPosition]],
           NEW slot \in Slots, NEW id \in MarketIds,
           NEW p \in PlayerMarketPosition
    PROVE  [positions EXCEPT ![slot][id] = p]
             \in [Slots -> [MarketIds -> PlayerMarketPosition]]
<1>1. [positions[slot] EXCEPT ![id] = p] \in [MarketIds -> PlayerMarketPosition]
    OBVIOUS
<1> QED BY <1>1

\* Storing new shares of one side.
LEMMA SharesStored ==
    ASSUME positions \in [Slots -> [MarketIds -> PlayerMarketPosition]],
           NEW slot \in Slots, NEW id \in MarketIds,
           NEW side \in Sides, NEW n \in Word
    PROVE  [positions EXCEPT ![slot][id].shares[side] = n]
             \in [Slots -> [MarketIds -> PlayerMarketPosition]]
<1> DEFINE p == [positions[slot][id] EXCEPT !.shares[side] = n]
<1>1. positions[slot][id] \in PlayerMarketPosition
    OBVIOUS
<1>2. positions[slot][id].shares \in [Sides -> Word]
    BY <1>1 DEF PlayerMarketPosition
<1>3. [positions[slot][id].shares EXCEPT ![side] = n] \in [Sides -> Word]
    BY <1>2
<1>4. p \in PlayerMarketPosition
    BY <1>1, <1>3 DEF PlayerMarketPosition
<1>5. [positions EXCEPT ![slot][id] = p]
        \in [Slots -> [MarketIds -> PlayerMarketPosition]]
    BY <1>4, PositionStored
<1> QED BY <1>5

-----------------------------------------------------------------------------
(* Typing of the program. *)

\* Storing the command's player with a balance that is a word.
LEMMA PlayerStored ==
    ASSUME TypeOK, NEW pid \in DOMAIN players, NEW balance \in Word,
           StorePlayer(pid, balance)
    PROVE  /\ DOMAIN players' = DOMAIN players
           /\ players' \in [DOMAIN players -> PlayerRecord]
<1>1. players[pid] \in PlayerRecord
    BY DEF TypeOK
<1>2. stored(pid, balance) \in PlayerRecord
    BY <1>1 DEF stored, PlayerRecord
<1> QED BY <1>2 DEF StorePlayer, TypeOK

\* The reading of a stored market, player or position.
LEMMA Reading ==
    ASSUME TypeOK
    PROVE  /\ \A pid \in DOMAIN players :
                /\ pid \in Pids
                /\ players[pid].balance \in Word
                /\ players[pid].nonce \in Nat
           /\ \A id \in DOMAIN markets : /\ id \in MarketIds
                                         /\ id \in 1 .. Len(markets)
                                         /\ markets[id] \in MarketData
           /\ \A slot \in Slots, id \in MarketIds :
                /\ positions[slot][id] \in PlayerMarketPosition
                /\ positions[slot][id].shares \in [Sides -> Word]
<1>1. \A pid \in DOMAIN players : pid \in Pids /\ players[pid] \in PlayerRecord
    BY DEF TypeOK
<1>2. \A id \in DOMAIN markets : id \in 1 .. Len(markets)
    BY DEF TypeOK
<1>3. \A id \in DOMAIN markets : id \in MarketIds
    BY <1>2, BoundsAssumption DEF TypeOK, MarketIds
<1>4. \A id \in DOMAIN markets : markets[id] \in MarketData
    BY <1>2, ElementOfSeq DEF TypeOK
<1>5. \A slot \in Slots, id \in MarketIds :
            positions[slot][id] \in PlayerMarketPosition
    BY DEF TypeOK
<1> QED BY <1>1, <1>2, <1>3, <1>4, <1>5 DEF PlayerRecord, PlayerMarketPosition

\* The initial state is typed.
LEMMA InitType == Init => TypeOK
<1> SUFFICES ASSUME Init PROVE TypeOK
    OBVIOUS
<1>1. 0 \in Word
    BY LimitsAssumption DEF Word
<1>2. NoPosition \in PlayerMarketPosition
    BY <1>1 DEF NoPosition, PlayerMarketPosition
<1>3. positions \in [Slots -> [MarketIds -> PlayerMarketPosition]]
    BY <1>2 DEF Init
<1>4. /\ markets \in Seq(MarketData) /\ Len(markets) = 0
      /\ settlement \in Seq(WithdrawInfo)
    BY DEF Init
<1>5. DOMAIN players = {}
    BY DEF Init
<1>6. players \in [DOMAIN players -> PlayerRecord]
    BY <1>5 DEF Init
<1> QED BY <1>1, <1>3, <1>4, <1>5, <1>6, BoundsAssumption DEF TypeOK, Init

\* The counters after a success, and after a failure.
LEMMA CountersType ==
    ASSUME TypeOK, NEW x, Accept(x) \/ Fail(x)
    PROVE  txsize' \in Nat /\ txcounter' \in Nat
BY DEF TypeOK, Accept, Fail

\* A rejected command keeps the typing.
LEMMA RejectType ==
    ASSUME TypeOK, NEW e, Reject(e)
    PROVE  TypeOK'
BY DEF TypeOK, Reject, Fail

\* A tick keeps the typing: the counter wraps around.
LEMMA TickType ==
    ASSUME TypeOK, Tick
    PROVE  TypeOK'
<1>1. counter + 1 \in Int
    BY LimitsAssumption DEF TypeOK, Word
<1>2. counter' \in Word
    BY <1>1, WrapType DEF Tick
<1> QED BY <1>2 DEF TypeOK, Tick

\* A new player starts with nonce 0 and a balance that is a word.
LEMMA InstallPlayerType ==
    ASSUME TypeOK, NEW pid \in Pids, InstallPlayer(pid)
    PROVE  TypeOK'
<1>1. CASE Reject(ERROR_PLAYER_ALREADY_EXISTS)
    BY <1>1, RejectType
<1>2. CASE pid \notin DOMAIN players /\ ~Reject(ERROR_PLAYER_ALREADY_EXISTS)
  <2> DEFINE new == [nonce |-> 0, balance |-> NEW_PLAYER_INITIAL_BALANCE]
  <2>1. new \in PlayerRecord
    BY InputsAssumption DEF PlayerRecord
  <2> HIDE DEF new
  <2>2. players' = [p \in DOMAIN players \cup {pid} |->
                       IF p = pid THEN new ELSE players[p]]
    BY <1>2 DEF InstallPlayer, new
  <2>3. /\ DOMAIN players' \subseteq Pids
        /\ players' \in [DOMAIN players' -> PlayerRecord]
    BY <2>1, <2>2 DEF TypeOK
  <2>4. txsize' \in Nat /\ txcounter' \in Nat
    BY <1>2, CountersType DEF InstallPlayer
  <2> QED BY <1>2, <2>3, <2>4 DEF InstallPlayer, TypeOK
<1> QED BY <1>1, <1>2 DEF InstallPlayer

\* A withdrawal takes no more than the balance and queues a word.
LEMMA WithdrawType ==
    ASSUME TypeOK, NEW pid \in Pids, NEW nonce,
           NEW amount \in Word, Withdraw(pid, nonce, amount)
    PROVE  TypeOK'
<1>1. pid \in DOMAIN players /\ amount \in Word
    BY InputsAssumption DEF Withdraw, check_nonce
<1>2. players[pid].balance - amount \in Word
    BY <1>1, Reading, LimitsAssumption DEF Withdraw, can_withdraw, Word
<1>3. /\ DOMAIN players' = DOMAIN players
      /\ players' \in [DOMAIN players -> PlayerRecord]
    BY <1>1, <1>2, PlayerStored DEF Withdraw
<1>4. settlement' \in Seq(WithdrawInfo)
  <2>1. [amount |-> amount] \in WithdrawInfo
    BY <1>1 DEF WithdrawInfo
  <2> QED BY <2>1, AppendProperties DEF Withdraw, TypeOK
<1>5. txsize' \in Nat /\ txcounter' \in Nat
    BY CountersType DEF Withdraw
<1> QED BY <1>3, <1>4, <1>5 DEF Withdraw, TypeOK

\* A deposit wraps around; the administrator's own balance is written back.
LEMMA DepositType ==
    ASSUME TypeOK, NEW nonce, NEW target \in Pids,
           NEW amount \in DepositAmounts, Deposit(nonce, target, amount)
    PROVE  TypeOK'
<1>1. CASE target \notin DOMAIN players
    BY <1>1, RejectType DEF Deposit
<1>2. CASE target \in DOMAIN players
  <2>1. amount \in Int
    BY InputsAssumption, LimitsAssumption DEF Word
  <2>2. Admin \in DOMAIN players
    BY DEF Deposit, check_nonce
  <2>3. add_balance(players[target].balance, amount) \in Word
    BY <1>2, <2>1, Reading, AddBalanceType
  <2>4. stored(Admin, players[Admin].balance) \in PlayerRecord
    BY <2>2, Reading DEF stored, PlayerRecord
  <2>5. [players[target] EXCEPT !.balance =
            add_balance(players[target].balance, amount)] \in PlayerRecord
    BY <1>2, <2>3 DEF TypeOK, PlayerRecord
  <2> DEFINE first == [players EXCEPT ![target].balance = add_balance(@, amount)]
  <2>6. first \in [DOMAIN players -> PlayerRecord]
    BY <2>5 DEF TypeOK
  <2>7. players' = [first EXCEPT ![Admin] = stored(Admin, players[Admin].balance)]
    BY <1>2 DEF Deposit
  <2>8. players' \in [DOMAIN players -> PlayerRecord]
    BY <2>4, <2>6, <2>7
  <2>9. txsize' \in Nat /\ txcounter' \in Nat
    BY <1>2, CountersType DEF Deposit
  <2> QED BY <1>2, <2>8, <2>9 DEF Deposit, TypeOK
<1> QED BY <1>1, <1>2

\* A bet is rejected, or stores what the handler checked: a balance that does
\* not go below zero, the market of place_bet and a position that wraps.
LEMMA BetType ==
    ASSUME TypeOK, NEW pid \in Pids, NEW nonce, NEW id,
           NEW type \in 0 .. 2, NEW amount \in BetAmounts,
           Bet(pid, nonce, id, type, amount)
    PROVE  TypeOK'
<1> DEFINE e      == bet_error(pid, id, type, amount)
           side   == SideOf(type)
           placed == place_bet(markets[id], side, amount)
           slot   == SlotOf(pid)
<1>1. CASE e # NoError
    BY <1>1, RejectType DEF Bet
<1>2. CASE e = NoError
  <2>1. side \in Sides /\ slot \in Slots
    BY SlotType DEF SideOf, Sides
  <2>2. pid \in DOMAIN players
    BY DEF Bet, check_nonce
  <2>3. amount \in Word
    BY InputsAssumption
  <2>4. id \in DOMAIN markets /\ id \in MarketIds
    BY <1>2, Reading DEF bet_error, ensure_market_active, MarketExists, NoError,
                ERROR_MARKET_NOT_ACTIVE, ERROR_INVALID_BET_AMOUNT,
                ERROR_INVALID_BET_TYPE
  <2>5. ~(players[pid].balance < amount)
    BY <1>2 DEF bet_error, ensure_market_active, NoError,
                ERROR_MARKET_NOT_ACTIVE, ERROR_INVALID_BET_AMOUNT,
                ERROR_INVALID_BET_TYPE, ERROR_INSUFFICIENT_BALANCE
  <2>6. players[pid].balance - amount \in Word
    BY <2>2, <2>3, <2>5, Reading, LimitsAssumption DEF Word
  <2>7. placed.market \in MarketData /\ placed.value \in 0 .. MAX_SHARES
    BY <2>1, <2>3, <2>4, Reading, PlacedType
  <2> DEFINE n == (positions[slot][id].shares[side] + placed.value) % U64
  <2>8. n \in Word
    <3>1. positions[slot][id].shares[side] \in Word
      BY <2>1, <2>4, Reading
    <3> QED BY <2>7, <3>1, WrapType, LimitsAssumption DEF Word
  <2> HIDE DEF e, side, placed, slot
  <2>9. /\ StorePlayer(pid, players[pid].balance - amount)
        /\ markets' = [markets EXCEPT ![id] = placed.market]
        /\ positions' = [positions EXCEPT ![slot][id].shares[side] = n]
        /\ \E events : Accept(events)
        /\ UNCHANGED <<counter, settlement>>
    BY <1>2 DEF Bet, e, side, placed, slot
  <2> HIDE DEF n
  <2>10. /\ DOMAIN players' = DOMAIN players
         /\ players' \in [DOMAIN players -> PlayerRecord]
    BY <2>2, <2>6, <2>9, PlayerStored
  <2>11. markets' \in Seq(MarketData) /\ Len(markets') <= MaxMarkets
    BY <2>4, <2>7, <2>9, Reading, ExceptSeq DEF TypeOK
  <2>12. positions' \in [Slots -> [MarketIds -> PlayerMarketPosition]]
    BY <2>1, <2>4, <2>8, <2>9, SharesStored DEF TypeOK
  <2>13. txsize' \in Nat /\ txcounter' \in Nat
    BY <2>9, CountersType
  <2> QED BY <2>9, <2>10, <2>11, <2>12, <2>13 DEF TypeOK
<1> QED BY <1>1, <1>2

\* A sale is rejected, or stores a position that does not go below zero.
LEMMA SellType ==
    ASSUME TypeOK, NEW pid \in Pids, NEW nonce, NEW id,
           NEW type \in 0 .. 2, NEW shares \in SellAmounts,
           Sell(pid, nonce, id, type, shares)
    PROVE  TypeOK'
<1> DEFINE e      == sell_error(pid, id, type, shares)
           side   == SideOf(type)
           sold   == sell_shares(markets[id], type, shares)
           slot   == SlotOf(pid)
<1>1. CASE e # NoError
    BY <1>1, RejectType DEF Sell
<1>2. CASE e = NoError
  <2>1. side \in Sides /\ slot \in Slots
    BY SlotType DEF SideOf, Sides
  <2>2. pid \in DOMAIN players
    BY DEF Sell, check_nonce
  <2>3. shares \in Word
    BY InputsAssumption
  <2>4. id \in DOMAIN markets /\ id \in MarketIds
    BY <1>2, Reading DEF sell_error, ensure_market_active, MarketExists, NoError,
                ERROR_MARKET_NOT_ACTIVE, ERROR_INVALID_BET_AMOUNT
  <2>5. ~(positions[slot][id].shares[side] < shares)
    BY <1>2 DEF sell_error, ensure_market_active, NoError,
                ERROR_MARKET_NOT_ACTIVE, ERROR_INVALID_BET_AMOUNT,
                ERROR_INSUFFICIENT_BALANCE
  <2>6. sold.market \in MarketData /\ sold.value \in Int
    BY <2>3, <2>4, Reading, SoldType
  <2> DEFINE n       == positions[slot][id].shares[side] - shares
             balance == add_balance(players[pid].balance, sold.value)
  <2>7. n \in Word
    <3>1. positions[slot][id].shares[side] \in Word
      BY <2>1, <2>4, Reading
    <3> QED BY <2>3, <2>5, <3>1, LimitsAssumption DEF Word
  <2>8. balance \in Word
    BY <2>2, <2>6, Reading, AddBalanceType
  <2> HIDE DEF e, side, sold, slot
  <2>9. /\ StorePlayer(pid, balance)
        /\ markets' = [markets EXCEPT ![id] = sold.market]
        /\ positions' = [positions EXCEPT ![slot][id].shares[side] = n]
        /\ \E events : Accept(events)
        /\ UNCHANGED <<counter, settlement>>
    BY <1>2 DEF Sell, e, side, sold, slot
  <2> HIDE DEF n, balance
  <2>10. /\ DOMAIN players' = DOMAIN players
         /\ players' \in [DOMAIN players -> PlayerRecord]
    BY <2>2, <2>8, <2>9, PlayerStored
  <2>11. markets' \in Seq(MarketData) /\ Len(markets') <= MaxMarkets
    BY <2>4, <2>6, <2>9, Reading, ExceptSeq DEF TypeOK
  <2>12. positions' \in [Slots -> [MarketIds -> PlayerMarketPosition]]
    BY <2>1, <2>4, <2>7, <2>9, SharesStored DEF TypeOK
  <2>13. txsize' \in Nat /\ txcounter' \in Nat
    BY <2>9, CountersType
  <2> QED BY <2>9, <2>10, <2>11, <2>12, <2>13 DEF TypeOK
<1> QED BY <1>1, <1>2

\* A creation appends market data while there is room for a market.
LEMMA CreateMarketType ==
    ASSUME TypeOK, NEW nonce, NEW offer \in Offers,
           CreateMarket(nonce, offer)
    PROVE  TypeOK'
<1> DEFINE m == new_with_liquidity(absolute(offer))
<1>1. CASE create_error(absolute(offer)) # NoError
    BY <1>1, RejectType DEF CreateMarket
<1>2. CASE create_error(absolute(offer)) = NoError
  <2>1. offer \in CreateArgs /\ counter \in Word
    BY InputsAssumption DEF TypeOK
  <2>2. \A t \in Word : (counter + t) % U64 \in Word
    BY <2>1, WrapType, LimitsAssumption DEF Word
  <2>3. absolute(offer) \in CreateArgs
    BY <2>1, <2>2 DEF absolute, CreateArgs
  <2>4. m \in MarketData
    BY <2>3, NewMarketType
  <2> HIDE DEF m
  <2>5. /\ Len(markets) < MaxMarkets
        /\ markets' = Append(markets, m)
        /\ \E events : Accept(events)
        /\ UNCHANGED <<players, positions, counter, settlement>>
    BY <1>2 DEF CreateMarket, m
  <2>6. markets' \in Seq(MarketData) /\ Len(markets') = Len(markets) + 1
    BY <2>4, <2>5, AppendProperties DEF TypeOK
  <2>7. Len(markets') <= MaxMarkets
    BY <2>5, <2>6, BoundsAssumption DEF TypeOK
  <2>8. txsize' \in Nat /\ txcounter' \in Nat
    BY <2>5, CountersType
  <2> QED BY <2>5, <2>6, <2>7, <2>8 DEF TypeOK
<1> QED BY <1>1, <1>2

\* A resolution keeps the typing of the market it replaces.
LEMMA ResolveType ==
    ASSUME TypeOK, NEW nonce, NEW id,
           NEW outcome \in 0 .. 1, Resolve(nonce, id, outcome)
    PROVE  TypeOK'
<1> DEFINE m == resolve(markets[id], outcome)
<1>1. CASE resolve_error(id) # NoError
    BY <1>1, RejectType DEF Resolve
<1>2. CASE resolve_error(id) = NoError
  <2>1. id \in DOMAIN markets
    BY <1>2 DEF resolve_error, MarketExists, NoError, ERROR_MARKET_NOT_ACTIVE
  <2>2. m \in MarketData
    BY <2>1, Reading, ResolvedType
  <2> HIDE DEF m
  <2>3. /\ markets' = [markets EXCEPT ![id] = m]
        /\ \E events : Accept(events)
        /\ UNCHANGED <<players, positions, counter, settlement>>
    BY <1>2 DEF Resolve, m
  <2>4. markets' \in Seq(MarketData) /\ Len(markets') <= MaxMarkets
    BY <2>1, <2>2, <2>3, Reading, ExceptSeq DEF TypeOK
  <2>5. txsize' \in Nat /\ txcounter' \in Nat
    BY <2>3, CountersType
  <2> QED BY <2>3, <2>4, <2>5 DEF TypeOK
<1> QED BY <1>1, <1>2

\* A claim keeps the typing whether its payout is an error, zero or positive.
LEMMA ClaimType ==
    ASSUME TypeOK, NEW pid \in Pids, NEW nonce, NEW id,
           Claim(pid, nonce, id)
    PROVE  TypeOK'
<1> DEFINE slot   == SlotOf(pid)
           payout == calculate_payout(markets[id], positions[slot][id].shares)
           p      == [positions[slot][id] EXCEPT !.claimed = TRUE]
<1>1. CASE claim_error(pid, id) # NoError
    BY <1>1, RejectType DEF Claim
<1>2. CASE claim_error(pid, id) = NoError
  <2>1. slot \in Slots /\ pid \in DOMAIN players
    BY SlotType DEF Claim, check_nonce
  <2>2. id \in DOMAIN markets /\ id \in MarketIds
    BY <1>2, Reading DEF claim_error, MarketExists, NoError, ERROR_MARKET_NOT_ACTIVE
  <2>3. payout \in Int
    BY <2>1, <2>2, Reading, PayoutType
  <2>4. p \in PlayerMarketPosition
    BY <2>1, <2>2, Reading DEF PlayerMarketPosition
  <2> HIDE DEF slot, payout
  <2>5. positions' = [positions EXCEPT ![slot][id] = p]
    BY <1>2 DEF Claim, slot
  <2> HIDE DEF p
  <2>6. positions' \in [Slots -> [MarketIds -> PlayerMarketPosition]]
    BY <2>1, <2>2, <2>4, <2>5, PositionStored DEF TypeOK
  <2>7. UNCHANGED <<markets, counter, settlement>>
    BY <1>2 DEF Claim
  <2>8. CASE payout <= 0
    <3>1. UNCHANGED players /\ \E e : Fail(e)
      BY <1>2, <2>3, <2>8 DEF Claim, slot, payout
    <3>2. txsize' \in Nat /\ txcounter' \in Nat
      BY <3>1, CountersType
    <3> QED BY <2>6, <2>7, <3>1, <3>2 DEF TypeOK
  <2>9. CASE payout > 0
    <3> DEFINE balance == add_balance(players[pid].balance, payout)
    <3>1. balance \in Word
      BY <2>1, <2>3, Reading, AddBalanceType
    <3>2. StorePlayer(pid, balance) /\ \E events : Accept(events)
      BY <1>2, <2>3, <2>9 DEF Claim, slot, payout
    <3> HIDE DEF balance
    <3>3. /\ DOMAIN players' = DOMAIN players
          /\ players' \in [DOMAIN players -> PlayerRecord]
      BY <2>1, <3>1, <3>2, PlayerStored
    <3>4. txsize' \in Nat /\ txcounter' \in Nat
      BY <3>2, CountersType
    <3> QED BY <2>6, <2>7, <3>3, <3>4 DEF TypeOK
  <2> QED BY <2>3, <2>8, <2>9
<1> QED BY <1>1, <1>2

\* A fee withdrawal empties a vault and stores the administrator.
LEMMA WithdrawFeesType ==
    ASSUME TypeOK, NEW nonce, NEW id,
           WithdrawFees(nonce, id)
    PROVE  TypeOK'
<1>1. CASE withdraw_fees_error(id) # NoError
    BY <1>1, RejectType DEF WithdrawFees
<1>2. CASE withdraw_fees_error(id) = NoError
  <2> DEFINE m       == [markets[id] EXCEPT !.total_fees_collected = 0]
             balance == add_balance(players[Admin].balance,
                                    markets[id].total_fees_collected)
  <2>1. id \in DOMAIN markets /\ Admin \in DOMAIN players
    BY <1>2 DEF withdraw_fees_error, MarketExists, NoError,
                ERROR_MARKET_NOT_ACTIVE, WithdrawFees, check_nonce
  <2>2. markets[id] \in MarketData /\ 0 \in Word
    BY <2>1, Reading, LimitsAssumption DEF Word
  <2>3. m \in MarketData
    BY <2>2 DEF MarketData
  <2>4. balance \in Word
    <3>1. markets[id].total_fees_collected \in Int
      BY <2>2, LimitsAssumption DEF MarketData, Word
    <3> QED BY <2>1, <3>1, Reading, AddBalanceType
  <2>5. /\ StorePlayer(Admin, balance)
        /\ markets' = [markets EXCEPT ![id] = m]
        /\ \E events : Accept(events)
        /\ UNCHANGED <<positions, counter, settlement>>
    BY <1>2 DEF WithdrawFees
  <2> HIDE DEF m, balance
  <2>6. markets' \in Seq(MarketData) /\ Len(markets') <= MaxMarkets
    BY <2>1, <2>3, <2>5, Reading, ExceptSeq DEF TypeOK
  <2>7. /\ DOMAIN players' = DOMAIN players
        /\ players' \in [DOMAIN players -> PlayerRecord]
    BY <2>1, <2>4, <2>5, PlayerStored
  <2>8. txsize' \in Nat /\ txcounter' \in Nat
    BY <2>5, CountersType
  <2> QED BY <2>5, <2>6, <2>7, <2>8 DEF TypeOK
<1> QED BY <1>1, <1>2

\* What may reach process(): the commands of Next with any nonce, any market id
\* and any amount to withdraw.
Command ==
    \/ Tick
    \/ \E pid \in Pids :
        \/ InstallPlayer(pid)
        \/ UnknownPlayer(pid)
        \/ \E nonce :
            \/ \E amount \in Word : Withdraw(pid, nonce, amount)
            \/ \E amount \in DepositAmounts : Deposit(nonce, pid, amount)
            \/ \E id :
                \/ Claim(pid, nonce, id)
                \/ \E type \in 0 .. 2 :
                    \/ \E amount \in BetAmounts :
                            Bet(pid, nonce, id, type, amount)
                    \/ \E shares \in SellAmounts :
                            Sell(pid, nonce, id, type, shares)
    \/ \E nonce :
        \/ \E offer \in Offers : CreateMarket(nonce, offer)
        \/ \E id :
            \/ WithdrawFees(nonce, id)
            \/ \E outcome \in 0 .. 1 : Resolve(nonce, id, outcome)

LEMMA NextIsCommand == [Next]_vars => [Command]_vars
BY InputsAssumption DEF Next, Command

\* Every step keeps the typing.
LEMMA StepType == TypeOK /\ [Command]_vars => TypeOK'
<1> SUFFICES ASSUME TypeOK, [Command]_vars PROVE TypeOK'
    OBVIOUS
<1>1. CASE Tick
    BY <1>1, TickType
<1>2. ASSUME NEW pid \in Pids, InstallPlayer(pid) PROVE TypeOK'
    BY <1>2, InstallPlayerType
<1>3. ASSUME NEW pid \in Pids, UnknownPlayer(pid) PROVE TypeOK'
    BY <1>3, RejectType DEF UnknownPlayer
<1>4. ASSUME NEW pid \in Pids, NEW nonce, NEW amount \in Word,
             Withdraw(pid, nonce, amount)
      PROVE  TypeOK'
    BY <1>4, WithdrawType
<1>5. ASSUME NEW pid \in Pids, NEW nonce, NEW amount \in DepositAmounts,
             Deposit(nonce, pid, amount)
      PROVE  TypeOK'
    BY <1>5, DepositType
<1>6. ASSUME NEW pid \in Pids, NEW nonce, NEW id,
             Claim(pid, nonce, id)
      PROVE  TypeOK'
    BY <1>6, ClaimType
<1>7. ASSUME NEW pid \in Pids, NEW nonce, NEW id,
             NEW type \in 0 .. 2, NEW amount \in BetAmounts,
             Bet(pid, nonce, id, type, amount)
      PROVE  TypeOK'
    BY <1>7, BetType
<1>8. ASSUME NEW pid \in Pids, NEW nonce, NEW id,
             NEW type \in 0 .. 2, NEW shares \in SellAmounts,
             Sell(pid, nonce, id, type, shares)
      PROVE  TypeOK'
    BY <1>8, SellType
<1>9. ASSUME NEW nonce, NEW offer \in Offers, CreateMarket(nonce, offer)
      PROVE  TypeOK'
    BY <1>9, CreateMarketType
<1>10. ASSUME NEW nonce, NEW id, WithdrawFees(nonce, id)
       PROVE  TypeOK'
    BY <1>10, WithdrawFeesType
<1>11. ASSUME NEW nonce, NEW id, NEW outcome \in 0 .. 1,
              Resolve(nonce, id, outcome)
       PROVE  TypeOK'
    BY <1>11, ResolveType
<1>12. CASE UNCHANGED vars
    BY <1>12 DEF vars, TypeOK
<1> QED BY <1>1, <1>2, <1>3, <1>4, <1>5, <1>6, <1>7, <1>8, <1>9, <1>10, <1>11,
           <1>12 DEF Command

\* In every reachable state of the program every number is a u64 and every
\* market id and slot is within its range, whatever the limits, the fee rate,
\* the players and the inputs are.
THEOREM TypeCorrect == Spec => []TypeOK
BY InitType, StepType, NextIsCommand, PTL DEF Spec

-----------------------------------------------------------------------------
(* The effects of a step, stripped of amounts, events and counters. *)

\* A player's record is replaced and its nonce used up.
Signed(pid) ==
    /\ pid \in DOMAIN players
    /\ \E balance : StorePlayer(pid, balance)

\* An open market is replaced by an open one, and one side of the position of
\* the player who signed is changed.
TradedBy(pid, id, side, m, n) ==
    /\ Signed(pid)
    /\ ~markets[id].resolved
    /\ ~m.resolved
    /\ m.outcome = markets[id].outcome
    /\ markets' = [markets EXCEPT ![id] = m]
    /\ positions' = [positions EXCEPT ![SlotOf(pid)][id].shares[side] = n]
Traded ==
    \E pid \in DOMAIN players, id \in DOMAIN markets, side \in Sides :
        \E m, n : TradedBy(pid, id, side, m, n)

\* A market is created.
Created ==
    /\ UNCHANGED <<players, positions>>
    /\ \E m : /\ ~m.resolved
              /\ m.outcome = "none"
              /\ markets' = Append(markets, m)

\* An open market is resolved.
Decided ==
    /\ UNCHANGED <<players, positions>>
    /\ \E id \in DOMAIN markets, outcome \in 0 .. 1 :
        /\ ~markets[id].resolved
        /\ markets' = [markets EXCEPT ![id] = resolve(markets[id], outcome)]

\* An unclaimed position of a resolved market is marked; the claim pays a
\* player who signs or pays nothing.
Marked ==
    /\ UNCHANGED markets
    /\ \E pid \in DOMAIN players, id \in DOMAIN markets :
        /\ markets[id].resolved
        /\ ~positions[SlotOf(pid)][id].claimed
        /\ positions' = [positions EXCEPT ![SlotOf(pid)][id].claimed = TRUE]
        /\ UNCHANGED players \/ Signed(pid)

\* A vault is emptied.
Emptied ==
    /\ UNCHANGED positions
    /\ Signed(Admin)
    /\ \E id \in DOMAIN markets :
        markets' = [markets EXCEPT ![id].total_fees_collected = 0]

\* Only balances and nonces move: an installation, a withdrawal, a deposit.
Moved ==
    /\ UNCHANGED <<positions, markets>>
    /\ \/ UNCHANGED players
       \/ \E pid : Signed(pid)
       \/ /\ \E pid : DOMAIN players' = DOMAIN players \cup {pid}
          /\ \A pid \in DOMAIN players : players'[pid] = players[pid]
       \/ \E pid \in DOMAIN players, amount \in DepositAmounts :
            Deposit(players[Admin].nonce, pid, amount)

\* A bet or a sale neither resolves a market nor touches its outcome.
LEMMA TradeDecidesNothing ==
    ASSUME NEW m \in MarketData, NEW side \in Sides, NEW amount, NEW value
    PROVE  /\ bet_outcome(m, side, amount, value).market.resolved = m.resolved
           /\ bet_outcome(m, side, amount, value).market.outcome = m.outcome
           /\ sale_outcome(m, side, value, amount).market.resolved = m.resolved
           /\ sale_outcome(m, side, value, amount).market.outcome = m.outcome
<1>1. /\ after_bet(m, side, amount, value).resolved = m.resolved
      /\ after_bet(m, side, amount, value).outcome = m.outcome
      /\ after_sale(m, side, value, amount).resolved = m.resolved
      /\ after_sale(m, side, value, amount).outcome = m.outcome
    BY DEF after_bet, after_sale, MarketData
<1> QED BY <1>1 DEF bet_outcome, sale_outcome, Outcome, Failed

\* Every step has one of these effects.
LEMMA StepEffect ==
    ASSUME TypeOK, [Command]_vars
    PROVE  Traded \/ Created \/ Decided \/ Marked \/ Emptied \/ Moved
<1>0. ASSUME NEW e, Reject(e) PROVE Moved
    BY <1>0 DEF Reject, Moved
<1>1. CASE Tick
    BY <1>1 DEF Tick, Moved
<1>2. ASSUME NEW pid \in Pids, InstallPlayer(pid) PROVE Moved
  <2>1. CASE Reject(ERROR_PLAYER_ALREADY_EXISTS)
    BY <1>0, <2>1
  <2>2. CASE ~Reject(ERROR_PLAYER_ALREADY_EXISTS)
    BY <1>2, <2>2 DEF InstallPlayer, Moved
  <2> QED BY <2>1, <2>2
<1>3. ASSUME NEW pid \in Pids, UnknownPlayer(pid) PROVE Moved
    BY <1>0, <1>3 DEF UnknownPlayer
<1>4. ASSUME NEW pid \in Pids, NEW nonce, NEW amount \in Word,
             Withdraw(pid, nonce, amount)
      PROVE  Moved
    BY <1>4 DEF Withdraw, Moved, Signed, check_nonce
<1>5. ASSUME NEW pid \in Pids, NEW nonce, NEW amount \in DepositAmounts,
             Deposit(nonce, pid, amount)
      PROVE  Moved
  <2>1. CASE pid \notin DOMAIN players
    BY <1>0, <1>5, <2>1 DEF Deposit
  <2>2. CASE pid \in DOMAIN players
    <3>1. UNCHANGED <<positions, markets>>
      BY <1>5, <2>2 DEF Deposit
    <3>2. nonce = players[Admin].nonce
      BY <1>5 DEF Deposit, check_nonce
    <3> QED BY <1>5, <2>2, <3>1, <3>2 DEF Moved
  <2> QED BY <2>1, <2>2
<1>6. ASSUME NEW pid \in Pids, NEW nonce, NEW id,
             Claim(pid, nonce, id)
      PROVE  Marked \/ Moved
  <2>1. CASE claim_error(pid, id) # NoError
    BY <1>0, <1>6, <2>1 DEF Claim
  <2>2. CASE claim_error(pid, id) = NoError
    <3>1. /\ id \in DOMAIN markets /\ markets[id].resolved
          /\ ~positions[SlotOf(pid)][id].claimed
      BY <2>2 DEF claim_error, MarketExists, NoError, ERROR_MARKET_NOT_ACTIVE,
                  ERROR_MARKET_NOT_RESOLVED, ERROR_ALREADY_CLAIMED
    <3>2. pid \in DOMAIN players
      BY <1>6 DEF Claim, check_nonce
    <3>3. /\ positions' = [positions EXCEPT ![SlotOf(pid)][id].claimed = TRUE]
          /\ UNCHANGED players \/ Signed(pid)
          /\ UNCHANGED markets
      BY <1>6, <2>2, <3>2 DEF Claim, Signed
    <3> QED BY <3>1, <3>2, <3>3 DEF Marked
  <2> QED BY <2>1, <2>2
<1>7. ASSUME NEW pid \in Pids, NEW nonce, NEW id,
             NEW type \in 0 .. 2, NEW amount \in BetAmounts,
             Bet(pid, nonce, id, type, amount)
      PROVE  Traded \/ Moved
  <2>1. CASE bet_error(pid, id, type, amount) # NoError
    BY <1>0, <1>7, <2>1 DEF Bet
  <2>2. CASE bet_error(pid, id, type, amount) = NoError
    <3>1. id \in DOMAIN markets /\ ~markets[id].resolved
      BY <2>2 DEF bet_error, ensure_market_active, MarketExists, is_active,
                  NoError, ERROR_MARKET_NOT_ACTIVE, ERROR_INVALID_BET_AMOUNT,
                  ERROR_INVALID_BET_TYPE
    <3>2. pid \in DOMAIN players /\ SideOf(type) \in Sides
      BY <1>7 DEF Bet, check_nonce, SideOf, Sides
    <3>3. Signed(pid)
      BY <1>7, <2>2, <3>2 DEF Bet, Signed
    <3>4. /\ markets' = [markets EXCEPT ![id] = place_bet(markets[id], SideOf(type), amount).market]
          /\ \E n : positions' =
                [positions EXCEPT ![SlotOf(pid)][id].shares[SideOf(type)] = n]
      BY <1>7, <2>2 DEF Bet
    <3>5. PICK n : positions' =
                [positions EXCEPT ![SlotOf(pid)][id].shares[SideOf(type)] = n]
      BY <3>4
    <3>6. /\ ~place_bet(markets[id], SideOf(type), amount).market.resolved
          /\ place_bet(markets[id], SideOf(type), amount).market.outcome = markets[id].outcome
      BY <3>1, <3>2, Reading, TradeDecidesNothing DEF place_bet
    <3>7. TradedBy(pid, id, SideOf(type), place_bet(markets[id], SideOf(type), amount).market, n)
      BY <3>1, <3>3, <3>4, <3>5, <3>6 DEF TradedBy
    <3> QED BY <3>1, <3>2, <3>7 DEF Traded
  <2> QED BY <2>1, <2>2
<1>8. ASSUME NEW pid \in Pids, NEW nonce, NEW id,
             NEW type \in 0 .. 2, NEW shares \in SellAmounts,
             Sell(pid, nonce, id, type, shares)
      PROVE  Traded \/ Moved
  <2>1. CASE sell_error(pid, id, type, shares) # NoError
    BY <1>0, <1>8, <2>1 DEF Sell
  <2>2. CASE sell_error(pid, id, type, shares) = NoError
    <3>1. id \in DOMAIN markets /\ ~markets[id].resolved
      BY <2>2 DEF sell_error, ensure_market_active, MarketExists, is_active,
                  NoError, ERROR_MARKET_NOT_ACTIVE, ERROR_INVALID_BET_AMOUNT
    <3>2. pid \in DOMAIN players /\ SideOf(type) \in Sides
      BY <1>8 DEF Sell, check_nonce, SideOf, Sides
    <3>3. Signed(pid)
      BY <1>8, <2>2, <3>2 DEF Sell, Signed
    <3>4. /\ markets' = [markets EXCEPT ![id] = sell_shares(markets[id], type, shares).market]
          /\ \E n : positions' =
                [positions EXCEPT ![SlotOf(pid)][id].shares[SideOf(type)] = n]
      BY <1>8, <2>2 DEF Sell
    <3>5. PICK n : positions' =
                [positions EXCEPT ![SlotOf(pid)][id].shares[SideOf(type)] = n]
      BY <3>4
    <3>6. /\ ~sell_shares(markets[id], type, shares).market.resolved
          /\ sell_shares(markets[id], type, shares).market.outcome = markets[id].outcome
      BY <3>1, <3>2, Reading, TradeDecidesNothing DEF sell_shares, Failed
    <3>7. TradedBy(pid, id, SideOf(type), sell_shares(markets[id], type, shares).market, n)
      BY <3>1, <3>3, <3>4, <3>5, <3>6 DEF TradedBy
    <3> QED BY <3>1, <3>2, <3>7 DEF Traded
  <2> QED BY <2>1, <2>2
<1>9. ASSUME NEW nonce, NEW offer \in Offers, CreateMarket(nonce, offer)
      PROVE  Created \/ Moved
  <2>1. CASE create_error(absolute(offer)) # NoError
    BY <1>0, <1>9, <2>1 DEF CreateMarket
  <2>2. CASE create_error(absolute(offer)) = NoError
    BY <1>9, <2>2 DEF CreateMarket, Created, new_with_liquidity
  <2> QED BY <2>1, <2>2
<1>10. ASSUME NEW nonce, NEW id, WithdrawFees(nonce, id)
       PROVE  Emptied \/ Moved
  <2>1. CASE withdraw_fees_error(id) # NoError
    BY <1>0, <1>10, <2>1 DEF WithdrawFees
  <2>2. CASE withdraw_fees_error(id) = NoError
    <3>1. id \in DOMAIN markets
      BY <2>2 DEF withdraw_fees_error, MarketExists, NoError,
                  ERROR_MARKET_NOT_ACTIVE
    <3>2. Signed(Admin)
      BY <1>10, <2>2 DEF WithdrawFees, Signed, check_nonce
    <3> QED BY <1>10, <2>2, <3>1, <3>2 DEF WithdrawFees, Emptied
  <2> QED BY <2>1, <2>2
<1>11. ASSUME NEW nonce, NEW id, NEW outcome \in 0 .. 1,
              Resolve(nonce, id, outcome)
       PROVE  Decided \/ Moved
  <2>1. CASE resolve_error(id) # NoError
    BY <1>0, <1>11, <2>1 DEF Resolve
  <2>2. CASE resolve_error(id) = NoError
    <3>1. id \in DOMAIN markets /\ ~markets[id].resolved
      BY <2>2 DEF resolve_error, MarketExists, NoError,
                  ERROR_MARKET_NOT_ACTIVE, ERROR_MARKET_ALREADY_RESOLVED
    <3> QED BY <1>11, <2>2, <3>1 DEF Resolve, Decided
  <2> QED BY <2>1, <2>2
<1>12. CASE UNCHANGED vars
    BY <1>12 DEF vars, Moved
<1> QED BY <1>1, <1>2, <1>3, <1>4, <1>5, <1>6, <1>7, <1>8, <1>9, <1>10, <1>11,
           <1>12 DEF Command

-----------------------------------------------------------------------------
(* Nonces. *)

\* Storing one player leaves the others alone and uses up that one's nonce.
LEMMA SignedEffect ==
    ASSUME TypeOK, NEW pid, Signed(pid)
    PROVE  /\ DOMAIN players' = DOMAIN players
           /\ players'[pid].nonce = players[pid].nonce + 1
           /\ \A p \in DOMAIN players \ {pid} : players'[p] = players[p]
<1>1. PICK balance : StorePlayer(pid, balance)
    BY DEF Signed
<1>2. pid \in DOMAIN players
    BY DEF Signed
<1> QED BY <1>1, <1>2 DEF StorePlayer, stored, TypeOK

\* A sum of words that is a word is not reduced.
LEMMA NoWrap ==
    ASSUME NEW balance \in Word, NEW amount \in Word, balance + amount \in Word
    PROVE  add_balance(balance, amount) = balance + amount
BY LimitsAssumption DEF add_balance, Word

\* A deposit lowers a balance only by wrapping it around or by overwriting the
\* administrator's, whose nonce it uses up.
LEMMA DepositEffect ==
    ASSUME TypeOK, NEW target \in DOMAIN players, NEW amount \in DepositAmounts,
           NEW nonce, Deposit(nonce, target, amount),
           NEW pid \in DOMAIN players, players'[pid].balance < players[pid].balance
    PROVE  \/ players'[pid].nonce = players[pid].nonce + 1
           \/ players[pid].balance + amount \notin Word
<1> DEFINE first == [players EXCEPT ![target].balance = add_balance(@, amount)]
<1>1. players' = [first EXCEPT ![Admin] = stored(Admin, players[Admin].balance)]
    BY DEF Deposit
<1>2. Admin \in DOMAIN players
    BY DEF Deposit, check_nonce
<1>3. CASE pid = Admin
    BY <1>1, <1>2, <1>3 DEF stored, TypeOK
<1>4. CASE pid # Admin /\ pid # target
  <2>1. players'[pid] = players[pid]
    BY <1>1, <1>4 DEF TypeOK
  <2>2. players[pid].balance \in Int
    BY Reading, LimitsAssumption DEF Word
  <2> QED BY <2>1, <2>2
<1>5. CASE pid # Admin /\ pid = target
  <2>1. players'[pid].balance = add_balance(players[pid].balance, amount)
    <3>1. players'[pid] = first[pid]
      BY <1>1, <1>5 DEF TypeOK
    <3>2. first[pid] = [players[pid] EXCEPT
                            !.balance = add_balance(players[pid].balance, amount)]
      BY <1>5 DEF TypeOK
    <3>3. players[pid] \in PlayerRecord
      BY DEF TypeOK
    <3> QED BY <3>1, <3>2, <3>3 DEF PlayerRecord
  <2>2. players[pid].balance \in Word /\ amount \in Word
    BY Reading, InputsAssumption
  <2>3. SUFFICES ASSUME players[pid].balance + amount \in Word PROVE FALSE
    OBVIOUS
  <2>4. players'[pid].balance = players[pid].balance + amount
    BY <2>1, <2>2, <2>3, NoWrap
  <2> QED BY <2>2, <2>4, LimitsAssumption DEF Word
<1> QED BY <1>3, <1>4, <1>5

\* A balance falls only by a command that uses up the nonce of its player, or
\* by a deposit that wraps around (command.rs: every handler that spends stores
\* the player whose nonce check_and_inc_nonce has incremented).
THEOREM SpendingNonce == Spec => SpendingConsumesNonce
<1> DEFINE falls(pid) == players'[pid].balance < players[pid].balance
           uses(pid)  == players'[pid].nonce = players[pid].nonce + 1
           wraps(pid) == \E amount \in DepositAmounts :
                            players[pid].balance + amount \notin Word
<1>1. TypeOK /\ [Command]_vars =>
        [\A pid \in DOMAIN players :
            players'[pid].balance < players[pid].balance
                => \/ players'[pid].nonce = players[pid].nonce + 1
                   \/ \E amount \in DepositAmounts :
                         players[pid].balance + amount \notin Word]_vars
  <2> SUFFICES ASSUME TypeOK, [Command]_vars, NEW pid \in DOMAIN players, falls(pid)
               PROVE  uses(pid) \/ wraps(pid)
    OBVIOUS
  <2>1. players[pid].balance \in Int
    BY Reading, LimitsAssumption DEF Word
  <2>2. players'[pid] # players[pid]
    BY <2>1
  <2>3. ASSUME NEW p, Signed(p) PROVE uses(pid)
    BY <2>2, <2>3, SignedEffect
  <2>4. CASE UNCHANGED players
    BY <2>2, <2>4
  <2>5. CASE Moved
    <3>1. ASSUME NEW t \in DOMAIN players, NEW amount \in DepositAmounts,
                 Deposit(players[Admin].nonce, t, amount)
          PROVE  uses(pid) \/ wraps(pid)
      BY <3>1, DepositEffect
    <3> HIDE DEF falls, uses, wraps
    <3> QED BY <2>2, <2>3, <2>4, <2>5, <3>1 DEF Moved
  <2>6. CASE Traded
    BY <2>3, <2>6 DEF Traded, TradedBy
  <2>7. CASE Marked
    BY <2>3, <2>4, <2>7 DEF Marked
  <2> QED BY <2>3, <2>4, <2>5, <2>6, <2>7, StepEffect DEF Created, Decided, Emptied
<1> QED BY <1>1, TypeCorrect, NextIsCommand, PTL DEF Spec, SpendingConsumesNonce

-----------------------------------------------------------------------------
(* Positions and markets. *)

\* Changing one side of a position changes that position alone, and does
\* not set its flag.
LEMMA TradedPositions ==
    ASSUME TypeOK, NEW pid \in Pids, NEW id \in MarketIds, NEW side \in Sides, NEW n,
           positions' = [positions EXCEPT ![SlotOf(pid)][id].shares[side] = n],
           NEW slot \in Slots, NEW i \in MarketIds
    PROVE  /\ positions'[slot][i].claimed => positions[slot][i].claimed
           /\ slot # SlotOf(pid) \/ i # id
                => positions'[slot][i] = positions[slot][i]
<1> DEFINE s == SlotOf(pid)
           p == [positions[s][id] EXCEPT !.shares[side] = n]
<1>1. s \in Slots
    BY SlotType
<1>2. positions \in [Slots -> [MarketIds -> PlayerMarketPosition]]
    BY DEF TypeOK
<1>3. p.claimed = positions[s][id].claimed
    BY <1>1, <1>2 DEF PlayerMarketPosition
<1> HIDE DEF p, s
<1>4. positions' = [positions EXCEPT ![s][id] = p]
    BY DEF p, s
<1> QED BY <1>1, <1>2, <1>3, <1>4 DEF s

\* Marking a position changes its flag alone.
LEMMA MarkedPositions ==
    ASSUME TypeOK, NEW pid \in Pids, NEW id \in MarketIds,
           positions' = [positions EXCEPT ![SlotOf(pid)][id].claimed = TRUE],
           NEW slot \in Slots, NEW i \in MarketIds
    PROVE  /\ positions'[slot][i].shares = positions[slot][i].shares
           /\ slot # SlotOf(pid) \/ i # id
                => positions'[slot][i] = positions[slot][i]
<1> DEFINE s == SlotOf(pid)
           p == [positions[s][id] EXCEPT !.claimed = TRUE]
<1>1. s \in Slots
    BY SlotType
<1>2. positions \in [Slots -> [MarketIds -> PlayerMarketPosition]]
    BY DEF TypeOK
<1>3. p.shares = positions[s][id].shares
    BY <1>1, <1>2 DEF PlayerMarketPosition
<1> HIDE DEF p, s
<1>4. positions' = [positions EXCEPT ![s][id] = p]
    BY DEF p, s
<1> QED BY <1>1, <1>2, <1>3, <1>4 DEF s

\* The shares of a slot change only by a command of a player of that slot that
\* uses up a nonce (player.rs keys positions by combine_player_id_safe alone,
\* so the slot may be another player's as well).
THEOREM TradingNonce == Spec => TradingConsumesNonce
<1>1. TypeOK /\ [Command]_vars =>
        [\A slot \in Slots, id \in MarketIds :
            positions'[slot][id].shares # positions[slot][id].shares
                => \E pid \in DOMAIN players :
                        /\ SlotOf(pid) = slot
                        /\ players'[pid].nonce = players[pid].nonce + 1]_vars
  <2> SUFFICES ASSUME TypeOK, [Command]_vars, NEW slot \in Slots, NEW i \in MarketIds,
                      positions'[slot][i].shares # positions[slot][i].shares
               PROVE  \E pid \in DOMAIN players :
                        /\ SlotOf(pid) = slot
                        /\ players'[pid].nonce = players[pid].nonce + 1
    OBVIOUS
  <2>1. CASE Traded
    <3>0. PICK pid \in DOMAIN players, id \in DOMAIN markets, side \in Sides :
            \E m, n : TradedBy(pid, id, side, m, n)
      BY <2>1 DEF Traded
    <3>1. PICK m, n : TradedBy(pid, id, side, m, n)
      BY <3>0
    <3>2. pid \in Pids /\ id \in MarketIds
      BY Reading
    <3>3. SlotOf(pid) = slot
      BY <3>1, <3>2, TradedPositions DEF TradedBy
    <3>4. players'[pid].nonce = players[pid].nonce + 1
      BY <3>1, SignedEffect DEF TradedBy
    <3> QED BY <3>3, <3>4
  <2>2. CASE Marked
    <3>1. PICK pid \in DOMAIN players, id \in DOMAIN markets :
            positions' = [positions EXCEPT ![SlotOf(pid)][id].claimed = TRUE]
      BY <2>2 DEF Marked
    <3>2. pid \in Pids /\ id \in MarketIds
      BY Reading
    <3> QED BY <3>1, <3>2, MarkedPositions
  <2> QED BY <2>1, <2>2, StepEffect DEF Created, Decided, Emptied, Moved
<1> QED BY <1>1, TypeCorrect, NextIsCommand, PTL DEF Spec, TradingConsumesNonce

\* What a step may do to a market that exists: it goes on existing, and once it
\* is resolved nothing but its fees changes.
LEMMA MarketEffect ==
    ASSUME TypeOK, [Command]_vars, NEW id \in DOMAIN markets, markets[id].resolved
    PROVE  /\ id \in DOMAIN markets'
           /\ markets'[id] = [markets[id] EXCEPT
                    !.total_fees_collected = markets'[id].total_fees_collected]
           /\ markets'[id].resolved
<1>0. markets \in Seq(MarketData) /\ markets[id] \in MarketData
    BY Reading DEF TypeOK
<1>1. CASE UNCHANGED markets
    BY <1>0, <1>1 DEF MarketData
<1>2. CASE Traded
  <2>0. PICK pid \in DOMAIN players, i \in DOMAIN markets, side \in Sides :
          \E m, n : TradedBy(pid, i, side, m, n)
    BY <1>2 DEF Traded
  <2>1. PICK m, n : TradedBy(pid, i, side, m, n)
    BY <2>0
  <2>2. i # id /\ markets' = [markets EXCEPT ![i] = m]
    BY <2>1 DEF TradedBy
  <2>3. id \in DOMAIN markets' /\ markets'[id] = markets[id]
    BY <1>0, <2>2
  <2> QED BY <1>0, <2>3 DEF MarketData
<1>3. CASE Created
  <2>1. PICK m : markets' = Append(markets, m)
    BY <1>3 DEF Created
  <2>2. id \in DOMAIN markets' /\ markets'[id] = markets[id]
    BY <1>0, <2>1
  <2> QED BY <1>0, <2>2 DEF MarketData
<1>4. CASE Decided
  <2>1. PICK i \in DOMAIN markets, outcome \in 0 .. 1 :
            /\ ~markets[i].resolved
            /\ markets' = [markets EXCEPT ![i] = resolve(markets[i], outcome)]
    BY <1>4 DEF Decided
  <2>2. id \in DOMAIN markets' /\ markets'[id] = markets[id]
    BY <1>0, <2>1
  <2> QED BY <1>0, <2>2 DEF MarketData
<1>5. CASE Emptied
  <2>1. PICK i \in DOMAIN markets :
            markets' = [markets EXCEPT ![i].total_fees_collected = 0]
    BY <1>5 DEF Emptied
  <2>2. /\ id \in DOMAIN markets'
        /\ \/ markets'[id] = markets[id]
           \/ markets'[id] = [markets[id] EXCEPT !.total_fees_collected = 0]
    BY <1>0, <2>1
  <2> QED BY <1>0, <2>2 DEF MarketData
<1> QED BY <1>1, <1>2, <1>3, <1>4, <1>5, StepEffect DEF Marked, Moved

\* Resolution is final: the outcome, the pool and the totals of a resolved
\* market, and all the shares in it, never change again (handle_bet and
\* handle_sell go through ensure_market_active, handle_resolve refuses a
\* resolved market, and handle_claim does not touch the pool).
THEOREM ResolutionIsFinal == Spec => ResolutionFinal
<1>1. TypeOK /\ [Command]_vars =>
        [\A id \in DOMAIN markets :
            markets[id].resolved =>
                /\ markets'[id] = [markets[id] EXCEPT
                    !.total_fees_collected = markets'[id].total_fees_collected]
                /\ \A slot \in Slots :
                    positions'[slot][id].shares = positions[slot][id].shares]_vars
  <2> SUFFICES ASSUME TypeOK, [Command]_vars, NEW i \in DOMAIN markets,
                      markets[i].resolved, NEW slot \in Slots
               PROVE  positions'[slot][i].shares = positions[slot][i].shares
    BY MarketEffect
  <2>1. CASE Traded
    <3>0. PICK pid \in DOMAIN players, id \in DOMAIN markets, side \in Sides :
            \E m, n : TradedBy(pid, id, side, m, n)
      BY <2>1 DEF Traded
    <3>1. PICK m, n : TradedBy(pid, id, side, m, n)
      BY <3>0
    <3>2. pid \in Pids /\ id \in MarketIds /\ i \in MarketIds /\ i # id
      BY <3>1, Reading DEF TradedBy
    <3> QED BY <3>1, <3>2, TradedPositions DEF TradedBy
  <2>2. CASE Marked
    <3>1. PICK pid \in DOMAIN players, id \in DOMAIN markets :
            positions' = [positions EXCEPT ![SlotOf(pid)][id].claimed = TRUE]
      BY <2>2 DEF Marked
    <3>2. pid \in Pids /\ id \in MarketIds /\ i \in MarketIds
      BY Reading
    <3> QED BY <3>1, <3>2, MarkedPositions
  <2> QED BY <2>1, <2>2, StepEffect DEF Created, Decided, Emptied, Moved
<1> QED BY <1>1, TypeCorrect, NextIsCommand, PTL DEF Spec, ResolutionFinal

-----------------------------------------------------------------------------
(* Claims.  ClaimedIsFinal is not inductive: a claimed position of a market  *)
(* that is still open could be traded.  A claim needs a resolved market, and *)
(* a resolved market stays resolved.                                         *)

\* Every claimed position belongs to a market that is resolved.
ClaimedResolved ==
    \A slot \in Slots, id \in MarketIds :
        positions[slot][id].claimed
            => id \in DOMAIN markets /\ markets[id].resolved

\* A step keeps it: a flag is set only in a resolved market.
LEMMA ClaimedResolvedStep ==
    TypeOK /\ ClaimedResolved /\ [Command]_vars => ClaimedResolved'
<1> SUFFICES ASSUME TypeOK, ClaimedResolved, [Command]_vars,
                    NEW slot \in Slots, NEW i \in MarketIds,
                    positions'[slot][i].claimed
             PROVE  i \in DOMAIN markets' /\ markets'[i].resolved
    BY DEF ClaimedResolved
<1>1. SUFFICES i \in DOMAIN markets /\ markets[i].resolved
    BY MarketEffect
<1>2. CASE positions[slot][i].claimed
    BY <1>2 DEF ClaimedResolved
<1>3. CASE ~positions[slot][i].claimed
  <2>1. CASE Traded
    <3>0. PICK pid \in DOMAIN players, id \in DOMAIN markets, side \in Sides :
            \E m, n : TradedBy(pid, id, side, m, n)
      BY <2>1 DEF Traded
    <3>1. PICK m, n : TradedBy(pid, id, side, m, n)
      BY <3>0
    <3>2. pid \in Pids /\ id \in MarketIds
      BY Reading
    <3>3. positions' = [positions EXCEPT ![SlotOf(pid)][id].shares[side] = n]
      BY <3>1 DEF TradedBy
    <3>4. positions[slot][i].claimed
      BY <3>2, <3>3, TradedPositions
    <3> QED BY <1>3, <3>4
  <2>2. CASE Marked
    <3>1. PICK pid \in DOMAIN players, id \in DOMAIN markets :
            /\ markets[id].resolved
            /\ positions' = [positions EXCEPT ![SlotOf(pid)][id].claimed = TRUE]
      BY <2>2 DEF Marked
    <3>2. pid \in Pids /\ id \in MarketIds
      BY Reading
    <3>3. CASE i = id
      BY <3>1, <3>3
    <3>4. CASE i # id
      BY <1>3, <3>1, <3>2, <3>4, MarkedPositions
    <3> QED BY <3>3, <3>4
  <2> QED BY <1>3, <2>1, <2>2, StepEffect DEF Created, Decided, Emptied, Moved
<1> QED BY <1>2, <1>3

\* The strengthening holds in every reachable state.
LEMMA ClaimedOnlyResolved == Spec => []ClaimedResolved
<1>1. Init => ClaimedResolved
    BY DEF Init, ClaimedResolved, NoPosition
<1> QED BY <1>1, ClaimedResolvedStep, TypeCorrect, NextIsCommand, PTL DEF Spec

\* A claimed position never changes again and is never claimed again
\* (handle_claim checks the flag, and the trades refuse a resolved market).
THEOREM ClaimsAreFinal == Spec => ClaimedIsFinal
<1>1. TypeOK /\ ClaimedResolved /\ [Command]_vars =>
        [\A slot \in Slots, id \in MarketIds :
            positions[slot][id].claimed
                => positions'[slot][id] = positions[slot][id]]_vars
  <2> SUFFICES ASSUME TypeOK, ClaimedResolved, [Command]_vars,
                      NEW slot \in Slots, NEW i \in MarketIds,
                      positions[slot][i].claimed
               PROVE  positions'[slot][i] = positions[slot][i]
    OBVIOUS
  <2>1. i \in DOMAIN markets /\ markets[i].resolved
    BY DEF ClaimedResolved
  <2>2. CASE Traded
    <3>0. PICK pid \in DOMAIN players, id \in DOMAIN markets, side \in Sides :
            \E m, n : TradedBy(pid, id, side, m, n)
      BY <2>2 DEF Traded
    <3>1. PICK m, n : TradedBy(pid, id, side, m, n)
      BY <3>0
    <3>2. pid \in Pids /\ id \in MarketIds /\ i # id
      BY <2>1, <3>1, Reading DEF TradedBy
    <3> QED BY <3>1, <3>2, TradedPositions DEF TradedBy
  <2>3. CASE Marked
    <3>1. PICK pid \in DOMAIN players, id \in DOMAIN markets :
            /\ ~positions[SlotOf(pid)][id].claimed
            /\ positions' = [positions EXCEPT ![SlotOf(pid)][id].claimed = TRUE]
      BY <2>3 DEF Marked
    <3>2. pid \in Pids /\ id \in MarketIds
      BY Reading
    <3>3. slot # SlotOf(pid) \/ i # id
      BY <3>1
    <3> QED BY <3>1, <3>2, <3>3, MarkedPositions
  <2> QED BY <2>2, <2>3, StepEffect DEF Created, Decided, Emptied, Moved
<1> QED BY <1>1, TypeCorrect, ClaimedOnlyResolved, NextIsCommand, PTL DEF Spec, ClaimedIsFinal

-----------------------------------------------------------------------------
(* The mapped state before and after a step. *)

\* The stage and verdict of a market follow from its resolved flag and outcome.
LEMMA SameStage ==
    ASSUME DOMAIN markets' = DOMAIN markets,
           \A id \in DOMAIN markets :
                /\ markets'[id].resolved <=> markets[id].resolved
                /\ markets'[id].outcome = markets[id].outcome
    PROVE  LifeStage' = LifeStage /\ LifeVerdict' = LifeVerdict
<1>1. \A id \in MarketIds : StageOf(id)' = StageOf(id)
    BY DEF StageOf
<1> QED BY <1>1 DEF LifeStage, LifeVerdict

\* Positions that stay map to holdings and settlements that stay.
LEMMA SamePositions ==
    ASSUME UNCHANGED positions
    PROVE  LifeShares' = LifeShares /\ LifeSettled' = LifeSettled
    BY DEF LifeShares, LifeSettled

\* The positions after a step are typed, so what they map to is a holding.
LEMMA Holding ==
    ASSUME TypeOK, NEW slot \in Slots, NEW id \in MarketIds
    PROVE  /\ LifeShares[slot][id] = positions[slot][id].shares
           /\ LifeShares[slot][id] \in [Sides -> Word]
           /\ LifeSettled[slot][id] = positions[slot][id].claimed
    BY DEF TypeOK, LifeShares, LifeSettled, PlayerMarketPosition

-----------------------------------------------------------------------------
(* One lemma for each effect of a step (Finality_proofs, StepEffect). *)

LEMMA InitLife == Init => Life!Init
<1> SUFFICES ASSUME Init PROVE Life!Init
    OBVIOUS
<1>1. DOMAIN markets = {}
    BY DEF Init
<1>2. LifeStage = [id \in MarketIds |-> "none"]
    BY <1>1 DEF LifeStage, StageOf
<1>3. LifeVerdict = [id \in MarketIds |-> "none"]
    BY <1>1 DEF LifeVerdict
<1>4. /\ LifeShares = [slot \in Slots |->
                        [id \in MarketIds |-> [side \in Sides |-> 0]]]
      /\ LifeSettled = [slot \in Slots |-> [id \in MarketIds |-> FALSE]]
    BY DEF Init, NoPosition, LifeShares, LifeSettled
<1> QED BY <1>2, <1>3, <1>4 DEF Life!Init

LEMMA MovedLife ==
    ASSUME TypeOK, Moved \/ Emptied
    PROVE  UNCHANGED Life!lifeVars
<1>0. markets \in Seq(MarketData)
    BY DEF TypeOK
<1>1. UNCHANGED positions
    BY DEF Moved, Emptied
<1>2. /\ DOMAIN markets' = DOMAIN markets
      /\ \A id \in DOMAIN markets :
            /\ markets'[id].resolved <=> markets[id].resolved
            /\ markets'[id].outcome = markets[id].outcome
  <2>1. CASE UNCHANGED markets
    BY <2>1
  <2>2. CASE Emptied
    <3>1. PICK i \in DOMAIN markets :
            markets' = [markets EXCEPT ![i].total_fees_collected = 0]
      BY <2>2 DEF Emptied
    <3>2. markets[i] \in MarketData
      BY <1>0
    <3> QED BY <1>0, <3>1, <3>2 DEF MarketData
  <2> QED BY <2>1, <2>2 DEF Moved
<1> QED BY <1>1, <1>2, SameStage, SamePositions DEF Life!lifeVars

LEMMA TradedLife ==
    ASSUME TypeOK, TypeOK', Traded
    PROVE  Life!Next
<1>0. PICK pid \in DOMAIN players, id \in DOMAIN markets, side \in Sides :
        \E m, n : TradedBy(pid, id, side, m, n)
    BY DEF Traded
<1>1. PICK m, n : TradedBy(pid, id, side, m, n)
    BY <1>0
<1> DEFINE slot == SlotOf(pid)
<1>2. pid \in Pids /\ id \in MarketIds /\ slot \in Slots
    BY Reading, SlotType
<1>3. UNCHANGED <<LifeStage, LifeVerdict>>
  <2>1. markets \in Seq(MarketData) /\ markets' = [markets EXCEPT ![id] = m]
    BY <1>1 DEF TypeOK, TradedBy
  <2>2. markets[id].resolved = FALSE /\ m.resolved = FALSE
    BY <1>1, <2>1, Reading DEF TradedBy, MarketData
  <2> QED BY <1>1, <2>1, <2>2, SameStage DEF TradedBy
<1>4. \A s \in Slots, i \in MarketIds :
        /\ positions'[s][i].claimed = positions[s][i].claimed
        /\ s # slot \/ i # id => positions'[s][i] = positions[s][i]
  <2> SUFFICES ASSUME NEW s \in Slots, NEW i \in MarketIds
               PROVE  /\ positions'[s][i].claimed = positions[s][i].claimed
                      /\ s # slot \/ i # id => positions'[s][i] = positions[s][i]
    OBVIOUS
  <2>1. positions' = [positions EXCEPT ![slot][id].shares[side] = n]
    BY <1>1 DEF TradedBy
  <2> QED BY <1>2, <2>1, TradedPositions
<1>5. UNCHANGED LifeSettled
    BY <1>4 DEF LifeSettled
<1> DEFINE held == LifeShares'[slot][id]
<1>6. LifeShares' = [LifeShares EXCEPT ![slot][id] = held]
  <2>1. LifeShares' = [s \in Slots |-> [i \in MarketIds |-> LifeShares'[s][i]]]
    BY DEF LifeShares
  <2>2. LifeShares = [s \in Slots |-> [i \in MarketIds |-> LifeShares[s][i]]]
    BY DEF LifeShares
  <2>3. \A s \in Slots, i \in MarketIds :
            s # slot \/ i # id => LifeShares'[s][i] = LifeShares[s][i]
    BY <1>4 DEF LifeShares
  <2> HIDE DEF held, slot
  <2>4. LifeShares' = [s \in Slots |-> [i \in MarketIds |->
                IF s = slot /\ i = id THEN held ELSE LifeShares[s][i]]]
    BY <2>1, <2>3 DEF held
  <2> QED BY <1>2, <2>2, <2>4
<1>7. LifeShares'[slot][id] \in [Sides -> Word]
    BY <1>2, Holding DEF TypeOK, LifeShares, PlayerMarketPosition
<1>8. LifeStage[id] = "open"
    BY <1>1, <1>2 DEF LifeStage, StageOf, TradedBy
<1> HIDE DEF slot
<1> QED BY <1>2, <1>3, <1>5, <1>6, <1>7, <1>8 DEF Life!Next, Life!Trade

LEMMA CreatedLife ==
    ASSUME TypeOK, TypeOK', Created
    PROVE  Life!Next
<1>1. PICK m : /\ ~m.resolved
               /\ m.outcome = "none"
               /\ markets' = Append(markets, m)
    BY DEF Created
<1> DEFINE id == Len(markets) + 1
<1>2. /\ markets \in Seq(MarketData)
      /\ Len(markets) \in Nat
      /\ DOMAIN markets = 1 .. Len(markets)
      /\ DOMAIN markets' = 1 .. id
      /\ markets'[id] = m
      /\ \A i \in DOMAIN markets : markets'[i] = markets[i]
    BY <1>1 DEF TypeOK
<1>3. id \in MarketIds
    BY <1>1, <1>2 DEF TypeOK, MarketIds
<1>4. LifeStage[id] = "none"
    BY <1>2, <1>3 DEF LifeStage, StageOf
<1>5. \A earlier \in MarketIds : earlier < id => LifeStage[earlier] # "none"
    BY <1>2 DEF LifeStage, StageOf, MarketIds
<1>6. LifeStage' = [LifeStage EXCEPT ![id] = "open"]
  <2>1. \A i \in MarketIds :
            StageOf(i)' = IF i = id THEN "open" ELSE StageOf(i)
    BY <1>1, <1>2 DEF StageOf, MarketIds
  <2> QED BY <1>3, <2>1 DEF LifeStage
<1>7. UNCHANGED LifeVerdict
    BY <1>1, <1>2 DEF LifeVerdict, MarketIds
<1>8. UNCHANGED <<LifeShares, LifeSettled>>
    BY SamePositions DEF Created
<1> HIDE DEF id
<1> QED BY <1>3, <1>4, <1>5, <1>6, <1>7, <1>8 DEF Life!Next, Life!Open

LEMMA DecidedLife ==
    ASSUME TypeOK, Decided
    PROVE  Life!Next
<1>1. PICK id \in DOMAIN markets, outcome \in 0 .. 1 :
        /\ ~markets[id].resolved
        /\ markets' = [markets EXCEPT ![id] = resolve(markets[id], outcome)]
    BY DEF Decided
<1> DEFINE m == resolve(markets[id], outcome)
<1>2. markets \in Seq(MarketData) /\ id \in MarketIds /\ markets[id] \in MarketData
    BY Reading DEF TypeOK
<1>3. m.resolved = TRUE /\ m.outcome \in {"yes", "no"}
    BY <1>2 DEF resolve, MarketData
<1> HIDE DEF m
<1>4. /\ DOMAIN markets' = DOMAIN markets
      /\ markets'[id] = m
      /\ \A i \in DOMAIN markets : i # id => markets'[i] = markets[i]
    BY <1>1, <1>2 DEF m
<1>5. LifeStage[id] = "open"
    BY <1>1, <1>2 DEF LifeStage, StageOf
<1>6. LifeStage' = [LifeStage EXCEPT ![id] = "resolved"]
  <2>1. \A i \in MarketIds :
            StageOf(i)' = IF i = id THEN "resolved" ELSE StageOf(i)
    BY <1>1, <1>3, <1>4 DEF StageOf
  <2> QED BY <1>2, <2>1 DEF LifeStage
<1>7. /\ LifeVerdict'[id] \in {"yes", "no"}
      /\ LifeVerdict' = [LifeVerdict EXCEPT ![id] = LifeVerdict'[id]]
    BY <1>2, <1>3, <1>4 DEF LifeVerdict
<1>8. UNCHANGED <<LifeShares, LifeSettled>>
    BY SamePositions DEF Decided
<1> QED BY <1>2, <1>5, <1>6, <1>7, <1>8 DEF Life!Next, Life!Decide

LEMMA MarkedLife ==
    ASSUME TypeOK, Marked
    PROVE  Life!Next
<1>1. PICK pid \in DOMAIN players, id \in DOMAIN markets :
        /\ markets[id].resolved
        /\ ~positions[SlotOf(pid)][id].claimed
        /\ positions' = [positions EXCEPT ![SlotOf(pid)][id].claimed = TRUE]
    BY DEF Marked
<1> DEFINE slot == SlotOf(pid)
<1>2. pid \in Pids /\ id \in MarketIds /\ slot \in Slots
    BY Reading, SlotType
<1>3. UNCHANGED <<LifeStage, LifeVerdict>>
    BY SameStage DEF Marked
<1>4. \A s \in Slots, i \in MarketIds :
        /\ positions'[s][i].shares = positions[s][i].shares
        /\ s # slot \/ i # id => positions'[s][i] = positions[s][i]
    BY <1>1, <1>2, MarkedPositions
<1>5. UNCHANGED LifeShares
    BY <1>4 DEF LifeShares
<1>6. positions'[slot][id].claimed = TRUE
  <2>1. positions \in [Slots -> [MarketIds -> PlayerMarketPosition]]
    BY DEF TypeOK
  <2> QED BY <1>1, <1>2, <2>1 DEF PlayerMarketPosition
<1>7. LifeSettled' = [LifeSettled EXCEPT ![slot][id] = TRUE]
    BY <1>2, <1>4, <1>6 DEF LifeSettled
<1>8. LifeStage[id] = "resolved" /\ ~LifeSettled[slot][id]
    BY <1>1, <1>2 DEF LifeStage, StageOf, LifeSettled
<1> HIDE DEF slot
<1> QED BY <1>2, <1>3, <1>5, <1>7, <1>8 DEF Life!Next, Life!Settle

-----------------------------------------------------------------------------
\* Each market lives the life of MarketLife (command.rs: trades go through
\* ensure_market_active, handle_resolve refuses a resolved market, handle_claim
\* an open market and a marked position).
THEOREM ImplementsMarketLife == Spec => MarketsLive
<1>1. TypeOK /\ TypeOK' /\ [Command]_vars => [Life!Next]_(Life!lifeVars)
    BY StepEffect, MovedLife, TradedLife, CreatedLife, DecidedLife, MarkedLife
<1> QED BY <1>1, InitLife, TypeCorrect, NextIsCommand, PTL DEF Spec, MarketsLive, Life!Spec

=============================================================================
