------------------------ MODULE IndexedMarket_proofs ------------------------
(* The program with its indexer, proved for every value of the constants: a  *)
(* trade counts once however often it is delivered, stops lose no document,  *)
(* and without faults the database holds every player's shares.              *)
EXTENDS IndexedMarket, Ledger_proofs

-----------------------------------------------------------------------------
(* Typing. *)

BetEvents == [kind : {"bet"}, txid : Nat, pid : Pids, id : MarketIds,
              type : {0, 1, 10, 11}, amount : Nat, shares : Nat, time : Nat]
MarketEvents == [kind : {"market"}, id : MarketIds, market : MarketData]
LiquidityEvents == [kind : {"liquidity"}, id : MarketIds, time : Nat,
                    total : [Sides -> Word]]
Events == BetEvents \cup MarketEvents \cup LiquidityEvents

BetDocuments == [index : Nat, pid : Pids, id : MarketIds, type : {0, 1, 10, 11},
                 amount : Nat, shares : Nat, counter : Nat]

\* What the indexer has, and where it is.
IndexTypeOK ==
    /\ feed \in Seq(Seq(Events))
    /\ next \in 1 .. Len(feed) + 1
    /\ at \in Nat
    /\ next \notin DOMAIN feed => at = 0
    /\ saved \in BOOLEAN
    /\ committed \in Nat /\ committed < next
    /\ bets \subseteq BetDocuments /\ IsFiniteSet(bets)
    /\ holdings \in [Pids -> [MarketIds -> [Index!Sides -> Int]]]
    /\ failures \in Nat /\ crashes \in Nat
    /\ saved => Index!Handling("bet") /\ Index!BetOf(Index!Event) \in bets

\* A bet's document, and what it is about.
LEMMA BetDocument ==
    ASSUME NEW event \in BetEvents
    PROVE  LET bet == Index!BetOf(event)
           IN  /\ bet \in BetDocuments
               /\ bet.index = event.txid /\ bet.pid = event.pid
               /\ bet.id = event.id /\ bet.type = event.type
BY DEF BetEvents, BetDocuments, Index!BetOf

LEMMA BetChange ==
    ASSUME NEW bet \in BetDocuments
    PROVE  Index!Change(bet) \in Int /\ Index!SideOfBet(bet) \in Index!Sides
BY DEF BetDocuments, Index!Change, Index!SideOfBet, Index!Sides

\* An event of the feed.
LEMMA EventType ==
    ASSUME feed \in Seq(Seq(Events)), NEW i \in DOMAIN feed,
           NEW j \in DOMAIN feed[i]
    PROVE  /\ feed[i][j] \in Events
           /\ feed[i][j].kind = "bet" => feed[i][j] \in BetEvents
           /\ feed[i][j].kind = "market" => feed[i][j] \in MarketEvents
<1>1. feed[i] \in Seq(Events)
    BY ElementOfSeq
<1>2. feed[i][j] \in Events
    BY <1>1, ElementOfSeq
<1> QED BY <1>2 DEF Events, BetEvents, MarketEvents, LiquidityEvents
-----------------------------------------------------------------------------
(* What a command that succeeds announces. *)

\* Nothing, and only the fees of a market or the mark of a position change.
Silent ==
    /\ reply'.events = << >>
    /\ UNCHANGED markets \/ Collected
    /\ UNCHANGED positions \/ Claimed

\* A command that succeeds does one of five things, and only a tick leaves the
\* number of transactions.
LEMMA CommandEvents ==
    ASSUME TypeOK, Priced, Command, reply'.e = NoError
    PROVE  \/ Tick
           \/ /\ txcounter' = txcounter + 1
              /\ Bought \/ Sold \/ Opened \/ Closed \/ Silent
<1> DEFINE Answers == txcounter' = txcounter + 1
<1>0. /\ \A e : Reject(e) => e = NoError
      /\ \A events_of : Accept(events_of) =>
            Answers /\ reply'.events = events_of
    BY DEF Reject, Fail, Accept
<1>1. ASSUME NEW pid \in Pids, InstallPlayer(pid) PROVE Answers /\ Silent
  <2>1. Accept(<< >>) /\ UNCHANGED <<positions, markets>>
    BY <1>0, <1>1 DEF InstallPlayer, ERROR_PLAYER_ALREADY_EXISTS, NoError
  <2> QED BY <1>0, <2>1 DEF Silent
<1>2. ASSUME NEW pid \in Pids PROVE ~UnknownPlayer(pid)
    BY <1>0 DEF UnknownPlayer, ERROR_PLAYER_NOT_EXIST, NoError
<1>3. ASSUME NEW pid \in Pids, NEW nonce, NEW amount \in Word,
             Withdraw(pid, nonce, amount)
      PROVE  Answers /\ Silent
  <2>1. Accept(<< >>) /\ UNCHANGED <<positions, markets>>
    BY <1>3 DEF Withdraw
  <2> QED BY <1>0, <2>1 DEF Silent
<1>4. ASSUME NEW pid \in Pids, NEW nonce, NEW amount \in DepositAmounts,
             Deposit(nonce, pid, amount)
      PROVE  Answers /\ Silent
  <2>1. Accept(<< >>) /\ UNCHANGED <<positions, markets>>
    BY <1>0, <1>4 DEF Deposit, ERROR_PLAYER_NOT_EXIST, NoError
  <2> QED BY <1>0, <2>1 DEF Silent
<1>5. ASSUME NEW pid \in Pids, NEW nonce, NEW id, Claim(pid, nonce, id)
      PROVE  Answers /\ Silent
  <2>1. claim_error(pid, id) = NoError /\ UNCHANGED markets
    BY <1>0, <1>5 DEF Claim, Reject
  <2>2. Claimed
    BY <1>5, <2>1, ClaimLedger
  <2> DEFINE payout == calculate_payout(markets[id],
                                        positions[SlotOf(pid)][id].shares)
  <2>3. \/ payout <= 0
           /\ Fail(IF payout < 0 THEN -payout ELSE ERROR_NO_WINNING_POSITION)
        \/ Accept(<< >>)
    BY <1>0, <1>5, <2>1 DEF Claim
  <2>4. ~Fail(ERROR_NO_WINNING_POSITION)
    BY DEF Fail, ERROR_NO_WINNING_POSITION, NoError
  <2>5. Fail(-payout) => ~(payout < 0)
    <3>1. id \in DOMAIN markets /\ pid \in DOMAIN players
      BY <1>5, <2>1 DEF Claim, check_nonce, claim_error, MarketExists, NoError,
                        ERROR_MARKET_NOT_ACTIVE
    <3>2. payout \in Int
      BY <3>1, Reading, SlotType, PayoutType
    <3> HIDE DEF payout
    <3> QED BY <3>2 DEF Fail, NoError
  <2> HIDE DEF payout
  <2> QED BY <1>0, <2>1, <2>2, <2>3, <2>4, <2>5 DEF Silent
<1>6. ASSUME NEW pid \in Pids, NEW nonce, NEW id, NEW type \in 0 .. 2,
             NEW amount \in BetAmounts, Bet(pid, nonce, id, type, amount)
      PROVE  Answers /\ Bought
  <2>1. bet_error(pid, id, type, amount) = NoError
    BY <1>0, <1>6 DEF Bet
  <2>2. Answers
    BY <1>0, <1>6, <2>1 DEF Bet
  <2> QED BY <1>6, <2>1, <2>2, BetLedger
<1>7. ASSUME NEW pid \in Pids, NEW nonce, NEW id, NEW type \in 0 .. 2,
             NEW shares \in SellAmounts, Sell(pid, nonce, id, type, shares)
      PROVE  Answers /\ Sold
  <2>1. sell_error(pid, id, type, shares) = NoError
    BY <1>0, <1>7 DEF Sell
  <2>2. Answers
    BY <1>0, <1>7, <2>1 DEF Sell
  <2> QED BY <1>7, <2>1, <2>2, SellLedger
<1>8. ASSUME NEW nonce, NEW offer \in Offers, CreateMarket(nonce, offer)
      PROVE  Answers /\ Opened
  <2>1. create_error(absolute(offer)) = NoError
    BY <1>0, <1>8 DEF CreateMarket
  <2>2. Answers
    BY <1>0, <1>8, <2>1 DEF CreateMarket
  <2> QED BY <1>8, <2>1, <2>2, CreateLedger
<1>9. ASSUME NEW nonce, NEW id, WithdrawFees(nonce, id)
      PROVE  Answers /\ Silent
  <2>1. withdraw_fees_error(id) = NoError
    BY <1>0, <1>9 DEF WithdrawFees
  <2>2. /\ id \in DOMAIN markets /\ Admin \in DOMAIN players
        /\ Accept(<< >>) /\ UNCHANGED positions
    BY <1>9, <2>1 DEF WithdrawFees, withdraw_fees_error, MarketExists, NoError,
                      ERROR_MARKET_NOT_ACTIVE, check_nonce
  <2>3. CollectedFrom(id)
    BY <1>9, <2>1 DEF WithdrawFees, CollectedFrom
  <2> QED BY <1>0, <2>2, <2>3 DEF Silent, Collected
<1>10. ASSUME NEW nonce, NEW id, NEW outcome \in 0 .. 1,
              Resolve(nonce, id, outcome)
       PROVE  Answers /\ Closed
  <2>1. resolve_error(id) = NoError
    BY <1>0, <1>10 DEF Resolve
  <2>2. id \in DOMAIN markets /\ ~markets[id].resolved
    BY <2>1 DEF resolve_error, MarketExists, NoError,
                ERROR_MARKET_NOT_ACTIVE, ERROR_MARKET_ALREADY_RESOLVED
  <2> DEFINE m == resolve(markets[id], outcome)
  <2>3. /\ Accept(<<MarketEvent(id, m)>>)
        /\ markets' = [markets EXCEPT ![id] = m]
        /\ UNCHANGED <<players, positions, settlement>>
    BY <1>10, <2>1 DEF Resolve
  <2>4. reply'.events = <<MarketEvent(id, m)>> /\ Answers
    BY <1>0, <2>3
  <2>5. Closed
    BY <2>2, <2>3, <2>4 DEF Closed
  <2> QED BY <2>4, <2>5
<1> HIDE DEF Answers
<1> QED BY <1>1, <1>2, <1>3, <1>4, <1>5, <1>6, <1>7, <1>8, <1>9, <1>10
        DEF Command, Answers
\* The shares of one side of a player's position in a market change by n.
SharesMove(pid, id, side, n) ==
    \A slot \in Slots, i \in MarketIds, s \in Sides :
        positions'[slot][i].shares[s] =
            positions[slot][i].shares[s]
                + (IF slot = SlotOf(pid) /\ i = id /\ s = side THEN n ELSE 0)

\* Market id changes or is new, and no other.
Remarketed(id) ==
    /\ id \in MarketIds /\ markets'[id] \in MarketData
    /\ DOMAIN markets' = DOMAIN markets \cup {id}
    /\ \A i \in DOMAIN markets \ {id} : markets'[i] = markets[i]

\* A trade is announced by its bet, which says by how many shares, and by the
\* market after it.
Trades(bet) ==
    /\ reply'.events = <<bet, MarketEvent(bet.id, markets'[bet.id])>>
    /\ bet.txid = txcounter
    /\ Remarketed(bet.id)
    /\ LET document == Index!BetOf(bet)
       IN  SharesMove(bet.pid, bet.id, Index!SideOfBet(document),
                      Index!Change(document))

\* A market that is opened or closed is announced.
Publishes(id) ==
    /\ reply'.events = <<MarketEvent(id, markets'[id])>>
    /\ Remarketed(id)
    /\ UNCHANGED positions

LEMMA ExchangeMoves ==
    ASSUME TypeOK, NEW pid \in Pids, NEW id \in DOMAIN markets,
           NEW side \in Sides, NEW n \in Int,
           Exchanged(SlotOf(pid), id, side, n)
    PROVE  SharesMove(pid, id, side, n) /\ Remarketed(id)
<1>1. SlotOf(pid) \in Slots /\ id \in MarketIds
    BY SlotType, Reading
<1>2. PICK held : held = positions[SlotOf(pid)][id].shares[side]
    OBVIOUS
<1>3. held \in Nat /\ Repositioned(SlotOf(pid), id, side, held + n)
    BY <1>1, <1>2, HeldType DEF Exchanged
<1>4. ASSUME NEW slot \in Slots, NEW i \in MarketIds, NEW s \in Sides
      PROVE  positions'[slot][i].shares[s] =
                positions[slot][i].shares[s]
                    + (IF slot = SlotOf(pid) /\ i = id /\ s = side THEN n ELSE 0)
  <2>1. positions'[slot][i].shares[s] =
            IF slot = SlotOf(pid) /\ i = id /\ s = side THEN held + n
            ELSE positions[slot][i].shares[s]
    BY <1>1, <1>3, Restored
  <2>2. positions[slot][i].shares[s] \in Nat
    BY HeldType
  <2> QED BY <1>2, <1>3, <2>1, <2>2
<1>5. PICK m : m \in MarketData /\ markets' = [markets EXCEPT ![id] = m]
    BY DEF Exchanged, Minted
<1>6. Remarketed(id)
    BY <1>1, <1>5 DEF Remarketed, TypeOK
<1> QED BY <1>4, <1>6 DEF SharesMove

\* A bet is announced with the shares that it buys.
LEMMA BoughtTrades ==
    ASSUME TypeOK, Backed, Bought
    PROVE  \E bet \in BetEvents : Trades(bet)
<1>1. PICK pid \in DOMAIN players, id \in DOMAIN markets, type \in 0 .. 1 :
            \E amount, n, m : BoughtBy(pid, id, type, amount, n, m)
    BY DEF Bought
<1>2. PICK amount, n, m : BoughtBy(pid, id, type, amount, n, m)
    BY <1>1
<1>3. PICK bet : bet = BetEvent(pid, id, type, amount, n)
    OBVIOUS
<1>4. /\ pid \in Pids /\ id \in MarketIds /\ SideOf(type) \in Sides
      /\ players[pid].balance \in Word /\ markets \in Seq(MarketData)
    BY Reading DEF SideOf, Sides, TypeOK
<1>5. n \in Nat /\ amount \in Nat /\ txcounter \in Nat /\ counter \in Nat
    BY <1>2, <1>4, LimitsAssumption DEF BoughtBy, Word, TypeOK
<1>6. bet \in BetEvents
    BY <1>3, <1>4, <1>5 DEF BetEvent, BetEvents
<1>7. SharesMove(pid, id, SideOf(type), n) /\ Remarketed(id)
  <2>1. Exchanged(SlotOf(pid), id, SideOf(type), n)
    BY <1>2, BoughtShares DEF Backed
  <2> QED BY <1>4, <1>5, <2>1, ExchangeMoves
<1>8. /\ Index!SideOfBet(Index!BetOf(bet)) = SideOf(type)
      /\ Index!Change(Index!BetOf(bet)) = n
    BY <1>3 DEF BetEvent, Index!BetOf, Index!SideOfBet, Index!Change, SideOf
<1>9. bet.pid = pid /\ bet.id = id /\ bet.txid = txcounter
    BY <1>3 DEF BetEvent
<1>10. reply'.events = <<bet, MarketEvent(id, markets'[id])>>
    BY <1>2, <1>3, <1>4 DEF BoughtBy
<1> QED BY <1>6, <1>7, <1>8, <1>9, <1>10 DEF Trades

\* A sale is announced with the shares that it takes.
LEMMA SoldTrades ==
    ASSUME TypeOK, Backed, Sold
    PROVE  \E bet \in BetEvents : Trades(bet)
<1>1. PICK pid \in DOMAIN players, id \in DOMAIN markets, type \in 0 .. 1 :
            \E payout, n, m : SoldBy(pid, id, type, payout, n, m)
    BY DEF Sold
<1>2. PICK payout, n, m : SoldBy(pid, id, type, payout, n, m)
    BY <1>1
<1>3. PICK bet : bet = SellEvent(pid, id, type, n, payout)
    OBVIOUS
<1>4. /\ pid \in Pids /\ id \in MarketIds /\ SideOf(type) \in Sides
      /\ SlotOf(pid) \in Slots /\ markets[id] \in MarketData
      /\ markets \in Seq(MarketData)
    BY Reading, SlotType DEF SideOf, Sides, TypeOK
<1>5. /\ n \in Nat /\ payout \in Nat /\ txcounter \in Nat /\ counter \in Nat
  <2>1. positions[SlotOf(pid)][id].shares[SideOf(type)] \in Nat
    BY <1>4, HeldType
  <2>2. markets[id].pool_balance \in Nat
    BY <1>4, LimitsAssumption DEF MarketData, Word
  <2>3. PICK held, pool :
            /\ held = positions[SlotOf(pid)][id].shares[SideOf(type)]
            /\ pool = markets[id].pool_balance
    OBVIOUS
  <2>4. held \in Nat /\ pool \in Nat /\ n \in 1 .. held /\ payout \in 1 .. pool
    BY <1>2, <2>1, <2>2, <2>3 DEF SoldBy
  <2>5. n \in Nat /\ payout \in Nat
    BY <2>4
  <2>6. txcounter \in Nat /\ counter \in Nat
    BY LimitsAssumption DEF TypeOK, Word
  <2> QED BY <2>5, <2>6
<1>6. bet \in BetEvents
    BY <1>3, <1>4, <1>5 DEF SellEvent, BetEvent, BetEvents
<1>7. SharesMove(pid, id, SideOf(type), -n) /\ Remarketed(id)
  <2>1. Exchanged(SlotOf(pid), id, SideOf(type), -n)
    BY <1>2, SoldShares
  <2> QED BY <1>4, <1>5, <2>1, ExchangeMoves
<1>8. /\ Index!SideOfBet(Index!BetOf(bet)) = SideOf(type)
      /\ Index!Change(Index!BetOf(bet)) = -n
    BY <1>3 DEF SellEvent, BetEvent, Index!BetOf, Index!SideOfBet, Index!Change,
                SideOf
<1>9. bet.pid = pid /\ bet.id = id /\ bet.txid = txcounter
    BY <1>3 DEF SellEvent, BetEvent
<1>10. reply'.events = <<bet, MarketEvent(id, markets'[id])>>
    BY <1>2, <1>3, <1>4 DEF SoldBy
<1> QED BY <1>6, <1>7, <1>8, <1>9, <1>10 DEF Trades

\* So are a market that is opened and one that is closed.
LEMMA MarketPublishes ==
    ASSUME TypeOK, TypeOK', Opened \/ Closed
    PROVE  \E id : Publishes(id)
<1>1. CASE Opened
  <2>1. PICK id : id = Len(markets) + 1
    OBVIOUS
  <2>2. PICK m \in MarketData :
            /\ markets' = Append(markets, m)
            /\ reply'.events = <<MarketEvent(id, m)>>
    BY <1>1, <2>1 DEF Opened
  <2>3. /\ id \in MarketIds /\ DOMAIN markets' = DOMAIN markets \cup {id}
        /\ \A i \in DOMAIN markets : markets'[i] = markets[i]
    BY <1>1, <2>1, OpenedMarkets
  <2>4. markets'[id] = m
    BY <2>1, <2>2 DEF TypeOK
  <2> QED BY <1>1, <2>2, <2>3, <2>4 DEF Publishes, Remarketed, Opened
<1>2. CASE Closed
  <2>1. PICK id \in DOMAIN markets, outcome \in 0 .. 1 :
            /\ markets' = [markets EXCEPT ![id] = resolve(markets[id], outcome)]
            /\ reply'.events = <<MarketEvent(id, resolve(markets[id], outcome))>>
    BY <1>2 DEF Closed
  <2>2. id \in MarketIds /\ markets \in Seq(MarketData)
    BY Reading DEF TypeOK
  <2>3. /\ markets'[id] = resolve(markets[id], outcome)
        /\ DOMAIN markets' = DOMAIN markets
        /\ \A i \in DOMAIN markets \ {id} : markets'[i] = markets[i]
    BY <2>1, <2>2
  <2>4. markets'[id] \in MarketData
    BY <2>3 DEF TypeOK
  <2> QED BY <1>2, <2>1, <2>2, <2>3, <2>4 DEF Publishes, Remarketed, Closed
<1> QED BY <1>1, <1>2
\* So a command that succeeds has one of four effects.
LEMMA ExecuteCases ==
    ASSUME TypeOK, TypeOK', Backed, Execute
    PROVE  \/ Tick
           \/ /\ txcounter' = txcounter + 1
              /\ \/ \E bet \in BetEvents : Trades(bet)
                 \/ \E id : Publishes(id)
                 \/ Silent
<1>1. Command /\ reply'.e = NoError
    BY InputsAssumption DEF Execute, Next, Command
<1>2. \/ Tick
      \/ /\ txcounter' = txcounter + 1
         /\ Bought \/ Sold \/ Opened \/ Closed \/ Silent
    BY <1>1, CommandEvents DEF Backed
<1> QED BY <1>2, BoughtTrades, SoldTrades, MarketPublishes

\* A tick announces the totals of the markets, and no bet and no market.
LEMMA TickEvents ==
    ASSUME TypeOK, TypeOK', Tick
    PROVE  /\ reply'.events \in Seq(Events)
           /\ \A j \in DOMAIN reply'.events : reply'.events[j].kind = "liquidity"
           /\ UNCHANGED <<positions, markets, txcounter>>
<1>1. PICK entry : entry = reply'.events
    OBVIOUS
<1>2. PICK now : now = counter'
    OBVIOUS
<1>3. entry = [id \in DOMAIN markets |-> LiquidityEvent(id, now)]
    BY <1>1, <1>2 DEF Tick
<1>4. now \in Nat
    BY <1>2, LimitsAssumption DEF TypeOK, Word
<1>5. ASSUME NEW id \in DOMAIN markets
      PROVE  LiquidityEvent(id, now) \in LiquidityEvents
  <2>1. id \in MarketIds /\ markets[id].total \in [Sides -> Word]
    BY Reading DEF MarketData
  <2> QED BY <1>4, <2>1 DEF LiquidityEvent, LiquidityEvents
<1>6. Len(markets) \in Nat /\ DOMAIN markets = 1 .. Len(markets)
    BY DEF TypeOK
<1>7. /\ DOMAIN entry = DOMAIN markets
      /\ \A j \in DOMAIN entry : entry[j] \in LiquidityEvents
    BY <1>3, <1>5
<1>8. entry \in Seq(Events)
  <2>1. entry \in [1 .. Len(markets) -> Events]
    BY <1>3, <1>6, <1>7 DEF Events
  <2> QED BY <1>6, <2>1, SeqDef
<1>9. \A j \in DOMAIN entry : entry[j].kind = "liquidity"
    BY <1>7 DEF LiquidityEvents
<1> QED BY <1>1, <1>8, <1>9 DEF Tick

\* What a trade or a change of a market announces are events.
LEMMA PublishedType ==
    ASSUME NEW id, Publishes(id)
    PROVE  reply'.events \in Seq(Events)
<1>1. PICK event : event = MarketEvent(id, markets'[id])
    OBVIOUS
<1>2. event \in Events /\ reply'.events = <<event>>
    BY <1>1 DEF Publishes, Remarketed, MarketEvent, MarketEvents, Events
<1> QED BY <1>2

LEMMA TradedType ==
    ASSUME NEW bet \in BetEvents, Trades(bet)
    PROVE  reply'.events \in Seq(Events)
<1>1. PICK event : event = MarketEvent(bet.id, markets'[bet.id])
    OBVIOUS
<1>2. /\ event \in Events /\ bet \in Events
      /\ reply'.events = <<bet, event>>
    BY <1>1 DEF Trades, Remarketed, MarketEvent, MarketEvents, Events
<1> QED BY <1>2

LEMMA ExecuteEvents ==
    ASSUME TypeOK, TypeOK', Backed, Execute
    PROVE  /\ reply'.events \in Seq(Events)
           /\ feed' = IF reply'.events = << >> THEN feed
                      ELSE Append(feed, reply'.events)
<1>1. feed' = IF reply'.events = << >> THEN feed ELSE Append(feed, reply'.events)
    BY DEF Execute, Index!Receive
<1>2. CASE Silent
  <2>1. reply'.events = << >>
    BY <1>2 DEF Silent
  <2> QED BY <1>1, <2>1
<1> QED BY <1>1, <1>2, ExecuteCases, TickEvents, PublishedType, TradedType

\* An entry more.
FeedGains(entry) ==
    LET n == Len(feed) + 1
    IN  /\ n \in Nat /\ n >= 1
        /\ DOMAIN feed = 1 .. n - 1
        /\ feed' \in Seq(Seq(Events))
        /\ Len(feed') = n /\ DOMAIN feed' = 1 .. n
        /\ feed'[n] = entry
        /\ \A i \in DOMAIN feed : feed'[i] = feed[i]

LEMMA FeedAppended ==
    ASSUME feed \in Seq(Seq(Events)), NEW entry \in Seq(Events),
           feed' = Append(feed, entry)
    PROVE  FeedGains(entry)
<1>1. PICK n : n = Len(feed) + 1
    OBVIOUS
<1>2. n \in Nat /\ n >= 1 /\ DOMAIN feed = 1 .. n - 1 /\ Len(feed) = n - 1
    BY <1>1
<1>3. /\ feed' \in Seq(Seq(Events))
      /\ Len(feed') = Len(feed) + 1
      /\ feed'[Len(feed) + 1] = entry
      /\ \A i \in 1 .. Len(feed) : feed'[i] = feed[i]
    BY AppendProperties
<1>4. DOMAIN feed' = 1 .. Len(feed')
    BY <1>3
<1> QED BY <1>1, <1>2, <1>3, <1>4 DEF FeedGains
\* A command adds nothing to the feed, or what it announces.
LEMMA FeedStep ==
    ASSUME TypeOK, TypeOK', Backed, IndexTypeOK, Execute
    PROVE  \/ feed' = feed /\ reply'.events = << >>
           \/ FeedGains(reply'.events)
<1>1. PICK entry : entry = reply'.events
    OBVIOUS
<1>2. /\ entry \in Seq(Events)
      /\ feed' = IF entry = << >> THEN feed ELSE Append(feed, entry)
    BY <1>1, ExecuteEvents
<1>3. CASE entry = << >>
    BY <1>1, <1>2, <1>3
<1>4. CASE entry # << >>
  <2>1. feed \in Seq(Seq(Events)) /\ feed' = Append(feed, entry)
    BY <1>2, <1>4 DEF IndexTypeOK
  <2> QED BY <1>1, <1>2, <2>1, FeedAppended
<1> QED BY <1>3, <1>4

-----------------------------------------------------------------------------
(* The typing is kept. *)

LEMMA IndexInitType == Index!Init => IndexTypeOK
<1> SUFFICES ASSUME Index!Init PROVE IndexTypeOK
    OBVIOUS
<1>1. feed \in Seq(Seq(Events)) /\ Len(feed) = 0
    BY DEF Index!Init
<1>2. bets = {} /\ IsFiniteSet(bets)
    BY FS_EmptySet DEF Index!Init
<1>3. holdings \in [Pids -> [MarketIds -> [Index!Sides -> Int]]]
    BY DEF Index!Init
<1>4. /\ next = 1 /\ at = 0 /\ saved = FALSE /\ committed = 0
      /\ failures = 0 /\ crashes = 0
    BY DEF Index!Init
<1>5. /\ next \in 1 .. Len(feed) + 1 /\ committed \in Nat /\ committed < next
      /\ at \in Nat /\ failures \in Nat /\ crashes \in Nat
    BY <1>1, <1>4
<1>6. saved \in BOOLEAN /\ ~saved /\ bets \subseteq BetDocuments
    BY <1>2, <1>4
<1> QED BY <1>1, <1>2, <1>3, <1>4, <1>5, <1>6 DEF IndexTypeOK

\* The variables of the indexer that a command leaves alone.
Waits == UNCHANGED <<next, at, saved, committed, events, bets, holdings, records,
                     history, failures, crashes>>

LEMMA ExecuteType ==
    ASSUME TypeOK, TypeOK', Backed, IndexTypeOK, Execute
    PROVE  IndexTypeOK'
<1>1. Waits
    BY DEF Execute, Waits
<1>2. CASE feed' = feed
    BY <1>1, <1>2 DEF Waits, IndexTypeOK, Index!Handling, Index!Event
<1>3. ASSUME NEW entry, FeedGains(entry) PROVE IndexTypeOK'
  <2>1. PICK n : n = Len(feed) + 1
    OBVIOUS
  <2>2. /\ n \in Nat /\ n >= 1 /\ DOMAIN feed = 1 .. n - 1
        /\ feed' \in Seq(Seq(Events))
        /\ Len(feed') = n /\ DOMAIN feed' = 1 .. n
        /\ \A i \in DOMAIN feed : feed'[i] = feed[i]
    BY <1>3, <2>1 DEF FeedGains
  <2>3. next \in 1 .. n /\ next \in 1 .. n + 1
    BY <2>1, <2>2 DEF IndexTypeOK
  <2>4. next' \in 1 .. Len(feed') + 1
    BY <1>1, <2>2, <2>3 DEF Waits
  <2>5. saved =>
            (Index!Handling("bet") /\ Index!BetOf(Index!Event) \in bets)'
    <3> SUFFICES ASSUME saved
                 PROVE (Index!Handling("bet") /\ Index!BetOf(Index!Event) \in bets)'
      OBVIOUS
    <3>1. Index!Handling("bet") /\ Index!BetOf(Index!Event) \in bets
      BY DEF IndexTypeOK
    <3>2. next \in DOMAIN feed /\ next \in DOMAIN feed' /\ feed'[next] = feed[next]
      BY <2>2, <3>1 DEF Index!Handling
    <3> QED BY <1>1, <3>1, <3>2 DEF Waits, Index!Handling, Index!Event
  <2> QED BY <1>1, <2>2, <2>4, <2>5 DEF Waits, IndexTypeOK
<1> QED BY <1>2, <1>3, FeedStep

\* Nothing of the indexer is under way at the start of an entry or after it.
LEMMA NotSaved ==
    ASSUME IndexTypeOK
    PROVE  /\ at = 0 => ~saved
           /\ next \in DOMAIN feed /\ at = Len(feed[next]) + 1 => ~saved
           /\ \A kind : kind # "bet" /\ Index!Handling(kind) => ~saved
<1>1. ASSUME saved
      PROVE  /\ next \in DOMAIN feed /\ at \in 1 .. Len(feed[next])
             /\ Index!Event.kind = "bet"
  <2>1. Index!Handling("bet")
    BY <1>1 DEF IndexTypeOK
  <2>2. next \in DOMAIN feed /\ at \in DOMAIN feed[next] /\ Index!Event.kind = "bet"
    BY <2>1 DEF Index!Handling
  <2>3. feed[next] \in Seq(Events)
    BY <2>2, ElementOfSeq DEF IndexTypeOK
  <2> QED BY <2>2, <2>3
<1>2. next \in DOMAIN feed => Len(feed[next]) \in Nat
  <2>1. ASSUME next \in DOMAIN feed PROVE Len(feed[next]) \in Nat
    <3>1. feed[next] \in Seq(Events)
      BY <2>1, ElementOfSeq DEF IndexTypeOK
    <3> QED BY <3>1
  <2> QED BY <2>1
<1> QED BY <1>1, <1>2 DEF Index!Handling
\* The holdings of a player on one side of a market change by n.
LEMMA HoldingsType ==
    ASSUME holdings \in [Pids -> [MarketIds -> [Index!Sides -> Int]]],
           NEW pid \in Pids, NEW id \in MarketIds, NEW side \in Index!Sides,
           NEW n \in Int, holdings' = [holdings EXCEPT ![pid][id][side] = @ + n]
    PROVE  /\ holdings' \in [Pids -> [MarketIds -> [Index!Sides -> Int]]]
           /\ \A p \in Pids, i \in MarketIds, s \in Index!Sides :
                holdings'[p][i][s] =
                    holdings[p][i][s]
                        + (IF p = pid /\ i = id /\ s = side THEN n ELSE 0)
<1>1. PICK held : held = holdings[pid]
    OBVIOUS
<1>2. /\ held \in [MarketIds -> [Index!Sides -> Int]]
      /\ held[id] \in [Index!Sides -> Int]
    BY <1>1
<1>3. PICK sides : sides = [held[id] EXCEPT ![side] = @ + n]
    OBVIOUS
<1>4. /\ sides \in [Index!Sides -> Int]
      /\ \A s \in Index!Sides :
            sides[s] = held[id][s] + (IF s = side THEN n ELSE 0)
    BY <1>2, <1>3
<1>5. PICK new : new = [held EXCEPT ![id] = sides]
    OBVIOUS
<1>6. /\ new \in [MarketIds -> [Index!Sides -> Int]] /\ new[id] = sides
      /\ \A i \in MarketIds \ {id} : new[i] = held[i]
    BY <1>2, <1>4, <1>5
<1>7. holdings' = [holdings EXCEPT ![pid] = new]
    BY <1>1, <1>3, <1>5
<1>8. /\ holdings' \in [Pids -> [MarketIds -> [Index!Sides -> Int]]]
      /\ holdings'[pid] = new
      /\ \A p \in Pids \ {pid} : holdings'[p] = holdings[p]
    BY <1>6, <1>7
<1>9. ASSUME NEW p \in Pids, NEW i \in MarketIds, NEW s \in Index!Sides
      PROVE  holdings'[p][i][s] =
                holdings[p][i][s]
                    + (IF p = pid /\ i = id /\ s = side THEN n ELSE 0)
  <2>1. holdings[p][i][s] \in Int
    OBVIOUS
  <2>2. CASE p # pid \/ i # id
    BY <1>1, <1>6, <1>8, <2>1, <2>2
  <2>3. CASE p = pid /\ i = id
    BY <1>1, <1>4, <1>6, <1>8, <2>3
  <2> QED BY <2>2, <2>3
<1> QED BY <1>8, <1>9

\* What the program's steps leave alone, the indexer's steps keep.
LEMMA DeliverType ==
    ASSUME IndexTypeOK, Index!Deliver
    PROVE  IndexTypeOK'
<1>1. /\ feed' = feed /\ committed' = committed /\ crashes' = crashes
      /\ feed \in Seq(Seq(Events))
    BY DEF Index!Deliver, Index!SaveEvent, Index!SaveBet, Index!UpdatePosition,
           Index!StoreMarket, Index!StoreLiquidity, Index!Return,
           Index!database, IndexTypeOK
<1>2. PICK n : n = Len(feed)
    OBVIOUS
<1>3. n \in Nat /\ DOMAIN feed = 1 .. n /\ next \in 1 .. n + 1
    BY <1>1, <1>2 DEF IndexTypeOK
<1>4. ASSUME Index!Failing PROVE failures' \in Nat
    BY <1>4 DEF Index!Failing, IndexTypeOK
<1>5. ASSUME Index!Handling("bet")
      PROVE  Index!BetOf(Index!Event) \in BetDocuments
  <2>1. next \in DOMAIN feed /\ at \in DOMAIN feed[next] /\ Index!Event.kind = "bet"
    BY <1>5 DEF Index!Handling
  <2>2. Index!Event \in BetEvents
    BY <1>1, <2>1, EventType DEF Index!Event
  <2> QED BY <2>2, BetDocument
<1>6. CASE Index!SaveEvent
  <2>1. /\ ~saved /\ UNCHANGED <<next, saved, bets, holdings>> /\ at' = 1
        /\ failures' \in Nat /\ next \in DOMAIN feed
    BY <1>4, <1>6, NotSaved DEF Index!SaveEvent, Index!Advance, IndexTypeOK
  <2> QED BY <1>1, <2>1 DEF IndexTypeOK
<1>7. CASE Index!SaveBet
  <2>1. /\ Index!Handling("bet") /\ UNCHANGED <<next, holdings>>
        /\ failures' \in Nat /\ next \in DOMAIN feed
    BY <1>4, <1>7 DEF Index!SaveBet, Index!Handling, IndexTypeOK
  <2>2. PICK bet \in BetDocuments : bet = Index!BetOf(Index!Event)
    BY <1>5, <2>1
  <2>3. \/ bets' = bets \cup {bet} /\ saved' = TRUE /\ at' = at
        \/ bets' = bets /\ saved' = saved /\ ~saved /\ at' = at + 1
    BY <1>7, <2>2 DEF Index!SaveBet, Index!SkipBet, Index!Advance
  <2>4. IsFiniteSet(bets \cup {bet}) /\ bets \cup {bet} \subseteq BetDocuments
    BY <2>2, FS_AddElement DEF IndexTypeOK
  <2>5. \/ Index!Handling("bet")' /\ Index!BetOf(Index!Event)' = bet
        \/ ~saved'
    BY <1>1, <2>1, <2>2, <2>3 DEF Index!Handling, Index!Event
  <2>6. at' \in Nat
    <3>1. at \in Nat /\ at + 1 \in Nat
      BY DEF IndexTypeOK
    <3>2. at' = at \/ at' = at + 1
      BY <2>3
    <3> QED BY <3>1, <3>2
  <2>7. saved' \in BOOLEAN
    <3>1. saved' = TRUE \/ saved' = saved
      BY <2>3
    <3> QED BY <3>1 DEF IndexTypeOK
  <2>8. bets' \subseteq BetDocuments /\ IsFiniteSet(bets')
    <3>1. bets' = bets \cup {bet} \/ bets' = bets
      BY <2>3
    <3> QED BY <2>4, <3>1 DEF IndexTypeOK
  <2>9. saved' => bet \in bets'
    BY <2>3
  <2> QED BY <1>1, <2>1, <2>5, <2>6, <2>7, <2>8, <2>9 DEF IndexTypeOK
<1>8. CASE Index!UpdatePosition
  <2>1. /\ UNCHANGED <<next, bets>> /\ saved' = FALSE /\ at' \in Nat
        /\ failures' \in Nat /\ next \in DOMAIN feed
    BY <1>4, <1>8 DEF Index!UpdatePosition, Index!Advance, Index!Handling,
                      IndexTypeOK
  <2>2. holdings' \in [Pids -> [MarketIds -> [Index!Sides -> Int]]]
    <3>1. Index!Handling("bet")
      BY <1>8 DEF Index!UpdatePosition, IndexTypeOK
    <3>2. PICK bet \in BetDocuments : bet = Index!BetOf(Index!Event)
      BY <1>5, <3>1
    <3>3. \/ holdings' = holdings
          \/ holdings' = [holdings EXCEPT ![bet.pid][bet.id][Index!SideOfBet(bet)]
                                              = @ + Index!Change(bet)]
      BY <1>8, <3>2 DEF Index!UpdatePosition
    <3>4. PICK side, change :
            side = Index!SideOfBet(bet) /\ change = Index!Change(bet)
      OBVIOUS
    <3>5. PICK pid, id : pid = bet.pid /\ id = bet.id
      OBVIOUS
    <3>6. /\ pid \in Pids /\ id \in MarketIds /\ side \in Index!Sides
          /\ change \in Int
          /\ holdings \in [Pids -> [MarketIds -> [Index!Sides -> Int]]]
      BY <3>4, <3>5, BetChange DEF BetDocuments, IndexTypeOK
    <3>7. \/ holdings' = holdings
          \/ holdings' = [holdings EXCEPT ![pid][id][side] = @ + change]
      BY <3>3, <3>4, <3>5
    <3>8. CASE holdings' = [holdings EXCEPT ![pid][id][side] = @ + change]
      BY <3>6, <3>8, HoldingsType
    <3> QED BY <3>6, <3>7, <3>8
  <2> QED BY <1>1, <2>1, <2>2 DEF IndexTypeOK
<1>9. CASE Index!StoreMarket \/ Index!StoreLiquidity
  <2>1. Index!Handling("market") \/ Index!Handling("liquidity")
    BY <1>9 DEF Index!StoreMarket, Index!StoreLiquidity
  <2>2. ~saved /\ next \in DOMAIN feed
    BY <2>1, NotSaved DEF Index!Handling
  <2>3. /\ UNCHANGED <<next, saved, bets, holdings>> /\ at' \in Nat
        /\ failures' \in Nat
    BY <1>4, <1>9 DEF Index!StoreMarket, Index!StoreLiquidity, Index!Advance,
                      IndexTypeOK
  <2> QED BY <1>1, <2>2, <2>3 DEF IndexTypeOK
<1>10. CASE Index!Return
  <2>1. /\ next \in DOMAIN feed /\ at = Len(feed[next]) + 1
        /\ next' = next + 1 /\ at' = 0
        /\ UNCHANGED <<saved, bets, holdings, failures>>
    BY <1>10 DEF Index!Return, Index!database
  <2>2. ~saved
    BY <2>1, NotSaved
  <2>3. next' \in 1 .. n + 1 /\ committed < next'
    BY <1>3, <2>1 DEF IndexTypeOK
  <2> QED BY <1>1, <1>2, <2>1, <2>2, <2>3 DEF IndexTypeOK
<1> QED BY <1>6, <1>7, <1>8, <1>9, <1>10 DEF Index!Deliver

LEMMA ServerType ==
    ASSUME IndexTypeOK, Index!Commit \/ Index!Crash
    PROVE  IndexTypeOK'
<1>1. PICK n : n = Len(feed)
    OBVIOUS
<1>2. n \in Nat /\ next \in 1 .. n + 1 /\ committed \in Nat /\ committed < next
    BY <1>1 DEF IndexTypeOK
<1>3. CASE Index!Commit
  <2>1. /\ at = 0 /\ committed' \in committed + 1 .. next - 1
        /\ UNCHANGED <<feed, next, at, saved, bets, holdings, failures, crashes>>
    BY <1>3 DEF Index!Commit, Index!database
  <2>2. ~saved /\ committed' \in Nat /\ committed' < next
    BY <1>2, <2>1, NotSaved
  <2> QED BY <2>1, <2>2 DEF IndexTypeOK
<1>4. CASE Index!Crash
  <2>1. /\ crashes' = crashes + 1 /\ next' = committed + 1 /\ at' = 0
        /\ saved' = FALSE
        /\ UNCHANGED <<feed, committed, bets, holdings, failures>>
    BY <1>4 DEF Index!Crash, Index!database
  <2>2. next' \in 1 .. n + 1 /\ committed < next' /\ crashes' \in Nat
    BY <1>2, <2>1 DEF IndexTypeOK
  <2> QED BY <1>1, <2>1, <2>2 DEF IndexTypeOK
<1> QED BY <1>3, <1>4
LEMMA IndexTypeStep ==
    TypeOK /\ TypeOK' /\ Backed /\ IndexTypeOK /\ [IndexedNext]_<<vars, Index!vars>>
        => IndexTypeOK'
<1> SUFFICES ASSUME TypeOK, TypeOK', Backed, IndexTypeOK,
                    [IndexedNext]_<<vars, Index!vars>>
             PROVE  IndexTypeOK'
    OBVIOUS
<1>1. CASE UNCHANGED <<vars, Index!vars>>
    BY <1>1 DEF IndexTypeOK, Index!vars, Index!database, Index!Handling,
                Index!Event
<1> QED BY <1>1, ExecuteType, DeliverType, ServerType DEF IndexedNext, Indexing

\* A step of the two is a step of the program or leaves it alone.
LEMMA ProgramSteps ==
    [IndexedNext]_<<vars, Index!vars>> => [Next]_vars
BY DEF IndexedNext, Execute, Indexing

\* In every state of the program with its indexer, both are typed and the
\* markets are backed.
LEMMA IndexedTypes == IndexedSpec => [](TypeOK /\ Backed /\ IndexTypeOK)
<1>1. IndexedInit => TypeOK /\ Backed /\ IndexTypeOK
    BY InitType, InitBacked, IndexInitType DEF IndexedInit
<1>2. TypeOK /\ Backed /\ IndexTypeOK /\ [IndexedNext]_<<vars, Index!vars>>
        => (TypeOK /\ Backed /\ IndexTypeOK)'
    BY ProgramSteps, NextIsCommand, StepType, BackedStep, IndexTypeStep
<1> QED BY <1>1, <1>2, PTL DEF IndexedSpec

-----------------------------------------------------------------------------
(* The shares that bets add up to. *)

LEMMA SharesSum ==
    ASSUME NEW documents, documents \subseteq BetDocuments, IsFiniteSet(documents),
           NEW pid, NEW id, NEW side
    PROVE  LET change == [bet \in BetDocuments |-> Index!Change(bet)]
               found  == BetsOf(documents, pid, id, side)
           IN  /\ IsFiniteSet(found) /\ found \subseteq documents
               /\ \A bet \in BetDocuments : change[bet] \in Int
               /\ SharesOf(documents, pid, id, side) = SumOver(found, change)
<1> DEFINE change == [bet \in BetDocuments |-> Index!Change(bet)]
           found  == BetsOf(documents, pid, id, side)
           those  == [bet \in found |-> Index!Change(bet)]
<1>1. found \subseteq documents
    BY DEF BetsOf
<1>2. IsFiniteSet(found)
    BY <1>1, FS_Subset
<1>3. \A bet \in BetDocuments : change[bet] \in Int
    BY BetChange
<1>4. SharesOf(documents, pid, id, side) = SumOver(found, those)
    BY DEF SharesOf, Total
<1>5. \A bet \in found : those[bet] = change[bet]
    BY <1>1
<1> HIDE DEF change, found, those
<1>6. SumOver(found, those) = SumOver(found, change)
    BY <1>2, <1>5, SumSame
<1> QED BY <1>1, <1>2, <1>3, <1>4, <1>6 DEF change, found

LEMMA SharesInt ==
    ASSUME NEW documents, documents \subseteq BetDocuments, IsFiniteSet(documents),
           NEW pid, NEW id, NEW side
    PROVE  SharesOf(documents, pid, id, side) \in Int
<1>1. PICK change, found :
        /\ change = [bet \in BetDocuments |-> Index!Change(bet)]
        /\ found = BetsOf(documents, pid, id, side)
    OBVIOUS
<1>2. /\ IsFiniteSet(found) /\ found \subseteq documents
      /\ \A bet \in BetDocuments : change[bet] \in Int
      /\ SharesOf(documents, pid, id, side) = SumOver(found, change)
    BY <1>1, SharesSum
<1>3. \A bet \in found : change[bet] \in Int
    BY <1>2
<1> QED BY <1>2, <1>3, SumType

LEMMA SharesOfNone == \A pid, id, side : SharesOf({}, pid, id, side) = 0
<1> SUFFICES ASSUME NEW pid, NEW id, NEW side
             PROVE  SharesOf({}, pid, id, side) = 0
    OBVIOUS
<1>1. PICK f : f = [bet \in BetsOf({}, pid, id, side) |-> Index!Change(bet)]
    OBVIOUS
<1>2. DOMAIN f = {} /\ SharesOf({}, pid, id, side) = SumOver({}, f)
    BY <1>1 DEF BetsOf, SharesOf, Total
<1> QED BY <1>2, SumOfNone

\* One bet more adds its change where it belongs.
LEMMA SharesGain ==
    ASSUME NEW documents, documents \subseteq BetDocuments, IsFiniteSet(documents),
           NEW bet \in BetDocuments, bet \notin documents,
           NEW pid, NEW id, NEW side
    PROVE  SharesOf(documents \cup {bet}, pid, id, side) =
                SharesOf(documents, pid, id, side)
                    + (IF /\ pid = bet.pid /\ id = bet.id
                          /\ side = Index!SideOfBet(bet)
                       THEN Index!Change(bet) ELSE 0)
<1>1. PICK more : more = documents \cup {bet}
    OBVIOUS
<1>2. more \subseteq BetDocuments /\ IsFiniteSet(more)
    BY <1>1, FS_AddElement
<1>3. PICK change : change = [b \in BetDocuments |-> Index!Change(b)]
    OBVIOUS
<1>4. PICK found, all : /\ found = BetsOf(documents, pid, id, side)
                        /\ all = BetsOf(more, pid, id, side)
    OBVIOUS
<1>5. /\ IsFiniteSet(found) /\ found \subseteq documents
      /\ \A b \in BetDocuments : change[b] \in Int
      /\ SharesOf(documents, pid, id, side) = SumOver(found, change)
    BY <1>3, <1>4, SharesSum
<1>6. SharesOf(more, pid, id, side) = SumOver(all, change)
    BY <1>2, <1>3, <1>4, SharesSum
<1>7. SumOver(found, change) \in Int
    BY <1>5, SharesInt
<1>8. CASE /\ pid = bet.pid /\ id = bet.id /\ side = Index!SideOfBet(bet)
  <2>1. all = found \cup {bet} /\ bet \notin found
    BY <1>1, <1>4, <1>5, <1>8 DEF BetsOf
  <2>2. \A b \in found \cup {bet} : change[b] \in Int
    BY <1>5
  <2>3. SumOver(found \cup {bet}, change) = SumOver(found, change) + change[bet]
    <3>1. IsFiniteSet(found) /\ bet \notin found
      BY <1>5, <2>1
    <3> QED BY <2>2, <3>1, SumAdded
  <2>4. change[bet] = Index!Change(bet)
    BY <1>3
  <2> QED BY <1>1, <1>5, <1>6, <1>8, <2>1, <2>3, <2>4
<1>9. CASE ~(/\ pid = bet.pid /\ id = bet.id /\ side = Index!SideOfBet(bet))
  <2>1. all = found
    BY <1>1, <1>4, <1>9 DEF BetsOf
  <2>2. SharesOf(more, pid, id, side) = SharesOf(documents, pid, id, side) + 0
    BY <1>5, <1>6, <1>7, <2>1
  <2> QED BY <1>1, <1>9, <2>2
<1> QED BY <1>8, <1>9
-----------------------------------------------------------------------------
(* A trade counts once.  CountedOnce alone is not inductive: it must be known *)
(* that the bet whose position is about to be updated is one of those that    *)
(* the positions miss.                                                        *)

\* The positions miss these bets, at most one per fault and one under way.
Misses(missing) ==
    /\ missing \in SUBSET bets
    /\ saved => Index!BetOf(Index!Event) \in missing
    /\ Cardinality(missing) <= failures + crashes + (IF saved THEN 1 ELSE 0)
    /\ \A pid \in Pids, id \in MarketIds, side \in Index!Sides :
            holdings[pid][id][side] = SharesOf(bets \ missing, pid, id, side)

MissesFew == \E missing \in SUBSET bets : Misses(missing)

LEMMA MissesNone == IndexedInit => MissesFew
<1> SUFFICES ASSUME IndexedInit PROVE MissesFew
    OBVIOUS
<1>1. /\ bets = {} /\ ~saved /\ failures = 0 /\ crashes = 0
      /\ holdings = [pid \in Pids |-> [id \in MarketIds |->
                                        [side \in Index!Sides |-> 0]]]
    BY DEF IndexedInit, Index!Init
<1>2. Cardinality({}) = 0
    BY FS_EmptySet
<1>3. ASSUME NEW pid \in Pids, NEW id \in MarketIds, NEW side \in Index!Sides
      PROVE  holdings[pid][id][side] = SharesOf({} \ {}, pid, id, side)
  <2>1. SharesOf({}, pid, id, side) = 0
    BY SharesOfNone
  <2>2. {} \ {} = {}
    OBVIOUS
  <2> QED BY <1>1, <2>1, <2>2
<1>4. Misses({})
    BY <1>1, <1>2, <1>3 DEF Misses
<1> QED BY <1>1, <1>4 DEF MissesFew

\* A step that leaves the bets and the holdings alone, and gives up a bet that
\* is under way only at a fault.
LEMMA MissesAfterFault ==
    ASSUME IndexTypeOK, IndexTypeOK', MissesFew,
           UNCHANGED <<bets, holdings>>, ~saved',
           failures + crashes + (IF saved THEN 1 ELSE 0) <= failures' + crashes'
    PROVE  MissesFew'
<1>1. PICK missing \in SUBSET bets : Misses(missing)
    BY DEF MissesFew
<1>2. Cardinality(missing) \in Nat
    BY FS_Subset, FS_CardinalityType DEF IndexTypeOK
<1>3. /\ failures \in Nat /\ crashes \in Nat
      /\ failures' \in Nat /\ crashes' \in Nat
    BY DEF IndexTypeOK
<1>4. Cardinality(missing) <= failures + crashes + (IF saved THEN 1 ELSE 0)
    BY <1>1 DEF Misses
<1>5. PICK failed, stopped, under_way :
        /\ failed = failures' /\ stopped = crashes'
        /\ under_way = IF saved THEN 1 ELSE 0
    OBVIOUS
<1>6. Cardinality(missing) <= failures' + crashes' + (IF saved' THEN 1 ELSE 0)
  <2>1. /\ Cardinality(missing) <= failures + crashes + under_way
        /\ failures + crashes + under_way <= failed + stopped
    BY <1>4, <1>5
  <2>2. under_way \in Nat /\ failed \in Nat /\ stopped \in Nat
    BY <1>3, <1>5
  <2>3. failures \in Nat /\ crashes \in Nat
    BY <1>3
  <2>4. Cardinality(missing) <= failed + stopped + 0
    BY <1>2, <2>1, <2>2, <2>3
  <2> QED BY <1>5, <2>4
<1>7. Misses(missing)'
    BY <1>1, <1>6 DEF Misses
<1> QED BY <1>7 DEF MissesFew

\* A step that leaves alone all that the positions are about.
LEMMA MissesSame ==
    ASSUME MissesFew, UNCHANGED <<bets, holdings, saved, failures, crashes>>,
           saved => Index!Event' = Index!Event
    PROVE  MissesFew'
<1>1. PICK missing \in SUBSET bets : Misses(missing)
    BY DEF MissesFew
<1>2. saved => Index!BetOf(Index!Event') = Index!BetOf(Index!Event)
    OBVIOUS
<1>3. Misses(missing)'
    BY <1>1, <1>2 DEF Misses
<1> QED BY <1>3 DEF MissesFew

\* The bet that is saved is missed until its position is updated.
LEMMA MissesSaved ==
    ASSUME IndexTypeOK, IndexTypeOK', MissesFew, Index!SaveBet, saved'
    PROVE  MissesFew'
<1>1. PICK missing \in SUBSET bets : Misses(missing)
    BY DEF MissesFew
<1>2. PICK bet : bet = Index!BetOf(Index!Event)
    OBVIOUS
<1>3. /\ ~saved /\ ~Index!Recorded(Index!Event.txid)
      /\ bets' = bets \cup {bet}
      /\ UNCHANGED <<feed, next, at, holdings, failures, crashes>>
    BY <1>2 DEF Index!SaveBet
<1>4. bet \notin bets
    BY <1>2, <1>3 DEF Index!Recorded, Index!BetOf
<1>5. PICK more : more = missing \cup {bet}
    OBVIOUS
<1>6. more \in SUBSET bets' /\ bets' \ more = bets \ missing
    BY <1>3, <1>4, <1>5
<1>7. IsFiniteSet(missing) /\ bet \notin missing
    BY <1>4, FS_Subset DEF IndexTypeOK
<1>8. /\ Cardinality(missing) \in Nat
      /\ Cardinality(more) = Cardinality(missing) + 1
    BY <1>5, <1>7, FS_AddElement, FS_CardinalityType
<1>9. Index!BetOf(Index!Event)' = bet
    BY <1>2, <1>3 DEF Index!Event
<1>10. failures \in Nat /\ crashes \in Nat
    BY DEF IndexTypeOK
<1>11. Cardinality(more) <= failures' + crashes' + (IF saved' THEN 1 ELSE 0)
    BY <1>1, <1>3, <1>8, <1>10 DEF Misses
<1>12. \A pid \in Pids, id \in MarketIds, side \in Index!Sides :
            holdings'[pid][id][side] = SharesOf(bets' \ more, pid, id, side)
    BY <1>1, <1>3, <1>6 DEF Misses
<1>13. Misses(more)'
    BY <1>5, <1>6, <1>9, <1>11, <1>12 DEF Misses
<1> QED BY <1>6, <1>13 DEF MissesFew

\* The position of the bet under way is updated.
LEMMA MissesUpdated ==
    ASSUME IndexTypeOK, IndexTypeOK', MissesFew, Index!UpdatePosition,
           ~Index!Failing
    PROVE  MissesFew'
<1>1. PICK missing \in SUBSET bets : Misses(missing)
    BY DEF MissesFew
<1>2. PICK bet : bet = Index!BetOf(Index!Event)
    OBVIOUS
<1>3. saved /\ bet \in missing /\ bet \in bets /\ bet \in BetDocuments
    BY <1>1, <1>2 DEF Index!UpdatePosition, Misses, IndexTypeOK
<1>4. /\ saved' = FALSE /\ UNCHANGED <<bets, failures, crashes>>
      /\ holdings' = [holdings EXCEPT ![bet.pid][bet.id][Index!SideOfBet(bet)]
                                          = @ + Index!Change(bet)]
    BY <1>2 DEF Index!UpdatePosition
<1>5. PICK rest, counted :
            rest = missing \ {bet} /\ counted = bets \ missing
    OBVIOUS
<1>6. /\ rest \in SUBSET bets /\ bets \ rest = counted \cup {bet}
      /\ bet \notin counted /\ counted \subseteq BetDocuments
    BY <1>3, <1>5 DEF IndexTypeOK
<1>7. IsFiniteSet(counted) /\ IsFiniteSet(missing)
    BY <1>5, FS_Subset DEF IndexTypeOK
<1>8. /\ Cardinality(missing) \in Nat
      /\ Cardinality(rest) = Cardinality(missing) - 1
    BY <1>3, <1>5, <1>7, FS_RemoveElement, FS_CardinalityType
<1>9. failures \in Nat /\ crashes \in Nat
    BY DEF IndexTypeOK
<1>10. Cardinality(missing) <= failures + crashes + 1
    BY <1>1, <1>3 DEF Misses
<1>11. Cardinality(rest) <= failures' + crashes' + (IF saved' THEN 1 ELSE 0)
    BY <1>4, <1>8, <1>9, <1>10
<1>12. ASSUME NEW pid \in Pids, NEW id \in MarketIds, NEW side \in Index!Sides
       PROVE  holdings'[pid][id][side] = SharesOf(bets' \ rest, pid, id, side)
  <2>1. PICK p, i, s, change :
            /\ p = bet.pid /\ i = bet.id
            /\ s = Index!SideOfBet(bet) /\ change = Index!Change(bet)
    OBVIOUS
  <2>2. /\ p \in Pids /\ i \in MarketIds /\ s \in Index!Sides /\ change \in Int
        /\ holdings \in [Pids -> [MarketIds -> [Index!Sides -> Int]]]
        /\ holdings' = [holdings EXCEPT ![p][i][s] = @ + change]
    BY <1>3, <1>4, <2>1, BetChange DEF BetDocuments, IndexTypeOK
  <2>3. holdings'[pid][id][side] =
            holdings[pid][id][side]
                + (IF pid = p /\ id = i /\ side = s THEN change ELSE 0)
    BY <2>2, HoldingsType
  <2>4. SharesOf(counted \cup {bet}, pid, id, side) =
            SharesOf(counted, pid, id, side)
                + (IF /\ pid = bet.pid /\ id = bet.id
                      /\ side = Index!SideOfBet(bet)
                   THEN Index!Change(bet) ELSE 0)
    BY <1>3, <1>6, <1>7, SharesGain
  <2>5. holdings[pid][id][side] = SharesOf(counted, pid, id, side)
    BY <1>1, <1>5 DEF Misses
  <2>6. bets' \ rest = counted \cup {bet}
    BY <1>4, <1>6
  <2> QED BY <2>1, <2>3, <2>4, <2>5, <2>6
<1>13. Misses(rest)'
    BY <1>4, <1>6, <1>11, <1>12 DEF Misses
<1> QED BY <1>4, <1>6, <1>13 DEF MissesFew
LEMMA MissesStep ==
    TypeOK /\ TypeOK' /\ Backed /\ IndexTypeOK /\ IndexTypeOK' /\ MissesFew
        /\ [IndexedNext]_<<vars, Index!vars>>
        => MissesFew'
<1> SUFFICES ASSUME TypeOK, TypeOK', Backed, IndexTypeOK, IndexTypeOK', MissesFew,
                    [IndexedNext]_<<vars, Index!vars>>
             PROVE  MissesFew'
    OBVIOUS
<1>0. /\ failures \in Nat /\ crashes \in Nat
      /\ saved => next \in DOMAIN feed
    BY DEF IndexTypeOK, Index!Handling
<1>1. CASE Execute
  <2>1. UNCHANGED <<next, at, bets, holdings, saved, failures, crashes>>
    BY <1>1 DEF Execute
  <2>2. next \in DOMAIN feed => feed'[next] = feed[next]
    BY <1>1, FeedStep DEF FeedGains
  <2>3. saved => Index!Event' = Index!Event
    BY <1>0, <2>1, <2>2 DEF Index!Event
  <2> QED BY <2>1, <2>3, MissesSame
<1>2. CASE Index!SaveEvent \/ Index!StoreMarket \/ Index!StoreLiquidity
           \/ Index!Return
  <2>1. UNCHANGED <<bets, holdings, saved, crashes>>
    BY <1>2 DEF Index!SaveEvent, Index!StoreMarket, Index!StoreLiquidity,
                Index!Return, Index!database
  <2>2. failures' = failures \/ failures' = failures + 1
    BY <1>2 DEF Index!SaveEvent, Index!StoreMarket, Index!StoreLiquidity,
                Index!Return, Index!Failing
  <2>3. ~saved
    BY <1>2, NotSaved DEF Index!SaveEvent, Index!StoreMarket,
                          Index!StoreLiquidity, Index!Return
  <2> QED BY <1>0, <2>1, <2>2, <2>3, MissesAfterFault
<1>3. CASE Index!SaveBet
  <2>1. CASE saved'
    BY <1>3, <2>1, MissesSaved
  <2>2. CASE ~saved'
    <3>1. ~saved /\ UNCHANGED <<bets, holdings, crashes>>
      BY <1>3, <2>2 DEF Index!SaveBet
    <3>2. failures' = failures \/ failures' = failures + 1
      BY <1>3 DEF Index!SaveBet, Index!Failing
    <3> QED BY <1>0, <2>2, <3>1, <3>2, MissesAfterFault
  <2> QED BY <2>1, <2>2
<1>4. CASE Index!UpdatePosition
  <2>1. CASE Index!Failing
    <3>1. failures' = failures + 1
      BY <2>1 DEF Index!Failing
    <3>2. /\ saved /\ ~saved'
          /\ UNCHANGED <<bets, holdings, crashes>>
      BY <1>0, <1>4, <3>1 DEF Index!UpdatePosition
    <3> QED BY <1>0, <3>1, <3>2, MissesAfterFault
  <2>2. CASE ~Index!Failing
    BY <1>4, <2>2, MissesUpdated
  <2> QED BY <2>1, <2>2
<1>5. CASE Index!Commit
  <2>1. ~saved /\ UNCHANGED <<bets, holdings, saved, failures, crashes>>
    BY <1>5, NotSaved DEF Index!Commit, Index!database
  <2> QED BY <2>1, MissesSame
<1>6. CASE Index!Crash
  <2>1. /\ ~saved' /\ UNCHANGED <<bets, holdings, failures>>
        /\ crashes' = crashes + 1
    BY <1>6 DEF Index!Crash, Index!database
  <2> QED BY <1>0, <2>1, MissesAfterFault
<1>7. CASE UNCHANGED <<vars, Index!vars>>
  <2>1. UNCHANGED <<feed, next, at, bets, holdings, saved, failures, crashes>>
    BY <1>7 DEF Index!vars, Index!database
  <2>2. Index!Event' = Index!Event
    BY <2>1 DEF Index!Event
  <2> QED BY <2>1, <2>2, MissesSame
<1> QED BY <1>1, <1>2, <1>3, <1>4, <1>5, <1>6, <1>7
        DEF IndexedNext, Indexing, Index!Deliver

LEMMA AlwaysMissesFew == IndexedSpec => []MissesFew
BY MissesNone, MissesStep, IndexedTypes, PTL DEF IndexedSpec

\* However often the events are delivered, and whatever fails or stops, each
\* trade counts once in the positions of the database, except for at most one
\* per fault that is left out (service.ts: the unique index of the bets guards
\* the $inc of the position).
THEOREM TradesCountOnce == IndexedSpec => []CountedOnce
<1>1. MissesFew => CountedOnce
    BY DEF MissesFew, Misses, CountedOnce
<1> QED BY <1>1, AlwaysMissesFew, PTL
-----------------------------------------------------------------------------
(* What a command's entry shows of the markets. *)

\* Event j of entry i of feed f has this kind; it is market id's.
EventAt(f, kind, i, j) ==
    i \in DOMAIN f /\ j \in DOMAIN f[i] /\ f[i][j].kind = kind
Shown(f, id, i, j) == EventAt(f, "market", i, j) /\ f[i][j].id = id

\* The feed has n - 1 entries, and afterwards those and at most an n-th.
GrownTo(n) ==
    /\ n \in Nat /\ n >= 1 /\ n = Len(feed) + 1
    /\ DOMAIN feed = 1 .. n - 1
    /\ DOMAIN feed' = 1 .. n - 1 \/ DOMAIN feed' = 1 .. n
    /\ \A i \in DOMAIN feed : feed'[i] = feed[i]

\* A market but for its fees.
SameButFees(m, other) ==
    m = [other EXCEPT !.total_fees_collected = m.total_fees_collected]

\* No market changes but in its fees.
MarketsKept ==
    /\ DOMAIN markets' = DOMAIN markets
    /\ \A id \in DOMAIN markets :
            \A m \in MarketData :
                SameButFees(m, markets[id]) => SameButFees(m, markets'[id])

\* Entry n shows no market, or market id alone as it is from now on.
ShowsNoMarket(n) == \A id, j : ~Shown(feed', id, n, j)
ShowsMarket(n, id, last) ==
    /\ Shown(feed', id, n, last)
    /\ feed'[n][last].market = markets'[id]
    /\ \A i, j : Shown(feed', i, n, j) => i = id /\ j = last
    /\ Remarketed(id)

LEMMA FeedGrows ==
    ASSUME IndexTypeOK,
           \/ feed' = feed
           \/ \E entry : FeedGains(entry)
    PROVE  \E n : GrownTo(n)
<1>1. PICK n : n = Len(feed) + 1
    OBVIOUS
<1>2. n \in Nat /\ n >= 1 /\ DOMAIN feed = 1 .. n - 1
    BY <1>1 DEF IndexTypeOK
<1>3. CASE feed' = feed
    BY <1>1, <1>2, <1>3 DEF GrownTo
<1>4. CASE \E entry : FeedGains(entry)
  <2>1. DOMAIN feed' = 1 .. n /\ \A i \in DOMAIN feed : feed'[i] = feed[i]
    BY <1>1, <1>4 DEF FeedGains
  <2> QED BY <1>1, <1>2, <2>1 DEF GrownTo
<1> QED BY <1>3, <1>4

\* The entry that a command adds is what it announces.
LEMMA EntryAdded ==
    ASSUME TypeOK, TypeOK', Backed, IndexTypeOK, Execute
    PROVE  \E n : /\ GrownTo(n)
                  /\ n \in DOMAIN feed' => feed'[n] = reply'.events
                  /\ reply'.events # << >> => n \in DOMAIN feed'
<1>1. PICK entry : entry = reply'.events
    OBVIOUS
<1>2. \/ feed' = feed /\ entry = << >>
      \/ FeedGains(entry)
    BY <1>1, FeedStep
<1>3. PICK n : GrownTo(n)
    BY <1>2, FeedGrows
<1>4. n = Len(feed) + 1 /\ n \in Nat /\ DOMAIN feed = 1 .. n - 1
    BY <1>3 DEF GrownTo
<1>5. CASE feed' = feed /\ entry = << >>
    BY <1>1, <1>3, <1>4, <1>5
<1>6. CASE FeedGains(entry)
  <2>1. feed'[n] = entry /\ DOMAIN feed' = 1 .. n
    BY <1>4, <1>6 DEF FeedGains
  <2>2. n \in DOMAIN feed'
    BY <1>4, <2>1
  <2> QED BY <1>1, <1>3, <2>1, <2>2
<1> QED BY <1>2, <1>5, <1>6

LEMMA SilentKeeps ==
    ASSUME TypeOK, TypeOK', UNCHANGED markets \/ Collected
    PROVE  MarketsKept
<1>1. CASE UNCHANGED markets
    BY <1>1 DEF MarketsKept
<1>2. CASE Collected
  <2>1. PICK id \in DOMAIN markets :
            markets' = [markets EXCEPT ![id].total_fees_collected = 0]
    BY <1>2 DEF Collected, CollectedFrom
  <2>2. markets \in Seq(MarketData)
    BY DEF TypeOK
  <2>3. /\ DOMAIN markets' = DOMAIN markets
        /\ \A i \in DOMAIN markets \ {id} : markets'[i] = markets[i]
        /\ markets'[id] = [markets[id] EXCEPT !.total_fees_collected = 0]
    BY <2>1, <2>2
  <2>4. markets[id] \in MarketData
    BY <2>2, ElementOfSeq
  <2>5. ASSUME NEW m \in MarketData, SameButFees(m, markets[id])
        PROVE  SameButFees(m, markets'[id])
    BY <2>3, <2>4, <2>5 DEF SameButFees, MarketData
  <2> QED BY <2>3, <2>5 DEF MarketsKept
<1> QED BY <1>1, <1>2

\* A command that changes a market beyond its fees shows it at the end.
LEMMA MarketShown ==
    ASSUME TypeOK, TypeOK', Backed, IndexTypeOK, Execute
    PROVE  \E n : /\ GrownTo(n)
                  /\ \/ MarketsKept /\ ShowsNoMarket(n)
                     \/ \E id, last : ShowsMarket(n, id, last)
<1>1. PICK n : /\ GrownTo(n)
               /\ n \in DOMAIN feed' => feed'[n] = reply'.events
               /\ reply'.events # << >> => n \in DOMAIN feed'
    BY EntryAdded
<1>2. PICK entry : entry = reply'.events
    OBVIOUS
<1>3. CASE Tick
  <2>1. /\ \A j \in DOMAIN entry : entry[j].kind = "liquidity"
        /\ UNCHANGED markets
    BY <1>2, <1>3, TickEvents
  <2>2. ShowsNoMarket(n)
    BY <1>1, <1>2, <2>1 DEF ShowsNoMarket, Shown, EventAt
  <2> QED BY <1>1, <2>1, <2>2, SilentKeeps
<1>4. CASE Silent
  <2>1. entry = << >> /\ (UNCHANGED markets \/ Collected)
    BY <1>2, <1>4 DEF Silent
  <2>2. ShowsNoMarket(n)
    BY <1>1, <1>2, <2>1 DEF ShowsNoMarket, Shown, EventAt
  <2> QED BY <1>1, <2>1, <2>2, SilentKeeps
<1>5. ASSUME NEW id, Publishes(id) PROVE ShowsMarket(n, id, 1)
  <2>1. PICK event : event = MarketEvent(id, markets'[id])
    OBVIOUS
  <2>2. entry = <<event>> /\ Remarketed(id)
    BY <1>2, <1>5, <2>1 DEF Publishes
  <2>3. entry # << >> /\ DOMAIN entry = {1} /\ entry[1] = event
    BY <2>2
  <2>4. /\ event.kind = "market" /\ event.id = id
        /\ event.market = markets'[id]
    BY <2>1 DEF MarketEvent
  <2>5. n \in DOMAIN feed' /\ feed'[n] = entry
    BY <1>1, <1>2, <2>3
  <2> QED BY <2>2, <2>3, <2>4, <2>5 DEF ShowsMarket, Shown, EventAt
<1>6. ASSUME NEW bet \in BetEvents, Trades(bet)
      PROVE  ShowsMarket(n, bet.id, 2)
  <2>1. PICK event : event = MarketEvent(bet.id, markets'[bet.id])
    OBVIOUS
  <2>2. entry = <<bet, event>> /\ Remarketed(bet.id)
    BY <1>2, <1>6, <2>1 DEF Trades
  <2>3. /\ entry # << >> /\ DOMAIN entry = {1, 2}
        /\ entry[1] = bet /\ entry[2] = event
    BY <2>2
  <2>4. /\ event.kind = "market" /\ event.id = bet.id
        /\ event.market = markets'[bet.id] /\ bet.kind = "bet"
    BY <2>1 DEF MarketEvent, BetEvents
  <2>5. n \in DOMAIN feed' /\ feed'[n] = entry
    BY <1>1, <1>2, <2>3
  <2> QED BY <2>2, <2>3, <2>4, <2>5 DEF ShowsMarket, Shown, EventAt
<1> QED BY <1>1, <1>3, <1>4, <1>5, <1>6, ExecuteCases

\* The last event that shows market id.
LastOf(f, id, i, j) ==
    /\ Shown(f, id, i, j)
    /\ \A k, l : Shown(f, id, k, l) => k < i \/ (k = i /\ l <= j)

\* The feed shows the markets there are, and every one last as it is, but for
\* the fees that were collected since.
Published ==
    /\ \A id, i, j : Shown(feed, id, i, j) => id \in DOMAIN markets
    /\ \A id \in DOMAIN markets : \E i, j :
            LastOf(feed, id, i, j) /\ SameButFees(feed[i][j].market, markets[id])

\* Old entries show what they showed.
LEMMA ShownBefore ==
    ASSUME NEW n, GrownTo(n)
    PROVE  /\ \A id, i, j : Shown(feed, id, i, j) =>
                Shown(feed', id, i, j) /\ feed'[i] = feed[i] /\ i < n /\ i # n
           /\ \A id, i, j : Shown(feed', id, i, j) =>
                Shown(feed, id, i, j) \/ i = n
<1>1. /\ n \in Nat /\ n >= 1 /\ DOMAIN feed = 1 .. n - 1
      /\ \A i \in DOMAIN feed : i \in DOMAIN feed' /\ feed'[i] = feed[i]
    BY DEF GrownTo
<1>2. \A i \in DOMAIN feed' : i \in DOMAIN feed \/ i = n
    BY DEF GrownTo
<1>3. \A i \in DOMAIN feed : i < n /\ i # n
    BY <1>1
<1> QED BY <1>1, <1>2, <1>3 DEF Shown, EventAt

LEMMA LastKept ==
    ASSUME NEW n, GrownTo(n), NEW id, \A j : ~Shown(feed', id, n, j)
    PROVE  \A i, j : /\ LastOf(feed, id, i, j) <=> LastOf(feed', id, i, j)
                     /\ LastOf(feed, id, i, j) => feed'[i] = feed[i]
<1>1. \A i, j : Shown(feed, id, i, j) <=> Shown(feed', id, i, j)
    BY ShownBefore
<1>2. \A i, j : Shown(feed, id, i, j) => feed'[i] = feed[i]
    BY ShownBefore
<1> QED BY <1>1, <1>2 DEF LastOf

LEMMA LastShown ==
    ASSUME IndexTypeOK', NEW n, GrownTo(n),
           NEW id, NEW last, ShowsMarket(n, id, last)
    PROVE  LastOf(feed', id, n, last)
<1>1. last \in Nat
  <2>1. n \in DOMAIN feed' /\ last \in DOMAIN feed'[n]
    BY DEF ShowsMarket, Shown, EventAt
  <2>2. feed'[n] \in Seq(Events)
    BY <2>1, ElementOfSeq DEF IndexTypeOK
  <2> QED BY <2>1, <2>2
<1>2. \A k, l : Shown(feed', id, k, l) => k < n \/ (k = n /\ l = last)
    BY ShownBefore DEF ShowsMarket
<1> QED BY <1>1, <1>2 DEF LastOf, ShowsMarket

LEMMA PublishedStep ==
    TypeOK /\ TypeOK' /\ Backed /\ IndexTypeOK /\ IndexTypeOK' /\ Published
        /\ [IndexedNext]_<<vars, Index!vars>>
        => Published'
<1> SUFFICES ASSUME TypeOK, TypeOK', Backed, IndexTypeOK, IndexTypeOK', Published,
                    [IndexedNext]_<<vars, Index!vars>>
             PROVE  Published'
    OBVIOUS
<1>1. CASE Execute
  <2>1. PICK n : /\ GrownTo(n)
                 /\ \/ MarketsKept /\ ShowsNoMarket(n)
                    \/ \E id, last : ShowsMarket(n, id, last)
    BY <1>1, MarketShown
  <2>2. \A id, i, j : Shown(feed, id, i, j) => feed[i][j].market \in MarketData
    BY EventType DEF Shown, EventAt, MarketEvents, IndexTypeOK
  <2>3. CASE MarketsKept /\ ShowsNoMarket(n)
    <3>1. ASSUME NEW id, NEW i, NEW j, Shown(feed', id, i, j)
          PROVE  id \in DOMAIN markets'
      BY <2>1, <2>3, <3>1, ShownBefore DEF ShowsNoMarket, Published, MarketsKept
    <3>2. ASSUME NEW id \in DOMAIN markets'
          PROVE  \E i, j : LastOf(feed', id, i, j)
                           /\ SameButFees(feed'[i][j].market, markets'[id])
      <4>1. id \in DOMAIN markets
        BY <2>3 DEF MarketsKept
      <4>2. PICK i, j : /\ LastOf(feed, id, i, j)
                        /\ SameButFees(feed[i][j].market, markets[id])
        BY <4>1 DEF Published
      <4>3. LastOf(feed', id, i, j) /\ feed'[i] = feed[i]
        BY <2>1, <2>3, <4>2, LastKept DEF ShowsNoMarket
      <4>4. feed[i][j].market \in MarketData
        BY <2>2, <4>2 DEF LastOf
      <4>5. SameButFees(feed[i][j].market, markets'[id])
        BY <2>3, <4>1, <4>2, <4>4 DEF MarketsKept
      <4> QED BY <4>3, <4>5
    <3> QED BY <3>1, <3>2 DEF Published
  <2>4. ASSUME NEW new, NEW last, ShowsMarket(n, new, last) PROVE Published'
    <3>1. /\ DOMAIN markets' = DOMAIN markets \cup {new}
          /\ \A id \in DOMAIN markets \ {new} : markets'[id] = markets[id]
          /\ markets'[new] \in MarketData
      BY <2>4 DEF ShowsMarket, Remarketed
    <3>2. ASSUME NEW id, NEW i, NEW j, Shown(feed', id, i, j)
          PROVE  id \in DOMAIN markets'
      BY <2>1, <2>4, <3>1, <3>2, ShownBefore DEF ShowsMarket, Published
    <3>3. ASSUME NEW id \in DOMAIN markets'
          PROVE  \E i, j : LastOf(feed', id, i, j)
                           /\ SameButFees(feed'[i][j].market, markets'[id])
      <4>1. CASE id = new
        <5>1. LastOf(feed', id, n, last) /\ feed'[n][last].market = markets'[id]
          BY <2>1, <2>4, <4>1, LastShown DEF ShowsMarket
        <5>2. SameButFees(feed'[n][last].market, markets'[id])
          BY <3>1, <4>1, <5>1 DEF SameButFees, MarketData
        <5> QED BY <5>1, <5>2
      <4>2. CASE id # new
        <5>1. id \in DOMAIN markets /\ markets'[id] = markets[id]
          BY <3>1, <4>2
        <5>2. PICK i, j : /\ LastOf(feed, id, i, j)
                          /\ SameButFees(feed[i][j].market, markets[id])
          BY <5>1 DEF Published
        <5>3. \A l : ~Shown(feed', id, n, l)
          BY <2>4, <4>2 DEF ShowsMarket
        <5>4. LastOf(feed', id, i, j) /\ feed'[i] = feed[i]
          BY <2>1, <5>2, <5>3, LastKept
        <5> QED BY <5>1, <5>2, <5>4
      <4> QED BY <4>1, <4>2
    <3> QED BY <3>2, <3>3 DEF Published
  <2> QED BY <2>1, <2>3, <2>4
<1>2. CASE ~Execute
  <2>1. UNCHANGED <<markets, feed>>
    BY <1>2 DEF IndexedNext, Indexing, Index!Deliver, Index!SaveEvent,
                Index!SaveBet, Index!UpdatePosition, Index!StoreMarket,
                Index!StoreLiquidity, Index!Return, Index!Commit, Index!Crash,
                Index!vars, vars
  <2>2. \A i, j, id : /\ Shown(feed, id, i, j)' <=> Shown(feed, id, i, j)
                      /\ LastOf(feed, id, i, j)' <=> LastOf(feed, id, i, j)
    BY <2>1 DEF LastOf, Shown, EventAt
  <2> QED BY <2>1 DEF Published, LastOf, Shown, EventAt, SameButFees
<1> QED BY <1>1, <1>2

-----------------------------------------------------------------------------
(* What the database has of it. *)

\* Event j of entry i was handled, in this round of deliveries.
Handled(i, j) == i < next \/ (i = next /\ j < at)

\* Unless a write failed: the last event of a market that was handled is what
\* is stored of it, and the bets that were handled are stored.
RecordsStored ==
    \A id, i, j : LastOf(feed, id, i, j) /\ Handled(i, j) =>
        id \in DOMAIN records /\ records[id] = feed[i][j].market
BetsStored ==
    \A i, j : EventAt(feed, "bet", i, j) /\ Handled(i, j) =>
        Index!Recorded(feed[i][j].txid)
Stored ==
    /\ DOMAIN records \subseteq DOMAIN markets
    /\ failures = 0 => RecordsStored /\ BetsStored

LEMMA StoredInit == IndexedInit => Published /\ Stored
<1> SUFFICES ASSUME IndexedInit PROVE Published /\ Stored
    OBVIOUS
<1>1. DOMAIN feed = {} /\ DOMAIN records = {} /\ DOMAIN markets = {}
    BY DEF IndexedInit, Index!Init, Init
<1> QED BY <1>1 DEF Published, Stored, RecordsStored, BetsStored, LastOf, Shown,
                    EventAt

\* The places of an event.
LEMMA PlaceType ==
    ASSUME IndexTypeOK, NEW kind, NEW i, NEW j, EventAt(feed, kind, i, j)
    PROVE  /\ i \in Nat /\ i >= 1 /\ i <= Len(feed)
           /\ j \in Nat /\ j >= 1 /\ j <= Len(feed[i])
           /\ feed[i] \in Seq(Events)
<1>1. i \in DOMAIN feed /\ j \in DOMAIN feed[i]
    BY DEF EventAt
<1>2. feed \in Seq(Seq(Events))
    BY DEF IndexTypeOK
<1>3. feed[i] \in Seq(Events)
    BY <1>1, <1>2, ElementOfSeq
<1> QED BY <1>1, <1>2, <1>3

\* The indexer handles no event but the one that it is at.
LEMMA Progress ==
    ASSUME IndexTypeOK, Index!Deliver \/ Index!Commit \/ Index!Crash,
           NEW kind, NEW i, NEW j, EventAt(feed, kind, i, j), Handled(i, j)'
    PROVE  Handled(i, j) \/ (i = next /\ j = at /\ at' = at + 1)
<1>1. /\ i \in Nat /\ j \in Nat /\ j >= 1 /\ j <= Len(feed[i])
      /\ Len(feed[i]) \in Nat
    BY PlaceType
<1>2. next \in Nat /\ at \in Nat /\ committed \in Nat /\ committed < next
    BY DEF IndexTypeOK
<1>3. PICK n, a : n = next' /\ a = at'
    OBVIOUS
<1>4. i < n \/ (i = n /\ j < a)
    BY <1>3 DEF Handled
<1>5. CASE n = next /\ a = at
    BY <1>4, <1>5 DEF Handled
<1>6. CASE n = next /\ a = at + 1
    BY <1>1, <1>2, <1>3, <1>4, <1>6 DEF Handled
<1>7. CASE n = next + 1 /\ a = 0 /\ at = Len(feed[next]) + 1
    BY <1>1, <1>2, <1>4, <1>7 DEF Handled
<1>8. CASE n = committed + 1 /\ a = 0
    BY <1>1, <1>2, <1>4, <1>8 DEF Handled
<1>9. \/ n = next /\ a = at
      \/ n = next /\ a = at + 1
      \/ n = next + 1 /\ a = 0 /\ at = Len(feed[next]) + 1
      \/ n = committed + 1 /\ a = 0
    BY <1>3 DEF Index!Deliver, Index!SaveEvent, Index!SaveBet, Index!SkipBet,
                Index!UpdatePosition, Index!StoreMarket, Index!StoreLiquidity,
                Index!Return, Index!Commit, Index!Crash, Index!Advance
<1> QED BY <1>5, <1>6, <1>7, <1>8, <1>9

\* An event of a new entry is not handled.
LEMMA NewIsUnhandled ==
    ASSUME IndexTypeOK, IndexTypeOK', NEW n, GrownTo(n), UNCHANGED <<next, at>>,
           NEW kind, NEW i, NEW j, EventAt(feed', kind, i, j), Handled(i, j)
    PROVE  i # n
<1>1. /\ n \in Nat /\ next \in 1 .. n /\ at \in Nat
      /\ n \notin DOMAIN feed /\ (next \notin DOMAIN feed => at = 0)
    BY DEF GrownTo, IndexTypeOK
<1>2. j \in Nat /\ j >= 1
  <2>1. i \in DOMAIN feed' /\ j \in DOMAIN feed'[i]
    BY DEF EventAt
  <2>2. feed'[i] \in Seq(Events)
    BY <2>1, ElementOfSeq DEF IndexTypeOK
  <2> QED BY <2>1, <2>2
<1>3. CASE next = n
    BY <1>1, <1>2, <1>3 DEF Handled
<1>4. CASE next # n
    BY <1>1, <1>4 DEF Handled
<1> QED BY <1>3, <1>4

LEMMA StoredExecute ==
    ASSUME TypeOK, TypeOK', Backed, IndexTypeOK, IndexTypeOK', Stored, Execute
    PROVE  Stored'
<1>1. PICK n : /\ GrownTo(n)
               /\ \/ MarketsKept /\ ShowsNoMarket(n)
                  \/ \E id, last : ShowsMarket(n, id, last)
    BY MarketShown
<1>2. UNCHANGED <<next, at, bets, records, failures>>
    BY DEF Execute
<1>3. DOMAIN markets \subseteq DOMAIN markets'
    BY <1>1 DEF MarketsKept, ShowsMarket, Remarketed
<1>4. /\ DOMAIN feed = 1 .. n - 1 /\ n \in Nat
      /\ DOMAIN feed' = 1 .. n - 1 \/ DOMAIN feed' = 1 .. n
      /\ \A i \in DOMAIN feed : feed'[i] = feed[i]
    BY <1>1 DEF GrownTo
<1>5. ASSUME NEW kind, NEW i, NEW j, EventAt(feed', kind, i, j), Handled(i, j)
      PROVE  EventAt(feed, kind, i, j) /\ feed'[i] = feed[i]
  <2>1. i # n
    BY <1>1, <1>2, <1>5, NewIsUnhandled
  <2> QED BY <1>4, <1>5, <2>1 DEF EventAt
<1>6. ASSUME failures = 0, NEW id, NEW i, NEW j,
             LastOf(feed', id, i, j), Handled(i, j)
      PROVE  id \in DOMAIN records /\ records[id] = feed'[i][j].market
  <2>1. Shown(feed, id, i, j) /\ feed'[i] = feed[i]
    BY <1>5, <1>6 DEF LastOf, Shown
  <2>2. \A k, l : Shown(feed, id, k, l) => Shown(feed', id, k, l)
    BY <1>1, ShownBefore
  <2>3. LastOf(feed, id, i, j)
    BY <1>6, <2>1, <2>2 DEF LastOf
  <2> QED BY <1>6, <2>1, <2>3 DEF Stored, RecordsStored
<1>7. ASSUME failures = 0, NEW i, NEW j,
             EventAt(feed', "bet", i, j), Handled(i, j)
      PROVE  Index!Recorded(feed'[i][j].txid)
    BY <1>5, <1>7 DEF Stored, BetsStored
<1>8. failures = 0 => (RecordsStored /\ BetsStored)'
    BY <1>2, <1>6, <1>7 DEF RecordsStored, BetsStored, Handled, Index!Recorded
<1>9. DOMAIN records' \subseteq DOMAIN markets'
    BY <1>2, <1>3 DEF Stored
<1> QED BY <1>2, <1>8, <1>9 DEF Stored

\* The step that goes on from an event is the one for its kind.
LEMMA GoesOn ==
    ASSUME IndexTypeOK, Index!Deliver \/ Index!Commit \/ Index!Crash,
           at' = at + 1, NEW kind, EventAt(feed, kind, next, at)
    PROVE  \/ kind = "bet" /\ (Index!SaveBet \/ Index!UpdatePosition)
           \/ kind = "market" /\ Index!StoreMarket
           \/ kind = "liquidity" /\ Index!StoreLiquidity
<1>1. at >= 1 /\ at \in Nat
    BY PlaceType
<1>2. ~Index!SaveEvent
    BY <1>1 DEF Index!SaveEvent
<1>3. ~Index!Return /\ ~Index!Commit /\ ~Index!Crash
    BY <1>1 DEF Index!Return, Index!Commit, Index!Crash
<1>4. kind = Index!Event.kind
    BY DEF EventAt, Index!Event
<1>5. \A other : Index!Handling(other) => kind = other
    BY <1>4 DEF Index!Handling
<1>6. Index!UpdatePosition => Index!Handling("bet")
    BY DEF Index!UpdatePosition, IndexTypeOK
<1>7. /\ Index!SaveBet => Index!Handling("bet")
      /\ Index!StoreMarket => Index!Handling("market")
      /\ Index!StoreLiquidity => Index!Handling("liquidity")
    BY DEF Index!SaveBet, Index!StoreMarket, Index!StoreLiquidity
<1> QED BY <1>2, <1>3, <1>5, <1>6, <1>7 DEF Index!Deliver

\* No bet is removed, and a bet that was gone on from is recorded.
LEMMA BetsKept ==
    ASSUME IndexTypeOK, Index!Deliver \/ Index!Commit \/ Index!Crash
    PROVE  /\ bets \subseteq bets'
           /\ UNCHANGED feed
           /\ failures' = failures + 1 \/ failures' = failures
BY DEF Index!Deliver, Index!SaveEvent, Index!SaveBet, Index!UpdatePosition,
       Index!StoreMarket, Index!StoreLiquidity, Index!Return, Index!Commit,
       Index!Crash, Index!database, Index!Failing

LEMMA BetsStoredStep ==
    ASSUME IndexTypeOK, Index!Deliver \/ Index!Commit \/ Index!Crash,
           failures' = 0, failures = 0, BetsStored
    PROVE  BetsStored'
<1>1. bets \subseteq bets' /\ feed' = feed
    BY BetsKept
<1>2. ASSUME NEW i, NEW j, EventAt(feed, "bet", i, j), Handled(i, j)'
      PROVE  \E bet \in bets' : bet.index = feed[i][j].txid
  <2>1. CASE Handled(i, j)
    BY <1>1, <1>2, <2>1 DEF BetsStored, Index!Recorded
  <2>2. CASE i = next /\ j = at /\ at' = at + 1
    <3>1. Index!SaveBet \/ Index!UpdatePosition
      BY <1>2, <2>2, GoesOn
    <3>2. ~Index!Failing /\ at' # at
      BY <2>2 DEF Index!Failing, IndexTypeOK
    <3>3. Index!Event = feed[i][j]
      BY <2>2 DEF Index!Event
    <3>4. CASE Index!SaveBet
      BY <1>1, <3>2, <3>3, <3>4 DEF Index!SaveBet, Index!Recorded
    <3>5. CASE Index!UpdatePosition
      <4>1. Index!BetOf(Index!Event) \in bets
        BY <3>5 DEF Index!UpdatePosition, IndexTypeOK
      <4>2. Index!BetOf(Index!Event).index = Index!Event.txid
        BY DEF Index!BetOf
      <4> QED BY <1>1, <3>3, <4>1, <4>2
    <3> QED BY <3>1, <3>4, <3>5
  <2> QED BY <1>2, <2>1, <2>2, Progress
<1> QED BY <1>1, <1>2 DEF BetsStored, Index!Recorded, Handled

\* A market's record is replaced by an event that is at or before its last.
LEMMA RecordsStoredStep ==
    ASSUME IndexTypeOK, Index!Deliver \/ Index!Commit \/ Index!Crash,
           failures' = 0, failures = 0, RecordsStored
    PROVE  RecordsStored'
<1>1. feed' = feed
    BY BetsKept
<1>2. CASE Index!StoreMarket
  <2>1. PICK id : id = Index!Event.id
    OBVIOUS
  <2>2. /\ Index!Handling("market") /\ at' = at + 1 /\ next' = next
        /\ records' = Index!upsert(records, id, Index!Event.market)
    BY <1>2, <2>1 DEF Index!StoreMarket, Index!Advance, Index!Failing
  <2>3. Shown(feed, id, next, at) /\ Index!Event = feed[next][at]
    BY <2>1, <2>2 DEF Shown, EventAt, Index!Handling, Index!Event
  <2>4. /\ DOMAIN records' = DOMAIN records \cup {id}
        /\ records'[id] = feed[next][at].market
        /\ \A k \in DOMAIN records \ {id} : records'[k] = records[k]
    BY <2>2, <2>3 DEF Index!upsert
  <2>5. ASSUME NEW k, NEW i, NEW j, LastOf(feed, k, i, j), Handled(i, j)'
        PROVE  k \in DOMAIN records' /\ records'[k] = feed[i][j].market
    <3>1. EventAt(feed, "market", i, j)
      BY <2>5 DEF LastOf, Shown
    <3>2. CASE i = next /\ j = at
      BY <2>3, <2>4, <2>5, <3>2 DEF LastOf, Shown
    <3>3. CASE Handled(i, j)
      <4>1. i \in Nat /\ j \in Nat /\ next \in Nat /\ at \in Nat
        BY <3>1, PlaceType DEF IndexTypeOK
      <4>2. k # id
        BY <2>3, <2>5, <3>3, <4>1 DEF LastOf, Handled
      <4> QED BY <2>4, <2>5, <3>3, <4>2 DEF RecordsStored
    <3> QED BY <2>5, <3>1, <3>2, <3>3, Progress
  <2> QED BY <1>1, <2>5 DEF RecordsStored, Handled
<1>3. CASE ~Index!StoreMarket
  <2>1. records' = records
    BY <1>3 DEF Index!Deliver, Index!SaveEvent, Index!SaveBet,
                Index!UpdatePosition, Index!StoreLiquidity, Index!Return,
                Index!Commit, Index!Crash, Index!database
  <2>2. ASSUME NEW k, NEW i, NEW j, LastOf(feed, k, i, j), Handled(i, j)'
        PROVE  Handled(i, j)
    <3>1. EventAt(feed, "market", i, j)
      BY <2>2 DEF LastOf, Shown
    <3> QED BY <1>3, <2>2, <3>1, Progress, GoesOn
  <2> QED BY <1>1, <2>1, <2>2 DEF RecordsStored, Handled
<1> QED BY <1>2, <1>3

LEMMA StoredStep ==
    TypeOK /\ TypeOK' /\ Backed /\ IndexTypeOK /\ IndexTypeOK' /\ Published /\ Stored
        /\ [IndexedNext]_<<vars, Index!vars>>
        => Stored'
<1> SUFFICES ASSUME TypeOK, TypeOK', Backed, IndexTypeOK, IndexTypeOK', Published,
                    Stored, [IndexedNext]_<<vars, Index!vars>>
             PROVE  Stored'
    OBVIOUS
<1>1. CASE Execute
    BY <1>1, StoredExecute
<1>2. CASE UNCHANGED <<vars, Index!vars>>
  <2>1. UNCHANGED <<markets, feed, next, at, bets, records, failures>>
    BY <1>2 DEF vars, Index!vars, Index!database
  <2> QED BY <2>1 DEF Stored, RecordsStored, BetsStored, LastOf, Shown, EventAt,
                      Handled, Index!Recorded
<1>3. CASE /\ Index!Deliver \/ Index!Commit \/ Index!Crash
           /\ UNCHANGED vars
  <2>1. DOMAIN records' \subseteq DOMAIN markets'
    <3>1. markets' = markets
      BY <1>3 DEF vars
    <3>2. CASE Index!StoreMarket /\ ~(records' = records)
      <4>1. PICK id : id = Index!Event.id
        OBVIOUS
      <4>2. /\ Index!Handling("market")
            /\ records' = Index!upsert(records, id, Index!Event.market)
        BY <3>2, <4>1 DEF Index!StoreMarket
      <4>3. Shown(feed, id, next, at)
        BY <4>1, <4>2 DEF Shown, EventAt, Index!Handling, Index!Event
      <4>4. DOMAIN records' = DOMAIN records \cup {id}
        BY <4>2 DEF Index!upsert
      <4> QED BY <3>1, <4>3, <4>4 DEF Published, Stored
    <3>3. CASE records' = records
      BY <3>1, <3>3 DEF Stored
    <3>4. Index!StoreMarket \/ records' = records
      BY <1>3 DEF Index!Deliver, Index!SaveEvent, Index!SaveBet,
                  Index!UpdatePosition, Index!StoreLiquidity, Index!Return,
                  Index!Commit, Index!Crash, Index!database
    <3> QED BY <3>2, <3>3, <3>4
  <2>2. failures' = 0 => failures = 0
    BY <1>3, BetsKept DEF IndexTypeOK
  <2> QED BY <1>3, <2>1, <2>2, BetsStoredStep, RecordsStoredStep DEF Stored
<1> QED BY <1>1, <1>2, <1>3 DEF IndexedNext, Indexing

LEMMA AlwaysStored == IndexedSpec => [](Published /\ Stored)
BY StoredInit, PublishedStep, StoredStep, IndexedTypes, PTL DEF IndexedSpec

\* Once everything was delivered, however the process stopped before, and
\* unless a write failed, the database has the markets of the program but for
\* collected fees, and every bet (service.ts: findOneAndUpdate with upsert for
\* the first, the unique index for the second; models.ts).
THEOREM StopsLoseNothing == IndexedSpec => []RecoversFromStops
<1>1. IndexTypeOK /\ Published /\ Stored => RecoversFromStops
  <2> SUFFICES ASSUME IndexTypeOK, Published, Stored, Delivered, failures = 0
               PROVE  /\ DOMAIN records = DOMAIN markets
                      /\ \A id \in DOMAIN markets : records[id] = IndexedRecord(id)
                      /\ \A i \in DOMAIN feed : \A j \in DOMAIN feed[i] :
                            feed[i][j].kind = "bet" =>
                                Index!Recorded(feed[i][j].txid)
    BY DEF RecoversFromStops
  <2>1. ASSUME NEW kind, NEW i, NEW j, EventAt(feed, kind, i, j)
        PROVE  Handled(i, j)
    <3>1. /\ i \in Nat /\ i <= Len(feed) /\ Len(feed) \in Nat
          /\ next > Len(feed) /\ next \in Nat
      BY <2>1, PlaceType DEF Delivered, IndexTypeOK
    <3> QED BY <3>1 DEF Handled
  <2>2. RecordsStored /\ BetsStored /\ DOMAIN records \subseteq DOMAIN markets
    BY DEF Stored
  <2>3. ASSUME NEW id \in DOMAIN markets
        PROVE  id \in DOMAIN records /\ records[id] = IndexedRecord(id)
    <3>1. PICK i, j : /\ LastOf(feed, id, i, j)
                      /\ SameButFees(feed[i][j].market, markets[id])
      BY DEF Published
    <3>2. Handled(i, j)
      BY <2>1, <3>1 DEF LastOf, Shown
    <3>3. id \in DOMAIN records /\ records[id] = feed[i][j].market
      BY <2>2, <3>1, <3>2 DEF RecordsStored
    <3> QED BY <3>1, <3>3 DEF SameButFees, IndexedRecord
  <2>4. ASSUME NEW i \in DOMAIN feed, NEW j \in DOMAIN feed[i],
               feed[i][j].kind = "bet"
        PROVE  Index!Recorded(feed[i][j].txid)
    <3>1. EventAt(feed, "bet", i, j)
      BY <2>4 DEF EventAt
    <3> QED BY <2>1, <2>2, <3>1 DEF BetsStored
  <2> QED BY <2>2, <2>3, <2>4
<1> QED BY <1>1, IndexedTypes, AlwaysStored, PTL

-----------------------------------------------------------------------------
(* The bets that were announced, and the shares that players hold. *)

\* Entry n shows no bet, or this one.
ShowsNoBet(n) == \A j : ~EventAt(feed', "bet", n, j)
ShowsBet(n, bet) ==
    /\ EventAt(feed', "bet", n, 1) /\ feed'[n][1] = bet
    /\ \A j : EventAt(feed', "bet", n, j) => j = 1

\* No player's shares change.
SharesKept ==
    \A slot \in Slots, id \in MarketIds, side \in Sides :
        positions'[slot][id].shares[side] = positions[slot][id].shares[side]

\* A bet moves the shares that it says, and takes the number of its command.
Moves(bet) ==
    /\ bet.txid = txcounter /\ txcounter' = txcounter + 1
    /\ LET document == Index!BetOf(bet)
       IN  SharesMove(document.pid, document.id, Index!SideOfBet(document),
                      Index!Change(document))

LEMMA SilentHolds ==
    ASSUME TypeOK, TypeOK', UNCHANGED positions \/ Claimed
    PROVE  SharesKept
<1>1. CASE UNCHANGED positions
    BY <1>1 DEF SharesKept
<1>2. CASE Claimed
  <2>1. PICK pid \in DOMAIN players, id \in DOMAIN markets :
            positions' = [positions EXCEPT ![SlotOf(pid)][id].claimed = TRUE]
    BY <1>2 DEF Claimed, ClaimedBy
  <2>2. SlotOf(pid) \in Slots /\ id \in MarketIds
    BY Reading, SlotType
  <2>3. PICK slot : slot = SlotOf(pid)
    OBVIOUS
  <2>4. positions \in [Slots -> [MarketIds -> PlayerMarketPosition]]
    BY DEF TypeOK
  <2>5. \A x \in Slots, i \in MarketIds :
            positions'[x][i].shares = positions[x][i].shares
    BY <2>1, <2>2, <2>3, <2>4 DEF PlayerMarketPosition
  <2> QED BY <2>5 DEF SharesKept
<1> QED BY <1>1, <1>2

\* A command that moves shares shows the bet that says so.
LEMMA BetShown ==
    ASSUME TypeOK, TypeOK', Backed, IndexTypeOK, Execute
    PROVE  \E n : /\ GrownTo(n)
                  /\ \/ /\ SharesKept /\ ShowsNoBet(n)
                        /\ txcounter' = txcounter \/ txcounter' = txcounter + 1
                     \/ \E bet \in BetEvents : ShowsBet(n, bet) /\ Moves(bet)
<1>1. PICK n : /\ GrownTo(n)
               /\ n \in DOMAIN feed' => feed'[n] = reply'.events
               /\ reply'.events # << >> => n \in DOMAIN feed'
    BY EntryAdded
<1>2. PICK entry : entry = reply'.events
    OBVIOUS
<1>3. CASE Tick
  <2>1. /\ \A j \in DOMAIN entry : entry[j].kind = "liquidity"
        /\ UNCHANGED <<positions, txcounter>>
    BY <1>2, <1>3, TickEvents
  <2>2. ShowsNoBet(n)
    BY <1>1, <1>2, <2>1 DEF ShowsNoBet, EventAt
  <2> QED BY <1>1, <2>1, <2>2, SilentHolds
<1>4. CASE Silent /\ txcounter' = txcounter + 1
  <2>1. entry = << >> /\ (UNCHANGED positions \/ Claimed)
    BY <1>2, <1>4 DEF Silent
  <2>2. ShowsNoBet(n)
    BY <1>1, <1>2, <2>1 DEF ShowsNoBet, EventAt
  <2> QED BY <1>1, <1>4, <2>1, <2>2, SilentHolds
<1>5. ASSUME NEW id, Publishes(id) PROVE SharesKept /\ ShowsNoBet(n)
  <2>1. PICK event : event = MarketEvent(id, markets'[id])
    OBVIOUS
  <2>2. entry = <<event>> /\ UNCHANGED positions
    BY <1>2, <1>5, <2>1 DEF Publishes
  <2>3. DOMAIN entry = {1} /\ entry[1] = event
    BY <2>2
  <2>4. event.kind = "market"
    BY <2>1 DEF MarketEvent
  <2>5. ShowsNoBet(n)
    BY <1>1, <1>2, <2>3, <2>4 DEF ShowsNoBet, EventAt
  <2> QED BY <2>2, <2>5, SilentHolds
<1>6. ASSUME NEW bet \in BetEvents, Trades(bet), txcounter' = txcounter + 1
      PROVE  ShowsBet(n, bet) /\ Moves(bet)
  <2>1. PICK event : event = MarketEvent(bet.id, markets'[bet.id])
    OBVIOUS
  <2>2. entry = <<bet, event>>
    BY <1>2, <1>6, <2>1 DEF Trades
  <2>3. /\ entry # << >> /\ DOMAIN entry = {1, 2}
        /\ entry[1] = bet /\ entry[2] = event
    BY <2>2
  <2>4. event.kind = "market" /\ bet.kind = "bet"
    BY <2>1 DEF MarketEvent, BetEvents
  <2>5. n \in DOMAIN feed' /\ feed'[n] = entry
    BY <1>1, <1>2, <2>3
  <2>6. ShowsBet(n, bet)
    BY <2>3, <2>4, <2>5 DEF ShowsBet, EventAt
  <2>7. PICK document : document = Index!BetOf(bet)
    OBVIOUS
  <2>8. document.pid = bet.pid /\ document.id = bet.id
    BY <2>7 DEF Index!BetOf
  <2>9. /\ bet.txid = txcounter
        /\ SharesMove(bet.pid, bet.id, Index!SideOfBet(document),
                      Index!Change(document))
    BY <1>6, <2>7 DEF Trades
  <2> QED BY <1>6, <2>6, <2>7, <2>8, <2>9 DEF Moves
<1> QED BY <1>1, <1>3, <1>4, <1>5, <1>6, ExecuteCases

\* The documents of the bets in a feed.
Announced(f) ==
    {document \in BetDocuments :
        \E i, j : EventAt(f, "bet", i, j) /\ document = Index!BetOf(f[i][j])}

\* The feed announces finitely many bets, each by the number of its command;
\* the stored bets are among them.
AnnouncedOK ==
    /\ IsFiniteSet(Announced(feed))
    /\ \A bet \in Announced(feed) : bet.index < txcounter
    /\ \A bet, other \in Announced(feed) : bet.index = other.index => bet = other
    /\ bets \subseteq Announced(feed)

\* Each player holds the shares that the announced bets add up to.
SharesAnnouncedBy(documents) ==
    \A pid \in Pids, id \in MarketIds, side \in Index!Sides :
        positions[SlotOf(pid)][id].shares[side]
            = SharesOf(documents, pid, id, side)

\* A player's positions are under a key of their own.
SlotsApart == \A pid, other \in Pids : SlotOf(pid) = SlotOf(other) => pid = other

LEMMA AnnouncedGrows ==
    ASSUME IndexTypeOK, IndexTypeOK', NEW n, GrownTo(n)
    PROVE  /\ ShowsNoBet(n) => Announced(feed') = Announced(feed)
           /\ \A bet \in BetEvents : ShowsBet(n, bet) =>
                Announced(feed') = Announced(feed) \cup {Index!BetOf(bet)}
<1>1. /\ n \in Nat /\ DOMAIN feed = 1 .. n - 1 /\ n \notin DOMAIN feed
      /\ DOMAIN feed' = 1 .. n - 1 \/ DOMAIN feed' = 1 .. n
      /\ \A i \in DOMAIN feed : feed'[i] = feed[i]
    BY DEF GrownTo
<1>2. \A i, j : EventAt(feed, "bet", i, j) =>
            EventAt(feed', "bet", i, j) /\ feed'[i] = feed[i]
    BY <1>1 DEF EventAt
<1>3. \A i, j : EventAt(feed', "bet", i, j) =>
            i = n \/ (EventAt(feed, "bet", i, j) /\ feed'[i] = feed[i])
    BY <1>1 DEF EventAt
<1>4. CASE ShowsNoBet(n)
  <2>1. \A i, j : EventAt(feed', "bet", i, j) =>
            EventAt(feed, "bet", i, j) /\ feed'[i] = feed[i]
    BY <1>3, <1>4 DEF ShowsNoBet
  <2>2. Announced(feed') = Announced(feed)
    BY <1>2, <2>1 DEF Announced
  <2>3. \A bet \in BetEvents : ~ShowsBet(n, bet)
    BY <1>4 DEF ShowsNoBet, ShowsBet
  <2> QED BY <2>2, <2>3
<1>5. ASSUME NEW bet \in BetEvents, ShowsBet(n, bet)
      PROVE  Announced(feed') = Announced(feed) \cup {Index!BetOf(bet)}
  <2>1. PICK new : new = Index!BetOf(bet)
    OBVIOUS
  <2>2. new \in BetDocuments
    BY <2>1, BetDocument
  <2>3. /\ EventAt(feed', "bet", n, 1) /\ Index!BetOf(feed'[n][1]) = new
        /\ \A j : EventAt(feed', "bet", n, j) => j = 1
    BY <1>5, <2>1 DEF ShowsBet
  <2>4. ASSUME NEW document \in BetDocuments
        PROVE  document \in Announced(feed') <=>
                    document \in Announced(feed) \/ document = new
    BY <1>2, <1>3, <2>3 DEF Announced
  <2>5. /\ Announced(feed') \subseteq BetDocuments
        /\ Announced(feed) \subseteq BetDocuments
    BY DEF Announced
  <2> QED BY <2>1, <2>2, <2>4, <2>5
<1>6. ShowsNoBet(n) => Announced(feed') = Announced(feed)
    BY <1>4
<1> QED BY <1>5, <1>6

LEMMA AnnouncedInit ==
    IndexedInit => AnnouncedOK /\ SharesAnnouncedBy(Announced(feed))
<1> SUFFICES ASSUME IndexedInit
             PROVE  AnnouncedOK /\ SharesAnnouncedBy(Announced(feed))
    OBVIOUS
<1>1. DOMAIN feed = {} /\ bets = {}
    BY DEF IndexedInit, Index!Init
<1>2. Announced(feed) = {}
    BY <1>1 DEF Announced, EventAt
<1>3. IsFiniteSet({})
    BY FS_EmptySet
<1>4. ASSUME NEW pid \in Pids, NEW id \in MarketIds, NEW side \in Index!Sides
      PROVE  positions[SlotOf(pid)][id].shares[side] = 0
  <2>1. SlotOf(pid) \in Slots /\ side \in Sides
    BY SlotType DEF Index!Sides, Sides
  <2> QED BY <2>1 DEF IndexedInit, Init, NoPosition
<1> QED BY <1>1, <1>2, <1>3, <1>4, SharesOfNone DEF AnnouncedOK, SharesAnnouncedBy

\* The stored bet is an announced one.
LEMMA SavedAnnounced ==
    ASSUME IndexTypeOK, AnnouncedOK, Index!Deliver \/ Index!Commit \/ Index!Crash
    PROVE  bets' \subseteq Announced(feed)
<1>1. CASE Index!SaveBet
  <2>1. Index!Handling("bet")
    BY <1>1 DEF Index!SaveBet
  <2>2. EventAt(feed, "bet", next, at) /\ Index!Event = feed[next][at]
    BY <2>1 DEF EventAt, Index!Handling, Index!Event
  <2>3. Index!Event \in BetEvents
    BY <2>2, EventType DEF EventAt, IndexTypeOK
  <2>4. Index!BetOf(Index!Event) \in Announced(feed)
    BY <2>2, <2>3, BetDocument DEF Announced
  <2> QED BY <1>1, <2>4 DEF Index!SaveBet, AnnouncedOK
<1>2. CASE ~Index!SaveBet
  <2>1. bets' = bets
    BY <1>2 DEF Index!Deliver, Index!SaveEvent, Index!UpdatePosition,
                Index!StoreMarket, Index!StoreLiquidity, Index!Return,
                Index!Commit, Index!Crash, Index!database
  <2> QED BY <2>1 DEF AnnouncedOK
<1> QED BY <1>1, <1>2

\* A new bet is announced by a number of its own.
LEMMA NewDocument ==
    ASSUME TypeOK, AnnouncedOK, NEW bet \in BetEvents, Moves(bet)
    PROVE  LET document == Index!BetOf(bet)
           IN  /\ document \in BetDocuments /\ document \notin Announced(feed)
               /\ document.index = txcounter
               /\ \A other \in Announced(feed) : document.index # other.index
<1>1. PICK document : document = Index!BetOf(bet)
    OBVIOUS
<1>2. document \in BetDocuments /\ document.index = txcounter
    BY <1>1, BetDocument DEF Moves
<1>3. \A other \in Announced(feed) : document.index # other.index
  <2>1. \A other \in Announced(feed) : other.index \in Nat /\ other.index < txcounter
    BY DEF AnnouncedOK, Announced, BetDocuments
  <2> QED BY <1>2, <2>1 DEF BetDocuments
<1> QED BY <1>1, <1>2, <1>3

LEMMA AnnouncedStep ==
    TypeOK /\ TypeOK' /\ Backed /\ IndexTypeOK /\ IndexTypeOK' /\ AnnouncedOK
        /\ [IndexedNext]_<<vars, Index!vars>>
        => AnnouncedOK'
<1> SUFFICES ASSUME TypeOK, TypeOK', Backed, IndexTypeOK, IndexTypeOK', AnnouncedOK,
                    [IndexedNext]_<<vars, Index!vars>>
             PROVE  AnnouncedOK'
    OBVIOUS
<1>1. CASE Execute
  <2>1. PICK n : /\ GrownTo(n)
                 /\ \/ /\ SharesKept /\ ShowsNoBet(n)
                       /\ txcounter' = txcounter \/ txcounter' = txcounter + 1
                    \/ \E bet \in BetEvents : ShowsBet(n, bet) /\ Moves(bet)
    BY <1>1, BetShown
  <2>2. UNCHANGED bets
    BY <1>1 DEF Execute
  <2>3. PICK old, new : old = Announced(feed) /\ new = Announced(feed')
    OBVIOUS
  <2>4. /\ old \subseteq BetDocuments /\ IsFiniteSet(old) /\ bets \subseteq old
        /\ \A bet \in old : bet.index \in Nat /\ bet.index < txcounter
        /\ \A bet, other \in old : bet.index = other.index => bet = other
    BY <2>3 DEF AnnouncedOK, Announced, BetDocuments
  <2>5. txcounter \in Nat
    BY DEF TypeOK
  <2>6. CASE /\ ShowsNoBet(n)
             /\ txcounter' = txcounter \/ txcounter' = txcounter + 1
    <3>1. new = old
      BY <2>1, <2>3, <2>6, AnnouncedGrows
    <3>2. \A bet \in new : bet.index < txcounter'
      BY <2>4, <2>5, <2>6, <3>1
    <3> QED BY <2>2, <2>3, <2>4, <3>1, <3>2 DEF AnnouncedOK
  <2>7. ASSUME NEW bet \in BetEvents, ShowsBet(n, bet), Moves(bet)
        PROVE  AnnouncedOK'
    <3>1. PICK document : document = Index!BetOf(bet)
      OBVIOUS
    <3>2. new = old \cup {document}
      BY <2>1, <2>3, <2>7, <3>1, AnnouncedGrows
    <3>3. /\ document.index = txcounter
          /\ \A other \in old : document.index # other.index
      BY <2>3, <2>7, <3>1, NewDocument
    <3>4. IsFiniteSet(new) /\ bets' \subseteq new
      BY <2>2, <2>4, <3>2, FS_AddElement
    <3>5. txcounter' = txcounter + 1
      BY <2>7 DEF Moves
    <3>6. \A d \in new : d.index < txcounter'
      BY <2>4, <2>5, <3>2, <3>3, <3>5
    <3>7. \A d, other \in new : d.index = other.index => d = other
      BY <2>4, <3>2, <3>3
    <3> QED BY <2>3, <3>4, <3>6, <3>7 DEF AnnouncedOK
  <2> QED BY <2>1, <2>6, <2>7
<1>2. CASE UNCHANGED <<vars, Index!vars>>
  <2>1. UNCHANGED <<feed, bets, txcounter>>
    BY <1>2 DEF vars, Index!vars, Index!database
  <2>2. Announced(feed)' = Announced(feed)
    BY <2>1
  <2> QED BY <2>1, <2>2 DEF AnnouncedOK
<1>3. CASE /\ Index!Deliver \/ Index!Commit \/ Index!Crash
           /\ UNCHANGED vars
  <2>1. UNCHANGED <<feed, txcounter>> /\ bets' \subseteq Announced(feed)
    BY <1>3, BetsKept, SavedAnnounced DEF vars
  <2>2. Announced(feed)' = Announced(feed)
    BY <2>1
  <2> QED BY <2>1, <2>2 DEF AnnouncedOK
<1> QED BY <1>1, <1>2, <1>3 DEF IndexedNext, Indexing

LEMMA SharesAnnouncedStep ==
    ASSUME SlotsApart
    PROVE  TypeOK /\ TypeOK' /\ Backed /\ IndexTypeOK /\ IndexTypeOK' /\ AnnouncedOK
            /\ SharesAnnouncedBy(Announced(feed))
            /\ [IndexedNext]_<<vars, Index!vars>>
            => SharesAnnouncedBy(Announced(feed))'
<1> SUFFICES ASSUME TypeOK, TypeOK', Backed, IndexTypeOK, IndexTypeOK', AnnouncedOK,
                    SharesAnnouncedBy(Announced(feed)),
                    [IndexedNext]_<<vars, Index!vars>>
             PROVE  SharesAnnouncedBy(Announced(feed))'
    OBVIOUS
<1>1. PICK old, new : old = Announced(feed) /\ new = Announced(feed')
    OBVIOUS
<1>2. CASE Execute
  <2>1. PICK n : /\ GrownTo(n)
                 /\ \/ /\ SharesKept /\ ShowsNoBet(n)
                       /\ txcounter' = txcounter \/ txcounter' = txcounter + 1
                    \/ \E bet \in BetEvents : ShowsBet(n, bet) /\ Moves(bet)
    BY <1>2, BetShown
  <2>2. ASSUME NEW pid \in Pids, NEW id \in MarketIds, NEW side \in Index!Sides
        PROVE  /\ SlotOf(pid) \in Slots /\ side \in Sides
               /\ positions[SlotOf(pid)][id].shares[side]
                    = SharesOf(old, pid, id, side)
    BY <1>1, SlotType DEF SharesAnnouncedBy, Index!Sides, Sides
  <2>3. CASE SharesKept /\ ShowsNoBet(n)
    <3>1. new = old
      BY <1>1, <2>1, <2>3, AnnouncedGrows
    <3>2. ASSUME NEW pid \in Pids, NEW id \in MarketIds, NEW side \in Index!Sides
          PROVE  positions'[SlotOf(pid)][id].shares[side]
                    = SharesOf(new, pid, id, side)
      BY <2>2, <2>3, <3>1 DEF SharesKept
    <3> QED BY <1>1, <3>2 DEF SharesAnnouncedBy
  <2>4. ASSUME NEW bet \in BetEvents, ShowsBet(n, bet), Moves(bet)
        PROVE  SharesAnnouncedBy(Announced(feed))'
    <3>1. PICK document : document = Index!BetOf(bet)
      OBVIOUS
    <3>2. new = old \cup {document}
      BY <1>1, <2>1, <2>4, <3>1, AnnouncedGrows
    <3>3. /\ document \in BetDocuments /\ document \notin old
          /\ old \subseteq BetDocuments /\ IsFiniteSet(old)
      BY <1>1, <2>4, <3>1, NewDocument DEF AnnouncedOK, Announced
    <3>4. PICK p, i, s, change :
            /\ p = document.pid /\ i = document.id
            /\ s = Index!SideOfBet(document) /\ change = Index!Change(document)
      OBVIOUS
    <3>5. p \in Pids /\ SharesMove(p, i, s, change)
      BY <2>4, <3>1, <3>3, <3>4 DEF Moves, BetDocuments
    <3>6. ASSUME NEW pid \in Pids, NEW id \in MarketIds, NEW side \in Index!Sides
          PROVE  positions'[SlotOf(pid)][id].shares[side]
                    = SharesOf(new, pid, id, side)
      <4>1. SharesOf(new, pid, id, side) =
                SharesOf(old, pid, id, side)
                    + (IF pid = p /\ id = i /\ side = s THEN change ELSE 0)
        BY <3>2, <3>3, <3>4, SharesGain
      <4>2. SlotOf(pid) = SlotOf(p) <=> pid = p
        BY <3>5 DEF SlotsApart
      <4>3. positions'[SlotOf(pid)][id].shares[side] =
                positions[SlotOf(pid)][id].shares[side]
                    + (IF SlotOf(pid) = SlotOf(p) /\ id = i /\ side = s
                       THEN change ELSE 0)
        BY <2>2, <3>5 DEF SharesMove
      <4> QED BY <2>2, <4>1, <4>2, <4>3
    <3> QED BY <1>1, <3>6 DEF SharesAnnouncedBy
  <2> QED BY <2>1, <2>3, <2>4
<1>3. CASE UNCHANGED <<positions, feed>>
    BY <1>3 DEF SharesAnnouncedBy
<1>4. Execute \/ UNCHANGED <<positions, feed>>
    BY BetsKept DEF IndexedNext, Indexing, vars, Index!vars
<1> QED BY <1>2, <1>3, <1>4

LEMMA AlwaysAnnounced ==
    ASSUME SlotsApart
    PROVE  IndexedSpec => [](AnnouncedOK /\ SharesAnnouncedBy(Announced(feed)))
<1>1. SlotsApart
    OBVIOUS
<1>2. TypeOK /\ TypeOK' /\ Backed /\ IndexTypeOK /\ IndexTypeOK'
        /\ AnnouncedOK /\ SharesAnnouncedBy(Announced(feed))
        /\ [IndexedNext]_<<vars, Index!vars>>
        => (AnnouncedOK /\ SharesAnnouncedBy(Announced(feed)))'
    BY <1>1, AnnouncedStep, SharesAnnouncedStep
<1> QED BY <1>2, AnnouncedInit, IndexedTypes, PTL DEF IndexedSpec

\* Everything was delivered without a fault: every announced bet is stored and
\* its position updated.
LEMMA NothingMissing ==
    ASSUME IndexTypeOK, MissesFew, Stored, AnnouncedOK, Delivered,
           failures = 0, crashes = 0
    PROVE  \A pid \in Pids, id \in MarketIds, side \in Index!Sides :
                holdings[pid][id][side] = SharesOf(Announced(feed), pid, id, side)
<1>1. Len(feed) \in Nat /\ next > Len(feed) /\ next \in Nat
      /\ DOMAIN feed = 1 .. Len(feed)
    BY DEF Delivered, IndexTypeOK
<1>2. ~saved
  <2>1. next \notin DOMAIN feed
    BY <1>1
  <2> QED BY <2>1 DEF IndexTypeOK, Index!Handling
<1>3. PICK missing \in SUBSET bets : Misses(missing)
    BY DEF MissesFew
<1>4. missing = {}
  <2>1. IsFiniteSet(missing)
    BY FS_Subset DEF IndexTypeOK
  <2>2. Cardinality(missing) \in Nat /\ Cardinality(missing) <= 0
    BY <1>2, <1>3, <2>1, FS_CardinalityType DEF Misses
  <2> QED BY <2>1, <2>2, FS_EmptySet
<1>5. bets = Announced(feed)
  <2>1. ASSUME NEW bet \in Announced(feed) PROVE bet \in bets
    <3>1. PICK i, j : EventAt(feed, "bet", i, j) /\ bet = Index!BetOf(feed[i][j])
      BY DEF Announced
    <3>2. Handled(i, j)
      BY <1>1, <3>1 DEF EventAt, Handled
    <3>3. Index!Recorded(feed[i][j].txid)
      BY <3>1, <3>2 DEF Stored, BetsStored
    <3>4. PICK other \in bets : other.index = feed[i][j].txid
      BY <3>3 DEF Index!Recorded
    <3>5. other.index = bet.index
      BY <3>1, <3>4 DEF Index!BetOf
    <3> QED BY <3>4, <3>5 DEF AnnouncedOK
  <2> QED BY <2>1 DEF AnnouncedOK
<1>6. bets \ missing = Announced(feed)
    BY <1>4, <1>5
<1> QED BY <1>3, <1>6 DEF Misses

\* Where players' positions have keys of their own, and without stops and
\* failed writes, the database has every player's shares as the program does
\* once all was delivered (command.rs emits, models.ts decodes, service.ts adds).
THEOREM IndexMatchesProgram ==
    ASSUME SlotsApart
    PROVE  IndexedSpec => []IndexAgrees
<1>1. TypeOK /\ IndexTypeOK /\ MissesFew /\ Stored /\ AnnouncedOK
        /\ SharesAnnouncedBy(Announced(feed))
        => IndexAgrees
  <2> SUFFICES ASSUME TypeOK, IndexTypeOK, MissesFew, Stored, AnnouncedOK,
                      SharesAnnouncedBy(Announced(feed)), Delivered,
                      failures = 0, crashes = 0,
                      NEW pid \in Pids, NEW id \in MarketIds
               PROVE  holdings[pid][id] = positions[SlotOf(pid)][id].shares
    BY DEF IndexAgrees
  <2>1. holdings[pid][id] \in [Sides -> Int]
    BY DEF IndexTypeOK, Index!Sides, Sides
  <2>2. positions[SlotOf(pid)][id].shares \in [Sides -> Word]
    BY SlotType DEF TypeOK, PlayerMarketPosition
  <2>3. ASSUME NEW side \in Sides
        PROVE  holdings[pid][id][side] = positions[SlotOf(pid)][id].shares[side]
    <3>1. side \in Index!Sides
      BY DEF Index!Sides, Sides
    <3>2. holdings[pid][id][side] = SharesOf(Announced(feed), pid, id, side)
      BY <3>1, NothingMissing
    <3> QED BY <3>1, <3>2 DEF SharesAnnouncedBy
  <2> QED BY <2>1, <2>2, <2>3
<1>2. IndexedSpec => [](AnnouncedOK /\ SharesAnnouncedBy(Announced(feed)))
    BY AlwaysAnnounced
<1> QED BY <1>1, <1>2, IndexedTypes, AlwaysMissesFew, AlwaysStored, PTL

=============================================================================
