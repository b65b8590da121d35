--------------------------- MODULE Client_proofs ---------------------------
(* Commands on their way, proved for every value of the constants: the words *)
(* of a command say what its sender meant, nonces are used once, withdrawals *)
(* are handed over once, batches stay in their bounds.                       *)
EXTENDS Client, Ledger_proofs

-----------------------------------------------------------------------------
(* The words of a command. *)

\* The low and the high part of a word.
LEMMA Remainder ==
    ASSUME NEW w \in Int, NEW high \in Nat, NEW low \in Nat, low < 256,
           w = high * 256 + low
    PROVE  w % 256 = low
OBVIOUS

LEMMA Quotient ==
    ASSUME NEW w \in Int, NEW high \in Nat, NEW low \in Nat, low < 65536,
           w = high * 65536 + low
    PROVE  w \div 65536 = high
OBVIOUS

\* The first word keeps the nonce and the command apart.
LEMMA FirstWord ==
    ASSUME NEW nonce \in Nat, NEW k \in Nat, k < 101, NEW command \in Nat,
           command < 256, NEW w, w = nonce * 65536 + (k + 1) * 256 + command
    PROVE  w \in Int /\ w % 256 = command /\ w \div 65536 = nonce
<1> DEFINE low  == (k + 1) * 256 + command
           high == nonce * 256 + (k + 1)
<1>1. w \in Int /\ low \in Nat /\ high \in Nat
    OBVIOUS
<1>2. low < 65536
    OBVIOUS
<1>3. w = nonce * 65536 + low
    OBVIOUS
<1>4. w = high * 256 + command
    OBVIOUS
<1> HIDE DEF low, high
<1>5. w % 256 = command
    BY <1>1, <1>4, Remainder
<1>6. w \div 65536 = nonce
    BY <1>1, <1>2, <1>3, Quotient
<1> QED BY <1>1, <1>5, <1>6

\* What decoding reads in the words of a command.
Reads(words, nonce, command, params) ==
    /\ CommandOf(words) = command
    /\ NonceOf(words) = nonce
    /\ \A i \in 1 .. Len(params) : words[i + 1] = params[i]

\* A command's number is a byte, and there are few parameters.
Number(command) == command \in Nat /\ command < 256
Parameters(params) == params \in Seq(Int) /\ Len(params) < 101

\* Decoding gives back the command, the nonce and the parameters.
LEMMA WordsRead ==
    ASSUME NEW nonce \in Nat, NEW command, Number(command),
           NEW params, Parameters(params)
    PROVE  Reads(createCommand(nonce, command, params), nonce, command, params)
<1>1. PICK k \in Nat : k = Len(params) /\ k < 101
    BY DEF Parameters
<1>2. PICK w : w = nonce * 65536 + (k + 1) * 256 + command
    OBVIOUS
<1>3. w \in Int /\ w % 256 = command /\ w \div 65536 = nonce
    BY <1>1, <1>2, FirstWord DEF Number
<1>4. PICK words : words = <<w>> \o params
    OBVIOUS
<1>5. words[1] = w /\ \A i \in 1 .. Len(params) : words[i + 1] = params[i]
  <2>1. <<w>> \in Seq(Int) /\ Len(<<w>>) = 1 /\ <<w>>[1] = w
    BY <1>3
  <2> QED BY <1>1, <1>4, <2>1, ConcatProperties DEF Parameters
<1>6. createCommand(nonce, command, params) = words
    BY <1>1, <1>2, <1>4 DEF createCommand
<1>7. CommandOf(words) = command /\ NonceOf(words) = nonce
    BY <1>3, <1>5 DEF CommandOf, NonceOf
<1>8. Reads(words, nonce, command, params)
    BY <1>5, <1>7 DEF Reads
<1> QED BY <1>6, <1>8

LEMMA NumbersOfCommands ==
    /\ Number(INSTALL_PLAYER) /\ Number(WITHDRAW) /\ Number(DEPOSIT)
    /\ Number(BET) /\ Number(SELL) /\ Number(RESOLVE) /\ Number(CLAIM)
    /\ Number(WITHDRAW_FEES) /\ Number(CREATE_MARKET)
BY DEF Number, INSTALL_PLAYER, WITHDRAW, DEPOSIT, BET, SELL, RESOLVE, CLAIM,
       WITHDRAW_FEES, CREATE_MARKET

\* The installation of a player reads as one.
LEMMA InstallRead == CommandOf(installPlayer) = INSTALL_PLAYER
<1>1. Parameters(<< >>)
    BY DEF Parameters
<1>2. Reads(createCommand(0, INSTALL_PLAYER, << >>), 0, INSTALL_PLAYER, << >>)
    BY <1>1, NumbersOfCommands, WordsRead
<1> QED BY <1>2 DEF Reads, installPlayer

\* The offer that the words of a creation hold.
OfferOf(words) ==
    [start_time |-> words[2], end_time |-> words[3], resolution_time |-> words[4],
     liquidity |-> [side \in Sides |-> IF side = "yes" THEN words[5] ELSE words[6]],
     b |-> words[7]]

\* The words say one of the things a player may ask for.
Meant(words) ==
    \/ CommandOf(words) = WITHDRAW /\ words[3] \in WithdrawAmounts
    \/ /\ CommandOf(words) = DEPOSIT
       /\ <<words[2], words[3]>> \in Pids /\ words[5] \in DepositAmounts
    \/ /\ CommandOf(words) = BET
       /\ words[3] \in 0 .. 1 /\ words[4] \in BetAmounts
    \/ /\ CommandOf(words) = SELL
       /\ words[3] \in 0 .. 1 /\ words[4] \in SellAmounts
    \/ CommandOf(words) = RESOLVE /\ words[3] \in 0 .. 1
    \/ CommandOf(words) = CLAIM
    \/ CommandOf(words) = WITHDRAW_FEES
    \/ CommandOf(words) = CREATE_MARKET /\ OfferOf(words) \in Offers

\* A creation is read with its offer, a deposit with its target and amount.
LEMMA CreationRead ==
    ASSUME NEW nonce \in Nat, NEW offer \in Offers,
           NEW words, words = createMarket(nonce, offer)
    PROVE  /\ CommandOf(words) = CREATE_MARKET /\ NonceOf(words) = nonce
           /\ OfferOf(words) = offer
<1> DEFINE params == <<offer.start_time, offer.end_time, offer.resolution_time,
                       offer.liquidity["yes"], offer.liquidity["no"], offer.b>>
<1>1. offer \in CreateArgs /\ Word \subseteq Int
    BY InputsAssumption, LimitsAssumption DEF Word
<1>2. Parameters(params) /\ Len(params) = 6
  <2>1. /\ offer.start_time \in Int /\ offer.end_time \in Int
        /\ offer.resolution_time \in Int /\ offer.b \in Int
        /\ offer.liquidity["yes"] \in Int /\ offer.liquidity["no"] \in Int
    BY <1>1 DEF CreateArgs, Sides
  <2> QED BY <2>1 DEF Parameters
<1>3. words = createCommand(nonce, CREATE_MARKET, params)
    BY DEF createMarket
<1>4. Reads(words, nonce, CREATE_MARKET, params)
    BY <1>2, <1>3, NumbersOfCommands, WordsRead
<1>5. /\ words[2] = offer.start_time /\ words[3] = offer.end_time
      /\ words[4] = offer.resolution_time
      /\ words[5] = offer.liquidity["yes"] /\ words[6] = offer.liquidity["no"]
      /\ words[7] = offer.b
    BY <1>2, <1>4 DEF Reads
<1>6. [side \in Sides |-> IF side = "yes" THEN words[5] ELSE words[6]] = offer.liquidity
    BY <1>1, <1>5 DEF CreateArgs, Sides
<1>7. OfferOf(words) = offer
    BY <1>1, <1>5, <1>6 DEF OfferOf, CreateArgs
<1> QED BY <1>4, <1>7 DEF Reads

LEMMA DepositRead ==
    ASSUME NEW nonce \in Nat, NEW amount \in DepositAmounts, NEW target \in Pids,
           NEW words, words = depositFunds(nonce, amount, target)
    PROVE  /\ CommandOf(words) = DEPOSIT /\ NonceOf(words) = nonce
           /\ <<words[2], words[3]>> = target /\ words[5] = amount
<1> DEFINE params == <<target[1], target[2], 0, amount>>
<1>0. Word \subseteq Int
    BY LimitsAssumption DEF Word
<1>1. target = <<target[1], target[2]>> /\ target[1] \in Nat /\ target[2] \in Nat
    BY PidsAssumption
<1>2. Parameters(params) /\ Len(params) = 4
      /\ params[1] = target[1] /\ params[2] = target[2] /\ params[4] = amount
    BY <1>0, <1>1, InputsAssumption DEF Parameters
<1>3. words = createCommand(nonce, DEPOSIT, params)
    BY DEF depositFunds
<1> HIDE DEF params
<1>4. Reads(words, nonce, DEPOSIT, params)
    BY <1>2, <1>3, NumbersOfCommands, WordsRead
<1> QED BY <1>1, <1>2, <1>4 DEF Reads

\* Whatever a player asks for with a nonce, the program reads it with that nonce.
LEMMA RequestRead ==
    ASSUME NEW pid, NEW nonce \in Nat, NEW words \in Requests(pid, nonce)
    PROVE  NonceOf(words) = nonce /\ Meant(words)
<1>0. Word \subseteq Int /\ \A id \in Markets : id \in Int
    BY LimitsAssumption, BatchAssumption DEF Word
<1>1. ASSUME NEW amount \in WithdrawAmounts, words = withdrawFunds(nonce, amount)
      PROVE  NonceOf(words) = nonce /\ Meant(words)
  <2> DEFINE params == <<0, amount, 0, 0>>
  <2>1. Parameters(params) /\ Len(params) = 4 /\ params[2] = amount
    BY <1>0, InputsAssumption DEF Parameters
  <2>2. words = createCommand(nonce, WITHDRAW, params)
    BY <1>1 DEF withdrawFunds
  <2> HIDE DEF params
  <2>3. Reads(words, nonce, WITHDRAW, params)
    BY <2>1, <2>2, NumbersOfCommands, WordsRead
  <2> QED BY <2>1, <2>3 DEF Reads, Meant
<1>2. ASSUME NEW amount \in DepositAmounts, NEW target \in Pids,
             words = depositFunds(nonce, amount, target)
      PROVE  NonceOf(words) = nonce /\ Meant(words)
  <2>1. CommandOf(words) = DEPOSIT /\ NonceOf(words) = nonce
        /\ <<words[2], words[3]>> = target /\ words[5] = amount
    BY <1>2, DepositRead
  <2> QED BY <2>1 DEF Meant
<1>3. ASSUME NEW id \in Markets, NEW type \in 0 .. 1, NEW amount \in BetAmounts,
             words = placeBet(nonce, id, type, amount)
      PROVE  NonceOf(words) = nonce /\ Meant(words)
  <2> DEFINE params == <<id, type, amount>>
  <2>1. Parameters(params) /\ Len(params) = 3
        /\ params[2] = type /\ params[3] = amount
    BY <1>0, InputsAssumption DEF Parameters
  <2>2. words = createCommand(nonce, BET, params)
    BY <1>3 DEF placeBet
  <2> HIDE DEF params
  <2>3. Reads(words, nonce, BET, params)
    BY <2>1, <2>2, NumbersOfCommands, WordsRead
  <2> QED BY <2>1, <2>3 DEF Reads, Meant
<1>4. ASSUME NEW id \in Markets, NEW type \in 0 .. 1, NEW shares \in SellAmounts,
             words = sellShares(nonce, id, type, shares)
      PROVE  NonceOf(words) = nonce /\ Meant(words)
  <2> DEFINE params == <<id, type, shares>>
  <2>1. Parameters(params) /\ Len(params) = 3
        /\ params[2] = type /\ params[3] = shares
    BY <1>0, InputsAssumption DEF Parameters
  <2>2. words = createCommand(nonce, SELL, params)
    BY <1>4 DEF sellShares
  <2> HIDE DEF params
  <2>3. Reads(words, nonce, SELL, params)
    BY <2>1, <2>2, NumbersOfCommands, WordsRead
  <2> QED BY <2>1, <2>3 DEF Reads, Meant
<1>5. ASSUME NEW id \in Markets, NEW outcome \in 0 .. 1,
             words = resolveMarket(nonce, id, outcome)
      PROVE  NonceOf(words) = nonce /\ Meant(words)
  <2> DEFINE params == <<id, outcome>>
  <2>1. Parameters(params) /\ Len(params) = 2 /\ params[2] = outcome
    BY <1>0 DEF Parameters
  <2>2. words = createCommand(nonce, RESOLVE, params)
    BY <1>5 DEF resolveMarket
  <2> HIDE DEF params
  <2>3. Reads(words, nonce, RESOLVE, params)
    BY <2>1, <2>2, NumbersOfCommands, WordsRead
  <2> QED BY <2>1, <2>3 DEF Reads, Meant
<1>6. ASSUME NEW id \in Markets, NEW command \in {CLAIM, WITHDRAW_FEES},
             words = createCommand(nonce, command, <<id>>)
      PROVE  NonceOf(words) = nonce /\ Meant(words)
  <2>1. Parameters(<<id>>) /\ Number(command)
    BY <1>0, NumbersOfCommands DEF Parameters
  <2>2. Reads(words, nonce, command, <<id>>)
    BY <1>6, <2>1, WordsRead
  <2> QED BY <2>2 DEF Reads, Meant
<1>7. ASSUME NEW offer \in Offers, words = createMarket(nonce, offer)
      PROVE  NonceOf(words) = nonce /\ Meant(words)
    BY <1>7, CreationRead DEF Meant
<1>8. CASE words \in {withdrawFunds(nonce, amount) : amount \in WithdrawAmounts}
    BY <1>1, <1>8
<1>9. CASE words \in {depositFunds(nonce, amount, target) :
                        amount \in DepositAmounts, target \in Pids}
    BY <1>2, <1>9
<1>10. CASE words \in {placeBet(nonce, id, type, amount) :
                        id \in Markets, type \in 0 .. 1, amount \in BetAmounts}
    BY <1>3, <1>10
<1>11. CASE words \in {sellShares(nonce, id, type, shares) :
                        id \in Markets, type \in 0 .. 1, shares \in SellAmounts}
    BY <1>4, <1>11
<1>12. CASE words \in {resolveMarket(nonce, id, outcome) :
                        id \in Markets, outcome \in 0 .. 1}
    BY <1>5, <1>12
<1>13. CASE words \in {claimWinnings(nonce, id) : id \in Markets}
    BY <1>6, <1>13 DEF claimWinnings
<1>14. CASE words \in {withdrawFees(nonce, id) : id \in Markets}
    BY <1>6, <1>14 DEF withdrawFees
<1>15. CASE words \in {createMarket(nonce, offer) : offer \in Offers}
    BY <1>7, <1>15
<1> QED BY <1>8, <1>9, <1>10, <1>11, <1>12, <1>13, <1>14, <1>15 DEF Requests

-----------------------------------------------------------------------------
(* The commands that reach the program. *)

\* A command in flight: an installation, or one of a player who is installed.
Callable(call) ==
    /\ call.pid \in Pids
    /\ \/ call.words = installPlayer
       \/ /\ call.pid \in DOMAIN players
          /\ \E nonce \in Nat : call.words \in Requests(call.pid, nonce)

CallRecord == [due : Nat, ran : Nat, succeeded : Nat]

\* Typing of the client's state.
CallsOK ==
    /\ IsFiniteSet(DOMAIN calls)
    /\ \A call \in DOMAIN calls : Callable(call) /\ calls[call] \in CallRecord

ClientOK ==
    /\ TypeOK
    /\ CallsOK
    /\ flushed \in Seq(WithdrawInfo)

\* The low half of a word is a word.
LEMMA LowHalf ==
    ASSUME NEW amount \in Word
    PROVE  amount % U32 \in Word
<1>1. amount \in Nat /\ U32 \in Nat /\ U32 > 0
    BY PidsAssumption, LimitsAssumption DEF Word
<1>2. PICK low : low = amount % U32
    OBVIOUS
<1>3. low \in Nat /\ low < U32
    BY <1>1, <1>2
<1>4. amount < U32 => low = amount
    BY <1>1, <1>2
<1>5. low \in Nat /\ low <= amount
    BY <1>1, <1>3, <1>4
<1> QED BY <1>2, <1>5, LimitsAssumption DEF Word

\* A command in flight that is no installation comes from an installed player
\* and says what that player asked for.
LEMMA CallRead ==
    ASSUME NEW call, Callable(call), CommandOf(call.words) # INSTALL_PLAYER
    PROVE  /\ call.pid \in Pids /\ call.pid \in DOMAIN players
           /\ NonceOf(call.words) \in Nat
           /\ Meant(call.words)
BY InstallRead, RequestRead DEF Callable

\* What is run is a command of the program.
LEMMA RunIsCommand ==
    ASSUME ClientOK, NEW call \in DOMAIN calls, Run(call)
    PROVE  Command
<1> USE DEF INSTALL_PLAYER, WITHDRAW, DEPOSIT, BET, SELL, RESOLVE, CLAIM,
            WITHDRAW_FEES, CREATE_MARKET
<1> DEFINE words == call.words
           nonce == NonceOf(words)
<1>1. Callable(call) /\ call.pid \in Pids
    BY DEF ClientOK, CallsOK, Callable
<1>2. Process(call.pid, words)
    BY DEF Run
<1>3. CASE CommandOf(words) = INSTALL_PLAYER
  <2>1. InstallPlayer(call.pid)
    BY <1>2, <1>3 DEF Process
  <2> QED BY <1>1, <2>1 DEF Command
<1>4. CASE CommandOf(words) # INSTALL_PLAYER
  <2>1. Meant(words)
    BY <1>1, <1>4, CallRead
  <2>2. CASE CommandOf(words) = WITHDRAW
    <3>1. Withdraw(call.pid, nonce, words[3] % U32)
      BY <1>2, <2>2 DEF Process
    <3>2. words[3] \in Word
      BY <2>1, <2>2, InputsAssumption DEF Meant
    <3> HIDE DEF words, nonce
    <3>3. words[3] % U32 \in Word
      BY <3>2, LowHalf
    <3> QED BY <1>1, <3>1, <3>3 DEF Command
  <2>3. CASE CommandOf(words) = DEPOSIT
    <3>1. Deposit(nonce, <<words[2], words[3]>>, words[5])
      BY <1>2, <2>3 DEF Process
    <3>2. <<words[2], words[3]>> \in Pids /\ words[5] \in DepositAmounts
      BY <2>1, <2>3 DEF Meant
    <3> HIDE DEF words, nonce
    <3> QED BY <3>1, <3>2 DEF Command
  <2>4. CASE CommandOf(words) = BET
    <3>1. Bet(call.pid, nonce, words[2], words[3], words[4])
      BY <1>2, <2>4 DEF Process
    <3>2. words[3] \in 0 .. 2 /\ words[4] \in BetAmounts
      BY <2>1, <2>4 DEF Meant
    <3> HIDE DEF words, nonce
    <3> QED BY <1>1, <3>1, <3>2 DEF Command
  <2>5. CASE CommandOf(words) = SELL
    <3>1. Sell(call.pid, nonce, words[2], words[3], words[4])
      BY <1>2, <2>5 DEF Process
    <3>2. words[3] \in 0 .. 2 /\ words[4] \in SellAmounts
      BY <2>1, <2>5 DEF Meant
    <3> HIDE DEF words, nonce
    <3> QED BY <1>1, <3>1, <3>2 DEF Command
  <2>6. CASE CommandOf(words) = RESOLVE
    <3>1. Resolve(nonce, words[2], words[3])
      BY <1>2, <2>6 DEF Process
    <3>2. words[3] \in 0 .. 1
      BY <2>1, <2>6 DEF Meant
    <3> HIDE DEF words, nonce
    <3> QED BY <3>1, <3>2 DEF Command
  <2>7. CASE CommandOf(words) = CLAIM
    <3>1. Claim(call.pid, nonce, words[2])
      BY <1>2, <2>7 DEF Process
    <3> HIDE DEF words, nonce
    <3> QED BY <1>1, <3>1 DEF Command
  <2>8. CASE CommandOf(words) = WITHDRAW_FEES
    <3>1. WithdrawFees(nonce, words[2])
      BY <1>2, <2>8 DEF Process
    <3> HIDE DEF words, nonce
    <3> QED BY <3>1 DEF Command
  <2>9. CASE CommandOf(words) = CREATE_MARKET
    <3>1. CreateMarket(nonce, OfferOf(words))
      BY <1>2, <2>9 DEF Process, OfferOf
    <3>2. OfferOf(words) \in Offers
      BY <2>1, <2>9 DEF Meant
    <3> HIDE DEF words, nonce
    <3> QED BY <3>1, <3>2 DEF Command
  <2> QED BY <2>1, <2>2, <2>3, <2>4, <2>5, <2>6, <2>7, <2>8, <2>9 DEF Meant
<1> QED BY <1>3, <1>4

-----------------------------------------------------------------------------
(* The effect of a run on nonces, withdrawals and the counters. *)

\* No nonce changes; the nonce of one player is used up; a player is installed.
NoncesKept ==
    /\ DOMAIN players' = DOMAIN players
    /\ \A p \in DOMAIN players : players'[p].nonce = players[p].nonce

NonceUsed(pid) ==
    /\ pid \in DOMAIN players
    /\ DOMAIN players' = DOMAIN players
    /\ players'[pid].nonce = players[pid].nonce + 1
    /\ \A p \in DOMAIN players \ {pid} : players'[p].nonce = players[p].nonce

Joined(pid) ==
    /\ pid \notin DOMAIN players
    /\ DOMAIN players' = DOMAIN players \cup {pid}
    /\ players'[pid].nonce = 0
    /\ \A p \in DOMAIN players : players'[p].nonce = players[p].nonce

\* What a run that succeeds does, by its command.
Succeeded(call) ==
    LET command == CommandOf(call.words)
    IN  /\ command = INSTALL_PLAYER => Joined(call.pid)
        /\ command \in Consuming =>
             /\ NonceOf(call.words) = players[call.pid].nonce
             /\ NonceUsed(call.pid)
        /\ command \in {RESOLVE, CREATE_MARKET} => NoncesKept
        /\ command = RESOLVE =>
             /\ call.words[2] \in DOMAIN markets /\ ~markets[call.words[2]].resolved
             /\ call.words[2] \in DOMAIN markets' /\ markets'[call.words[2]].resolved
        /\ IF command = WITHDRAW
           THEN settlement' = Append(settlement, [amount |-> call.words[3] % U32])
           ELSE settlement' = settlement
        /\ txsize' = txsize + 1

\* What a run does.
Effect(call) ==
    \/ reply'.e = NoError /\ Succeeded(call)
    \/ reply'.e # NoError /\ NoncesKept /\ UNCHANGED <<settlement, txsize>>

LEMMA RejectEffect ==
    ASSUME NEW e, e # NoError, Reject(e)
    PROVE  reply'.e # NoError /\ NoncesKept /\ UNCHANGED <<settlement, txsize>>
BY DEF Reject, Fail, NoncesKept

LEMMA StoredEffect ==
    ASSUME TypeOK, NEW pid \in DOMAIN players, NEW balance, StorePlayer(pid, balance)
    PROVE  NonceUsed(pid)
<1>1. players[pid] \in PlayerRecord
    BY DEF TypeOK
<1>2. /\ DOMAIN players' = DOMAIN players
      /\ players'[pid].nonce = players[pid].nonce + 1
      /\ \A p \in DOMAIN players \ {pid} : players'[p] = players[p]
    BY DEF StorePlayer, stored, TypeOK
<1> QED BY <1>2 DEF NonceUsed

\* A deposit uses up the administrator's nonce alone.
LEMMA DepositNonces ==
    ASSUME TypeOK, NEW nonce, NEW target \in DOMAIN players, NEW amount,
           Deposit(nonce, target, amount)
    PROVE  NonceUsed(Admin)
<1> DEFINE first == [players EXCEPT ![target].balance = add_balance(@, amount)]
<1>1. players' = [first EXCEPT ![Admin] = stored(Admin, players[Admin].balance)]
    BY DEF Deposit
<1>2. Admin \in DOMAIN players
    BY DEF Deposit, check_nonce
<1>3. /\ DOMAIN first = DOMAIN players
      /\ \A p \in DOMAIN players : first[p].nonce = players[p].nonce
  <2>1. \A p \in DOMAIN players : players[p] \in PlayerRecord
    BY DEF TypeOK
  <2>2. first[target].nonce = players[target].nonce
    BY <2>1 DEF PlayerRecord
  <2>3. \A p \in DOMAIN players \ {target} : first[p] = players[p]
    OBVIOUS
  <2> QED BY <2>2, <2>3
<1> HIDE DEF first
<1>4. /\ DOMAIN players' = DOMAIN players
      /\ players'[Admin] = stored(Admin, players[Admin].balance)
      /\ \A p \in DOMAIN players \ {Admin} : players'[p] = first[p]
    BY <1>1, <1>2, <1>3
<1>5. players'[Admin].nonce = players[Admin].nonce + 1
    BY <1>4 DEF stored
<1> QED BY <1>2, <1>3, <1>4, <1>5 DEF NonceUsed

\* A run that is not rejected ends in Accept.
LEMMA AcceptEffect ==
    ASSUME NEW events, Accept(events)
    PROVE  reply'.e = NoError /\ txsize' = txsize + 1
BY DEF Accept

\* Every run has its effect or none.
LEMMA RunEffect ==
    ASSUME ClientOK, NEW call \in DOMAIN calls, Run(call)
    PROVE  Effect(call)
<1> USE DEF INSTALL_PLAYER, WITHDRAW, DEPOSIT, BET, SELL, RESOLVE, CLAIM,
            WITHDRAW_FEES, CREATE_MARKET
<1> DEFINE words == call.words
           nonce == NonceOf(words)
           pid   == call.pid
<1>1. TypeOK /\ Process(pid, words) /\ ~Traps(pid, words)
    BY DEF ClientOK, Run
<1>2. ASSUME NEW e, e # NoError, Reject(e) PROVE Effect(call)
    BY <1>2, RejectEffect DEF Effect
<1>3. CASE CommandOf(words) = INSTALL_PLAYER
  <2>1. InstallPlayer(pid)
    BY <1>1, <1>3 DEF Process
  <2>2. CASE Reject(ERROR_PLAYER_ALREADY_EXISTS)
    BY <1>2, <2>2 DEF NoError, ERROR_PLAYER_ALREADY_EXISTS
  <2>3. CASE ~Reject(ERROR_PLAYER_ALREADY_EXISTS)
    <3>1. Joined(pid)
      BY <2>1, <2>3 DEF InstallPlayer, Joined
    <3>2. reply'.e = NoError /\ txsize' = txsize + 1 /\ settlement' = settlement
      BY <2>1, <2>3, AcceptEffect DEF InstallPlayer
    <3> QED BY <1>3, <3>1, <3>2 DEF Effect, Succeeded, Consuming
  <2> QED BY <2>2, <2>3
<1>4. CASE CommandOf(words) = WITHDRAW
  <2>1. Withdraw(pid, nonce, words[3] % U32)
    BY <1>1, <1>4 DEF Process
  <2>2. NonceUsed(pid) /\ players[pid].nonce = nonce
    BY <1>1, <2>1, StoredEffect DEF Withdraw, check_nonce
  <2>3. /\ reply'.e = NoError /\ txsize' = txsize + 1
        /\ settlement' = Append(settlement, [amount |-> words[3] % U32])
    BY <2>1, AcceptEffect DEF Withdraw
  <2> QED BY <1>4, <2>2, <2>3 DEF Effect, Succeeded, Consuming
<1>5. CASE CommandOf(words) = DEPOSIT
  <2>1. Deposit(nonce, <<words[2], words[3]>>, words[5])
    BY <1>1, <1>5 DEF Process
  <2>2. pid = Admin
    BY <1>1, <1>5 DEF Traps, AdminOnly
  <2>3. CASE <<words[2], words[3]>> \notin DOMAIN players
    BY <1>2, <2>1, <2>3 DEF Deposit, NoError, ERROR_PLAYER_NOT_EXIST
  <2>4. CASE <<words[2], words[3]>> \in DOMAIN players
    <3>1. NonceUsed(pid) /\ players[pid].nonce = nonce
      BY <1>1, <2>1, <2>2, <2>4, DepositNonces DEF Deposit, check_nonce
    <3>2. reply'.e = NoError /\ txsize' = txsize + 1 /\ settlement' = settlement
      BY <2>1, <2>4, AcceptEffect DEF Deposit
    <3> QED BY <1>5, <3>1, <3>2 DEF Effect, Succeeded, Consuming
  <2> QED BY <2>3, <2>4
<1>6. CASE CommandOf(words) = BET
  <2>1. Bet(pid, nonce, words[2], words[3], words[4])
    BY <1>1, <1>6 DEF Process
  <2>2. CASE bet_error(pid, words[2], words[3], words[4]) # NoError
    BY <1>2, <2>1, <2>2 DEF Bet
  <2>3. CASE bet_error(pid, words[2], words[3], words[4]) = NoError
    <3>1. NonceUsed(pid) /\ players[pid].nonce = nonce
      BY <1>1, <2>1, <2>3, StoredEffect DEF Bet, check_nonce
    <3>2. reply'.e = NoError /\ txsize' = txsize + 1 /\ settlement' = settlement
      BY <2>1, <2>3, AcceptEffect DEF Bet
    <3> QED BY <1>6, <3>1, <3>2 DEF Effect, Succeeded, Consuming
  <2> QED BY <2>2, <2>3
<1>7. CASE CommandOf(words) = SELL
  <2>1. Sell(pid, nonce, words[2], words[3], words[4])
    BY <1>1, <1>7 DEF Process
  <2>2. CASE sell_error(pid, words[2], words[3], words[4]) # NoError
    BY <1>2, <2>1, <2>2 DEF Sell
  <2>3. CASE sell_error(pid, words[2], words[3], words[4]) = NoError
    <3>1. NonceUsed(pid) /\ players[pid].nonce = nonce
      BY <1>1, <2>1, <2>3, StoredEffect DEF Sell, check_nonce
    <3>2. reply'.e = NoError /\ txsize' = txsize + 1 /\ settlement' = settlement
      BY <2>1, <2>3, AcceptEffect DEF Sell
    <3> QED BY <1>7, <3>1, <3>2 DEF Effect, Succeeded, Consuming
  <2> QED BY <2>2, <2>3
<1>8. CASE CommandOf(words) = RESOLVE
  <2>1. Resolve(nonce, words[2], words[3])
    BY <1>1, <1>8 DEF Process
  <2>2. CASE resolve_error(words[2]) # NoError
    BY <1>2, <2>1, <2>2 DEF Resolve
  <2>3. CASE resolve_error(words[2]) = NoError
    <3>1. words[2] \in DOMAIN markets /\ ~markets[words[2]].resolved
      BY <2>3 DEF resolve_error, MarketExists, NoError, ERROR_MARKET_NOT_ACTIVE,
                  ERROR_MARKET_ALREADY_RESOLVED
    <3>2. /\ markets' = [markets EXCEPT ![words[2]] =
                                resolve(markets[words[2]], words[3])]
          /\ UNCHANGED <<players, settlement>>
      BY <2>1, <2>3 DEF Resolve
    <3>3. reply'.e = NoError /\ txsize' = txsize + 1
      BY <2>1, <2>3, AcceptEffect DEF Resolve
    <3>4. resolve(markets[words[2]], words[3]).resolved
      <4>1. markets[words[2]] \in MarketData
        BY <1>1, <3>1, Reading
      <4> QED BY <4>1 DEF resolve, MarketData
    <3>5. words[2] \in DOMAIN markets' /\ markets'[words[2]].resolved
      BY <1>1, <3>1, <3>2, <3>4 DEF TypeOK
    <3> QED BY <1>8, <3>1, <3>2, <3>3, <3>5
            DEF Effect, Succeeded, Consuming, NoncesKept
  <2> QED BY <2>2, <2>3
<1>9. CASE CommandOf(words) = CLAIM
  <2>1. Claim(pid, nonce, words[2])
    BY <1>1, <1>9 DEF Process
  <2>2. CASE claim_error(pid, words[2]) # NoError
    BY <1>2, <2>1, <2>2 DEF Claim
  <2>3. CASE claim_error(pid, words[2]) = NoError
    <3> DEFINE payout == calculate_payout(markets[words[2]],
                            positions[SlotOf(pid)][words[2]].shares)
    <3>1. settlement' = settlement /\ pid \in DOMAIN players
          /\ players[pid].nonce = nonce
      BY <2>1, <2>3 DEF Claim, check_nonce
    <3>2. CASE /\ payout <= 0
               /\ Fail(IF payout < 0 THEN -payout ELSE ERROR_NO_WINNING_POSITION)
               /\ UNCHANGED players
      <4>1. payout \in Int
        <5>1. words[2] \in DOMAIN markets
          BY <2>3 DEF claim_error, MarketExists, NoError, ERROR_MARKET_NOT_ACTIVE
        <5>2. pid \in Pids /\ SlotOf(pid) \in Slots
          BY <1>1, <3>1, Reading, SlotType
        <5>3. /\ markets[words[2]] \in MarketData
              /\ positions[SlotOf(pid)][words[2]].shares \in [Sides -> Word]
          BY <1>1, <5>1, <5>2, Reading
        <5> QED BY <5>3, PayoutType
      <4> HIDE DEF payout
      <4>2. reply'.e # NoError
        BY <3>2, <4>1 DEF Fail, NoError, ERROR_NO_WINNING_POSITION
      <4> QED BY <3>1, <3>2, <4>2 DEF Effect, NoncesKept, Fail
    <3>3. CASE StorePlayer(pid, add_balance(players[pid].balance, payout))
               /\ Accept(<< >>)
      <4>1. NonceUsed(pid)
        BY <1>1, <3>1, <3>3, StoredEffect
      <4> QED BY <1>9, <3>1, <3>3, <4>1, AcceptEffect DEF Effect, Succeeded, Consuming
    <3> QED BY <2>1, <2>3, <3>2, <3>3 DEF Claim
  <2> QED BY <2>2, <2>3
<1>10. CASE CommandOf(words) = WITHDRAW_FEES
  <2>1. WithdrawFees(nonce, words[2])
    BY <1>1, <1>10 DEF Process
  <2>2. pid = Admin
    BY <1>1, <1>10 DEF Traps, AdminOnly
  <2>3. CASE withdraw_fees_error(words[2]) # NoError
    BY <1>2, <2>1, <2>3 DEF WithdrawFees
  <2>4. CASE withdraw_fees_error(words[2]) = NoError
    <3>1. NonceUsed(pid) /\ players[pid].nonce = nonce
      BY <1>1, <2>1, <2>2, <2>4, StoredEffect DEF WithdrawFees, check_nonce
    <3>2. reply'.e = NoError /\ txsize' = txsize + 1 /\ settlement' = settlement
      BY <2>1, <2>4, AcceptEffect DEF WithdrawFees
    <3> QED BY <1>10, <3>1, <3>2 DEF Effect, Succeeded, Consuming
  <2> QED BY <2>3, <2>4
<1>11. CASE CommandOf(words) = CREATE_MARKET
  <2>1. CreateMarket(nonce, OfferOf(words))
    BY <1>1, <1>11 DEF Process, OfferOf
  <2>2. CASE create_error(absolute(OfferOf(words))) # NoError
    BY <1>2, <2>1, <2>2 DEF CreateMarket
  <2>3. CASE create_error(absolute(OfferOf(words))) = NoError
    <3>1. UNCHANGED <<players, settlement>>
      BY <2>1, <2>3 DEF CreateMarket
    <3>2. reply'.e = NoError /\ txsize' = txsize + 1
      BY <2>1, <2>3, AcceptEffect DEF CreateMarket
    <3> QED BY <1>11, <3>1, <3>2 DEF Effect, Succeeded, Consuming, NoncesKept
  <2> QED BY <2>2, <2>3
<1> QED BY <1>1, <1>3, <1>4, <1>5, <1>6, <1>7, <1>8, <1>9, <1>10, <1>11 DEF Process

-----------------------------------------------------------------------------
(* Typing of the client's steps. *)

\* Posting keeps the typing and counts no success.
LEMMA PostEffect ==
    ASSUME CallsOK, NEW call, Callable(call), Post(call), UNCHANGED players
    PROVE  /\ CallsOK'
           /\ DOMAIN calls' = DOMAIN calls \cup {call}
           /\ \A c \in DOMAIN calls : calls'[c].succeeded = calls[c].succeeded
           /\ call \notin DOMAIN calls => calls'[call].succeeded = 0
<1>1. \A c \in DOMAIN calls : Callable(c) /\ calls[c] \in CallRecord
    BY DEF CallsOK
<1>2. IsFiniteSet(DOMAIN calls \cup {call})
    BY FS_AddElement DEF CallsOK
<1>3. \A c : Callable(c) => Callable(c)'
    BY DEF Callable
<1>4. CASE call \in DOMAIN calls
  <2>1. calls' = [calls EXCEPT ![call].due = @ + 1]
    BY <1>4 DEF Post
  <2>2. /\ DOMAIN calls' = DOMAIN calls
        /\ \A c \in DOMAIN calls \ {call} : calls'[c] = calls[c]
        /\ calls'[call] = [calls[call] EXCEPT !.due = calls[call].due + 1]
    BY <1>4, <2>1
  <2>3. calls'[call] \in CallRecord /\ calls'[call].succeeded = calls[call].succeeded
    BY <1>1, <1>4, <2>2 DEF CallRecord
  <2>4. DOMAIN calls' = DOMAIN calls \cup {call}
    BY <1>4, <2>2
  <2>5. \A c \in DOMAIN calls' : Callable(c)' /\ calls'[c] \in CallRecord
    BY <1>1, <1>3, <2>2, <2>3
  <2>6. CallsOK'
    BY <1>2, <2>4, <2>5 DEF CallsOK
  <2> QED BY <1>4, <2>2, <2>3, <2>4, <2>6
<1>5. CASE call \notin DOMAIN calls
  <2> DEFINE new == [due |-> 1, ran |-> 0, succeeded |-> 0]
  <2>1. new \in CallRecord /\ new.succeeded = 0
    BY DEF CallRecord
  <2> HIDE DEF new
  <2>2. calls' = [c \in DOMAIN calls \cup {call} |-> IF c = call THEN new ELSE calls[c]]
    BY <1>5 DEF Post, new
  <2>3. /\ DOMAIN calls' = DOMAIN calls \cup {call}
        /\ calls'[call] = new
        /\ \A c \in DOMAIN calls : calls'[c] = calls[c]
    BY <1>5, <2>2
  <2>4. \A c \in DOMAIN calls' : Callable(c)' /\ calls'[c] \in CallRecord
    BY <1>1, <1>3, <2>1, <2>3
  <2>5. CallsOK'
    BY <1>2, <2>3, <2>4 DEF CallsOK
  <2> QED BY <2>1, <2>3, <2>5
<1> QED BY <1>4, <1>5

\* A delivery keeps the typing and counts its success.
LEMMA TakenEffect ==
    ASSUME CallsOK, NEW call \in DOMAIN calls, calls[call].due > 0,
           NEW successes \in Nat, Taken(call, successes),
           DOMAIN players \subseteq DOMAIN players'
    PROVE  /\ CallsOK'
           /\ DOMAIN calls' = DOMAIN calls
           /\ calls'[call].succeeded = calls[call].succeeded + successes
           /\ \A c \in DOMAIN calls \ {call} : calls'[c].succeeded = calls[c].succeeded
<1>1. \A c \in DOMAIN calls : Callable(c) /\ calls[c] \in CallRecord
    BY DEF CallsOK
<1>2. \A c : Callable(c) => Callable(c)'
    BY DEF Callable
<1> DEFINE first  == [calls EXCEPT ![call].due = @ - 1]
           second == [first EXCEPT ![call].ran = @ + 1]
<1>3. calls' = [second EXCEPT ![call].succeeded = @ + successes]
    BY DEF Taken
<1>4. /\ DOMAIN first = DOMAIN calls /\ first[call] \in CallRecord
      /\ first[call].succeeded = calls[call].succeeded
      /\ \A c \in DOMAIN calls \ {call} : first[c] = calls[c]
    BY <1>1 DEF CallRecord
<1> HIDE DEF first
<1>5. /\ DOMAIN second = DOMAIN calls /\ second[call] \in CallRecord
      /\ second[call].succeeded = calls[call].succeeded
      /\ \A c \in DOMAIN calls \ {call} : second[c] = calls[c]
    BY <1>4 DEF CallRecord
<1> HIDE DEF second
<1>6. /\ DOMAIN calls' = DOMAIN calls /\ calls'[call] \in CallRecord
      /\ calls'[call].succeeded = calls[call].succeeded + successes
      /\ \A c \in DOMAIN calls \ {call} : calls'[c] = calls[c]
    BY <1>3, <1>5 DEF CallRecord
<1>7. \A c \in DOMAIN calls' : Callable(c)' /\ calls'[c] \in CallRecord
    BY <1>1, <1>2, <1>6
<1>8. CallsOK'
    BY <1>6, <1>7 DEF CallsOK
<1> QED BY <1>6, <1>8

\* The successes a run counts.
RunCounts(call) == IF reply'.e = NoError THEN 1 ELSE 0

\* The steps of clients and server, whatever it is that posts: a command that the
\* program reads as it was meant is posted, run or dropped, the clock ticks, or
\* the server asks whether the batch ends.
ClientMove ==
    \/ /\ \E call : Callable(call) /\ Post(call)
       /\ UNCHANGED <<vars, handled, flushed>>
    \/ \E call \in DOMAIN calls : Run(call) \/ Trap(call)
    \/ ServerTick
    \/ Preempt
    \/ UNCHANGED <<vars, clientVars>>

LEMMA ClientStep == ClientOK /\ [ClientNext]_<<vars, clientVars>> => ClientMove
<1> SUFFICES ASSUME ClientOK, [ClientNext]_<<vars, clientVars>> PROVE ClientMove
    OBVIOUS
<1>1. ASSUME Posting
      PROVE  /\ \E call : Callable(call) /\ Post(call)
             /\ UNCHANGED <<vars, handled, flushed>>
  <2>1. UNCHANGED <<vars, handled, flushed>>
    BY <1>1 DEF Posting, Resend, Send
  <2>2. CASE Resend
    BY <2>1, <2>2 DEF Resend, ClientOK, CallsOK
  <2>3. ASSUME NEW pid \in Pids, Send(pid) PROVE \E call : Callable(call) /\ Post(call)
    <3>1. CASE Post([pid |-> pid, words |-> installPlayer])
      BY <3>1 DEF Callable
    <3>2. CASE /\ pid \in DOMAIN players
               /\ \E words \in Requests(pid, players[pid].nonce) :
                    Post([pid |-> pid, words |-> words])
      <4>1. PICK words \in Requests(pid, players[pid].nonce) :
                Post([pid |-> pid, words |-> words])
        BY <3>2
      <4>2. players[pid].nonce \in Nat
        BY <3>2, Reading DEF ClientOK
      <4>3. Callable([pid |-> pid, words |-> words])
        BY <3>2, <4>2 DEF Callable
      <4> QED BY <4>1, <4>3
    <3> QED BY <2>3, <3>1, <3>2 DEF Send
  <2> QED BY <1>1, <2>1, <2>2, <2>3 DEF Posting
<1> QED BY <1>1 DEF ClientNext, Serving, ClientMove

\* Every step of clients and server is a command of the program or the end of
\* a batch.
LEMMA ClientIsCommand ==
    ASSUME ClientOK, ClientMove
    PROVE  [Command]_vars \/ Preempt
<1>1. ASSUME ServerTick PROVE Command
    BY <1>1 DEF ServerTick, Command
<1>2. ASSUME NEW call, Trap(call) PROVE UNCHANGED vars
    BY <1>2 DEF Trap
<1> QED BY <1>1, <1>2, RunIsCommand DEF ClientMove

\* The end of a batch keeps the program's state but for the batch.
LEMMA PreemptType ==
    ASSUME ClientOK, Preempt
    PROVE  /\ TypeOK' /\ CallsOK' /\ flushed' \in Seq(WithdrawInfo)
<1>1. settlement \in Seq(WithdrawInfo) /\ flushed \in Seq(WithdrawInfo)
      /\ txsize \in Nat /\ TypeOK /\ CallsOK
    BY DEF ClientOK, TypeOK
<1>2. UNCHANGED <<players, positions, markets, counter, txcounter, reply, calls>>
    BY DEF Preempt
<1>3. /\ settlement' \in Seq(WithdrawInfo) /\ txsize' \in Nat
      /\ flushed' \in Seq(WithdrawInfo)
  <2>1. CASE UNCHANGED <<txsize, settlement, flushed>>
    BY <1>1, <2>1
  <2>2. CASE /\ txsize' = NextBatch
             /\ flushed' = flushed \o settlement
             /\ settlement' = FlushedList
    <3>1. flushed \o settlement \in Seq(WithdrawInfo)
      BY <1>1, ConcatProperties
    <3> QED BY <2>2, <3>1 DEF NextBatch, FlushedList
  <2> QED BY <2>1, <2>2 DEF Preempt
<1>4. TypeOK'
    BY <1>1, <1>2, <1>3 DEF TypeOK
<1>5. CallsOK'
    BY <1>1, <1>2 DEF CallsOK, Callable
<1> QED BY <1>3, <1>4, <1>5

\* There are nine commands.
LEMMA CommandKnown ==
    ASSUME NEW call, Callable(call)
    PROVE  CommandOf(call.words) \in
                {INSTALL_PLAYER, RESOLVE, CREATE_MARKET} \cup Consuming
<1>1. CASE CommandOf(call.words) = INSTALL_PLAYER
    BY <1>1
<1>2. CASE CommandOf(call.words) # INSTALL_PLAYER
  <2>1. Meant(call.words)
    BY <1>2, CallRead
  <2> QED BY <2>1 DEF Meant, Consuming
<1> QED BY <1>1, <1>2

\* A player stays installed and its nonce never falls.
NoncesGrow ==
    /\ DOMAIN players \subseteq DOMAIN players'
    /\ \A p \in DOMAIN players : players[p].nonce <= players'[p].nonce

LEMMA RunPlayers ==
    ASSUME TypeOK, NEW call, Callable(call), Effect(call)
    PROVE  NoncesGrow
<1>1. \A p \in DOMAIN players : players[p].nonce \in Nat
    BY Reading
<1>2. CASE NoncesKept
    BY <1>1, <1>2 DEF NoncesKept, NoncesGrow
<1>3. CASE Joined(call.pid)
    BY <1>1, <1>3 DEF Joined, NoncesGrow
<1>4. CASE NonceUsed(call.pid)
    BY <1>1, <1>4 DEF NonceUsed, NoncesGrow
<1>5. NoncesKept \/ Joined(call.pid) \/ NonceUsed(call.pid)
    BY CommandKnown DEF Effect, Succeeded
<1> QED BY <1>2, <1>3, <1>4, <1>5

-----------------------------------------------------------------------------
(* The steps of clients and server, by what they count. *)

\* No command succeeds; one may be posted for the first time.
NoSuccess ==
    /\ \/ DOMAIN calls' = DOMAIN calls
       \/ \E call : DOMAIN calls' = DOMAIN calls \cup {call}
    /\ \A c \in DOMAIN calls : calls'[c].succeeded = calls[c].succeeded
    /\ \A c \in DOMAIN calls' \ DOMAIN calls : calls'[c].succeeded = 0

\* A delivery of a command counts its successes.
Delivered(call, successes) ==
    /\ DOMAIN calls' = DOMAIN calls
    /\ calls'[call].succeeded = calls[call].succeeded + successes
    /\ \A c \in DOMAIN calls \ {call} : calls'[c].succeeded = calls[c].succeeded

\* Nothing runs: clients post, a command traps, the clock ticks.
Quiet ==
    /\ NoSuccess
    /\ NoncesKept
    /\ UNCHANGED <<markets, settlement, txsize, flushed>>
    /\ handled' = handled \/ handled'

\* A batch ends, or goes on.
Ended ==
    /\ NoSuccess
    /\ NoncesKept
    /\ UNCHANGED markets
    /\ Preempt

\* A command runs.
Runs(call) ==
    /\ Run(call) /\ [Command]_vars
    /\ Effect(call) /\ NoncesGrow
    /\ Delivered(call, RunCounts(call))

\* Every step is one of these and keeps the typing.
LEMMA ClientEffect ==
    ASSUME ClientOK, ClientMove
    PROVE  /\ ClientOK'
           /\ Quiet \/ Ended \/ \E call \in DOMAIN calls : Runs(call)
<1>1. /\ TypeOK /\ CallsOK /\ flushed \in Seq(WithdrawInfo)
      /\ \A call \in DOMAIN calls : Callable(call) /\ calls[call] \in CallRecord
    BY DEF ClientOK, CallsOK
<1>2. ASSUME NEW call, Callable(call), Post(call), UNCHANGED <<vars, handled, flushed>>
      PROVE  ClientOK' /\ Quiet
  <2>1. TypeOK'
    <3>1. [Command]_vars
      BY <1>2
    <3> QED BY <1>1, <3>1, StepType
  <2>2. /\ CallsOK'
        /\ DOMAIN calls' = DOMAIN calls \cup {call}
        /\ \A c \in DOMAIN calls : calls'[c].succeeded = calls[c].succeeded
        /\ call \notin DOMAIN calls => calls'[call].succeeded = 0
    BY <1>1, <1>2, PostEffect DEF vars
  <2>3. NoSuccess
    BY <2>2 DEF NoSuccess
  <2> QED BY <1>1, <1>2, <2>1, <2>2, <2>3 DEF ClientOK, Quiet, NoncesKept, vars
<1>3. ASSUME NEW call \in DOMAIN calls, Run(call)
      PROVE  ClientOK' /\ Runs(call)
  <2>1. Command /\ Effect(call) /\ NoncesGrow
    BY <1>1, <1>3, RunIsCommand, RunEffect, RunPlayers
  <2>2. TypeOK'
    BY <1>1, <2>1, StepType
  <2>3. CallsOK' /\ Delivered(call, RunCounts(call))
    <3>1. calls[call].due > 0 /\ Taken(call, RunCounts(call))
      BY <1>3 DEF Run, RunCounts
    <3>2. RunCounts(call) \in Nat
      BY DEF RunCounts
    <3> QED BY <1>1, <2>1, <3>1, <3>2, TakenEffect DEF Delivered, NoncesGrow
  <2>4. flushed' \in Seq(WithdrawInfo)
    BY <1>1, <1>3 DEF Run
  <2> QED BY <1>3, <2>1, <2>2, <2>3, <2>4 DEF ClientOK, Runs
<1>4. ASSUME NEW call \in DOMAIN calls, Trap(call)
      PROVE  ClientOK' /\ Quiet
  <2>1. UNCHANGED <<vars, handled, flushed>> /\ calls[call].due > 0 /\ Taken(call, 0)
    BY <1>4 DEF Trap
  <2>2. TypeOK'
    <3>1. [Command]_vars
      BY <2>1
    <3> QED BY <1>1, <3>1, StepType
  <2>3. CallsOK' /\ Delivered(call, 0)
    <3>1. DOMAIN players \subseteq DOMAIN players' /\ 0 \in Nat
      BY <2>1 DEF vars
    <3> QED BY <1>1, <2>1, <3>1, TakenEffect DEF Delivered
  <2>4. NoSuccess
    BY <1>1, <2>3 DEF Delivered, NoSuccess, CallRecord
  <2> QED BY <1>1, <2>1, <2>2, <2>3, <2>4 DEF ClientOK, Quiet, NoncesKept, vars
<1>5. ASSUME ServerTick
      PROVE  ClientOK' /\ Quiet
  <2>1. Tick /\ handled' = TRUE /\ UNCHANGED <<calls, flushed>>
    BY <1>5 DEF ServerTick
  <2>2. TypeOK'
    <3>1. Command
      BY <2>1 DEF Command
    <3> QED BY <1>1, <3>1, StepType
  <2>3. UNCHANGED <<players, markets, settlement, txsize>>
    BY <2>1 DEF Tick
  <2> QED BY <1>1, <2>1, <2>2, <2>3
          DEF ClientOK, CallsOK, Callable, Quiet, NoSuccess, NoncesKept
<1>6. ASSUME Preempt
      PROVE  ClientOK' /\ Ended
  <2>1. ClientOK'
    BY <1>6, PreemptType DEF ClientOK
  <2>2. UNCHANGED <<players, markets, calls>>
    BY <1>6 DEF Preempt
  <2> QED BY <1>6, <2>1, <2>2 DEF Ended, NoSuccess, NoncesKept
<1>7. ASSUME UNCHANGED <<vars, clientVars>>
      PROVE  ClientOK' /\ Quiet
  <2>1. TypeOK'
    <3>1. [Command]_vars
      BY <1>7
    <3> QED BY <1>1, <3>1, StepType
  <2> QED BY <1>1, <1>7, <2>1
          DEF ClientOK, CallsOK, Callable, Quiet, NoSuccess, NoncesKept, vars, clientVars
<1> QED BY <1>2, <1>3, <1>4, <1>5, <1>6, <1>7 DEF ClientMove

LEMMA TypedInit == ClientInit => ClientOK
<1> SUFFICES ASSUME ClientInit PROVE ClientOK
    OBVIOUS
<1>1. TypeOK
    BY InitType DEF ClientInit
<1>2. DOMAIN calls = {} /\ flushed = << >>
    BY DEF ClientInit
<1> QED BY <1>1, <1>2, FS_EmptySet DEF ClientOK, CallsOK

LEMMA TypedStep == ClientOK /\ ClientMove => ClientOK'
BY ClientEffect

LEMMA ClientTyped == ClientSpec => []ClientOK
BY TypedInit, TypedStep, ClientStep, PTL DEF ClientSpec

-----------------------------------------------------------------------------
(* The books of the program, while clients and server go about theirs. *)

\* A batch ends without touching positions and markets.
LEMMA PreemptBacked ==
    ASSUME ClientOK, Backed, Preempt
    PROVE  Backed'
<1>1. positions' = positions /\ markets' = markets
    BY DEF Preempt
<1> QED BY <1>1 DEF Backed, Priced, Untouched, SharesBacked, HeldShares

LEMMA BackedInit == ClientInit => Backed
<1> SUFFICES ASSUME ClientInit PROVE Backed
    OBVIOUS
<1>1. DOMAIN markets = {}
    BY DEF ClientInit, Init
<1>2. Untouched
    BY DEF ClientInit, Init, Untouched, NoPosition
<1> QED BY <1>1, <1>2 DEF Backed, Priced, SharesBacked

LEMMA BackedMove == ClientOK /\ ClientOK' /\ Backed /\ ClientMove => Backed'
BY ClientIsCommand, BackedStep, PreemptBacked DEF ClientOK

LEMMA ClientBacked == ClientSpec => []Backed
BY BackedInit, BackedMove, ClientTyped, ClientStep, PTL DEF ClientSpec

\* Whatever clients have in flight and wherever batches end, every share is
\* backed and all positions of a resolved market can be paid from its pool.
THEOREM ClientsAreCovered == ClientSpec => [](SharesBacked /\ WinnersCovered)
<1>1. ClientOK /\ Backed => SharesBacked /\ WinnersCovered
    BY PayoutsCovered DEF ClientOK, Backed, WinnersCovered
<1> QED BY <1>1, ClientTyped, ClientBacked, PTL

-----------------------------------------------------------------------------
(* Batches. *)

\* The batch never holds more commands than allowed, nor more withdrawals than
\* commands, whichever way the last one ended.
LEMMA BoundedInit == ClientInit => BatchBounded
BY BatchAssumption DEF ClientInit, Init, BatchBounded

LEMMA BoundedStep == ClientOK /\ BatchBounded /\ ClientMove => BatchBounded'
<1> SUFFICES ASSUME ClientOK, BatchBounded, ClientMove PROVE BatchBounded'
    OBVIOUS
<1>1. /\ settlement \in Seq(WithdrawInfo) /\ txsize \in Nat
      /\ BatchSize \in Nat /\ BatchSize > 0 /\ Len(settlement) \in Nat
    BY BatchAssumption DEF ClientOK, TypeOK
<1>2. CASE Quiet
    BY <1>2 DEF Quiet, BatchBounded
<1>3. ASSUME NEW call \in DOMAIN calls, Runs(call) PROVE BatchBounded'
  <2>1. ~handled /\ handled' = TRUE /\ txsize < BatchSize
    BY <1>3 DEF Runs, Run, BatchBounded
  <2>2. CASE UNCHANGED <<settlement, txsize>>
    BY <2>1, <2>2 DEF BatchBounded
  <2>3. CASE Succeeded(call)
    <3>1. txsize' = txsize + 1
      BY <2>3 DEF Succeeded
    <3>2. Len(settlement') <= Len(settlement) + 1
      <4>1. CASE settlement' = settlement
        BY <1>1, <4>1
      <4>2. CASE settlement' = Append(settlement, [amount |-> call.words[3] % U32])
        BY <1>1, <4>2, AppendProperties
      <4> QED BY <2>3, <4>1, <4>2 DEF Succeeded
    <3>3. Len(settlement') \in Int
      <4>1. settlement' \in Seq(WithdrawInfo)
        BY ClientEffect DEF ClientOK, TypeOK
      <4> QED BY <4>1
    <3> QED BY <1>1, <2>1, <3>1, <3>2, <3>3 DEF BatchBounded
  <2> QED BY <1>3, <2>2, <2>3 DEF Runs, Effect
<1>4. CASE Ended
  <2>1. Preempt
    BY <1>4 DEF Ended
  <2>2. CASE preempt
    BY <1>1, <2>1, <2>2 DEF Preempt, BatchBounded, NextBatch, FlushedList
  <2>3. CASE ~preempt
    <3>1. UNCHANGED <<txsize, settlement>>
      BY <2>1, <2>3 DEF Preempt
    <3>2. ~ (txsize >= BatchSize)
      BY <2>3 DEF preempt
    <3> QED BY <1>1, <3>1, <3>2 DEF BatchBounded
  <2> QED BY <2>2, <2>3
<1> QED BY <1>2, <1>3, <1>4, ClientEffect

THEOREM BatchesAreBounded == ClientSpec => []BatchBounded
BY BoundedInit, BoundedStep, ClientTyped, ClientStep, PTL DEF ClientSpec

-----------------------------------------------------------------------------
(* Commands delivered again. *)

\* What a command that succeeded leaves behind, so that it fails the next time:
\* its player installed, its market resolved, its nonce used up.
Spent(call) ==
    LET command == CommandOf(call.words)
    IN  /\ command = INSTALL_PLAYER => call.pid \in DOMAIN players
        /\ command = RESOLVE =>
             /\ call.words[2] \in DOMAIN markets
             /\ markets[call.words[2]].resolved
        /\ command \in Consuming =>
             /\ call.pid \in DOMAIN players
             /\ NonceOf(call.words) < players[call.pid].nonce

SuccessesSpent ==
    \A call \in DOMAIN calls :
        /\ calls[call].succeeded > 0 => Spent(call)
        /\ CommandOf(call.words) # CREATE_MARKET => calls[call].succeeded <= 1

\* The nonces, and the one in the words of a command, are naturals.
LEMMA NonceNatural ==
    ASSUME ClientOK
    PROVE  /\ \A pid \in DOMAIN players : players[pid].nonce \in Nat
           /\ \A call \in DOMAIN calls :
                CommandOf(call.words) \in Consuming => NonceOf(call.words) \in Nat
<1>1. \A pid \in DOMAIN players : players[pid].nonce \in Nat
    BY Reading DEF ClientOK
<1>2. INSTALL_PLAYER \notin Consuming
    BY DEF Consuming, INSTALL_PLAYER, WITHDRAW, DEPOSIT, BET, SELL, CLAIM,
           WITHDRAW_FEES
<1>3. ASSUME NEW call \in DOMAIN calls, CommandOf(call.words) \in Consuming
      PROVE  NonceOf(call.words) \in Nat
    BY <1>2, <1>3, CallRead DEF ClientOK, CallsOK
<1> QED BY <1>1, <1>3

\* What is spent stays spent.
LEMMA SpentStays ==
    ASSUME ClientOK, ClientOK', NEW call \in DOMAIN calls, Spent(call), NoncesGrow,
           UNCHANGED markets \/ [Command]_vars
    PROVE  Spent(call)'
<1>1. ASSUME call.words[2] \in DOMAIN markets, markets[call.words[2]].resolved
      PROVE  call.words[2] \in DOMAIN markets' /\ markets'[call.words[2]].resolved
    BY <1>1, MarketEffect DEF ClientOK
<1>2. ASSUME CommandOf(call.words) \in Consuming
      PROVE  /\ call.pid \in DOMAIN players'
             /\ NonceOf(call.words) < players'[call.pid].nonce
  <2> DEFINE pid == call.pid
  <2>1. /\ pid \in DOMAIN players /\ NonceOf(call.words) < players[pid].nonce
        /\ players[pid].nonce \in Nat /\ NonceOf(call.words) \in Nat
    BY <1>2, NonceNatural DEF Spent
  <2>2. pid \in DOMAIN players' /\ players[pid].nonce <= players'[pid].nonce
    BY <2>1 DEF NoncesGrow
  <2>3. players'[pid].nonce \in Nat
    <3>1. DOMAIN players' \subseteq Pids /\ players' \in [DOMAIN players' -> PlayerRecord]
      BY DEF ClientOK, TypeOK
    <3> QED BY <2>2, <3>1 DEF PlayerRecord
  <2> HIDE DEF pid
  <2> QED BY <2>1, <2>2, <2>3 DEF pid
<1> QED BY <1>1, <1>2 DEF Spent, NoncesGrow

\* A command that succeeds was not spent and is spent now.
LEMMA SuccessSpends ==
    ASSUME ClientOK, NEW call \in DOMAIN calls, Succeeded(call)
    PROVE  /\ Spent(call)'
           /\ CommandOf(call.words) # CREATE_MARKET => ~Spent(call)
<1> DEFINE command == CommandOf(call.words)
           nonce   == NonceOf(call.words)
<1>1. CASE command = INSTALL_PLAYER
  <2>1. Joined(call.pid)
    BY <1>1 DEF Succeeded
  <2>2. command # RESOLVE /\ command \notin Consuming
    BY <1>1 DEF Consuming, INSTALL_PLAYER, WITHDRAW, DEPOSIT, BET, SELL, CLAIM,
                WITHDRAW_FEES, RESOLVE
  <2> QED BY <1>1, <2>1, <2>2 DEF Spent, Joined
<1>2. CASE command = RESOLVE
  <2>1. command # INSTALL_PLAYER /\ command \notin Consuming
    BY <1>2 DEF Consuming, INSTALL_PLAYER, WITHDRAW, DEPOSIT, BET, SELL, CLAIM,
                WITHDRAW_FEES, RESOLVE
  <2> QED BY <1>2, <2>1 DEF Spent, Succeeded
<1>3. CASE command \in Consuming
  <2>1. command # INSTALL_PLAYER /\ command # RESOLVE
    BY <1>3 DEF Consuming, INSTALL_PLAYER, WITHDRAW, DEPOSIT, BET, SELL, CLAIM,
                WITHDRAW_FEES, RESOLVE
  <2>2. nonce = players[call.pid].nonce /\ NonceUsed(call.pid)
    BY <1>3 DEF Succeeded
  <2>3. nonce \in Nat
    BY <1>3, NonceNatural
  <2>4. /\ call.pid \in DOMAIN players /\ call.pid \in DOMAIN players'
        /\ players'[call.pid].nonce = nonce + 1
    BY <2>2 DEF NonceUsed
  <2>5. nonce < players'[call.pid].nonce /\ ~ (nonce < players[call.pid].nonce)
    BY <2>2, <2>3, <2>4
  <2> QED BY <1>3, <2>1, <2>4, <2>5 DEF Spent
<1>4. CASE command = CREATE_MARKET
  <2>1. command # INSTALL_PLAYER /\ command # RESOLVE /\ command \notin Consuming
    BY <1>4 DEF Consuming, INSTALL_PLAYER, WITHDRAW, DEPOSIT, BET, SELL, CLAIM,
                WITHDRAW_FEES, RESOLVE, CREATE_MARKET
  <2> QED BY <1>4, <2>1 DEF Spent
<1>5. Callable(call)
    BY DEF ClientOK, CallsOK
<1> QED BY <1>1, <1>2, <1>3, <1>4, <1>5, CommandKnown

LEMMA SpentStep ==
    ClientOK /\ SuccessesSpent /\ ClientMove => SuccessesSpent'
<1> SUFFICES ASSUME ClientOK, SuccessesSpent, ClientMove,
                    NEW c \in DOMAIN calls'
             PROVE  /\ calls'[c].succeeded > 0 => Spent(c)'
                    /\ CommandOf(c.words) # CREATE_MARKET => calls'[c].succeeded <= 1
    BY DEF SuccessesSpent
<1>1. /\ ClientOK'
      /\ Quiet \/ Ended \/ \E call \in DOMAIN calls : Runs(call)
    BY ClientEffect
<1>2. c \in DOMAIN calls =>
        /\ calls[c].succeeded \in Nat
        /\ calls[c].succeeded > 0 => Spent(c)
        /\ CommandOf(c.words) # CREATE_MARKET => calls[c].succeeded <= 1
    BY DEF ClientOK, CallsOK, CallRecord, SuccessesSpent
<1>3. CASE Quiet \/ Ended
  <2>1. NoSuccess /\ NoncesGrow /\ UNCHANGED markets
    BY <1>3, NonceNatural DEF Quiet, Ended, NoncesKept, NoncesGrow
  <2>2. CASE c \in DOMAIN calls
    <3>1. calls'[c].succeeded = calls[c].succeeded
      BY <2>1, <2>2 DEF NoSuccess
    <3> QED BY <1>1, <1>2, <2>1, <2>2, <3>1, SpentStays
  <2>3. CASE c \notin DOMAIN calls
    <3>1. calls'[c].succeeded = 0
      BY <2>1, <2>3 DEF NoSuccess
    <3> QED BY <3>1
  <2> QED BY <2>2, <2>3
<1>4. ASSUME NEW call \in DOMAIN calls, Runs(call)
      PROVE  /\ calls'[c].succeeded > 0 => Spent(c)'
             /\ CommandOf(c.words) # CREATE_MARKET => calls'[c].succeeded <= 1
  <2>1. /\ c \in DOMAIN calls /\ NoncesGrow /\ [Command]_vars
        /\ c # call => calls'[c].succeeded = calls[c].succeeded
        /\ calls'[call].succeeded = calls[call].succeeded + RunCounts(call)
    BY <1>4 DEF Runs, Delivered
  <2>2. CASE c # call \/ RunCounts(call) = 0
    <3>1. calls'[c].succeeded = calls[c].succeeded
      BY <1>2, <2>1, <2>2
    <3> QED BY <1>1, <1>2, <2>1, <3>1, SpentStays
  <2>3. CASE c = call /\ RunCounts(call) # 0
    <3>1. reply'.e = NoError /\ RunCounts(call) = 1
      BY <2>3 DEF RunCounts
    <3>2. Succeeded(call)
      BY <1>4, <3>1 DEF Runs, Effect
    <3>3. Spent(call)' /\ (CommandOf(call.words) # CREATE_MARKET => ~Spent(call))
      BY <3>2, SuccessSpends
    <3>4. CommandOf(c.words) # CREATE_MARKET => calls[c].succeeded = 0
      BY <1>2, <2>1, <2>3, <3>3
    <3> QED BY <2>1, <2>3, <3>1, <3>3, <3>4
  <2> QED BY <2>2, <2>3
<1> QED BY <1>1, <1>3, <1>4

LEMMA SpentInit == ClientInit => SuccessesSpent
BY DEF ClientInit, SuccessesSpent

LEMMA AlwaysSpent == ClientSpec => []SuccessesSpent
BY SpentInit, SpentStep, ClientTyped, ClientStep, PTL DEF ClientSpec

\* However often a command is delivered, it succeeds at most once, the creation
\* of a market alone excepted: a resolution keeps its nonce and is stopped by
\* the market it resolved.
THEOREM CreationAloneRepeats == ClientSpec => []OnlyCreationRepeats
<1>1. ClientOK /\ SuccessesSpent => OnlyCreationRepeats
    BY DEF ClientOK, CallsOK, CallRecord, SuccessesSpent, OnlyCreationRepeats
<1> QED BY <1>1, ClientTyped, AlwaysSpent, PTL

-----------------------------------------------------------------------------
(* Nonces. *)

\* One set is the other with at most one more element.
Joins(new, old) == new = old \/ \E one : new = old \cup {one}

\* A sum over the commands posted does not change when one more adds nothing.
LEMMA SumJoined ==
    ASSUME NEW old, IsFiniteSet(old), NEW new, Joins(new, old),
           NEW before, NEW after, \A c \in new : after[c] \in Int,
           \A c \in old : after[c] = before[c], \A c \in new \ old : after[c] = 0
    PROVE  SumOver(new, after) = SumOver(old, before)
<1>1. SumOver(old, after) = SumOver(old, before)
    BY SumSame
<1>2. CASE new = old
    BY <1>1, <1>2
<1>3. CASE new # old
  <2>1. PICK one : new = old \cup {one} /\ one \notin old
    BY <1>3 DEF Joins
  <2>2. \A c \in old \cup {one} : after[c] \in Int
    BY <2>1
  <2>3. SumOver(old \cup {one}, after) = SumOver(old, after) + after[one]
    <3>1. IsFiniteSet(old) /\ one \notin old
      BY <2>1
    <3> QED BY <2>2, <3>1, SumAdded
  <2>4. SumOver(old, after) \in Int
    BY <2>1, <2>2, SumType
  <2>5. after[one] = 0
    BY <2>1
  <2> QED BY <1>1, <2>1, <2>3, <2>4, <2>5
<1> QED BY <1>2, <1>3

\* No use of a nonce is counted where no command succeeds.
LEMMA UsesKept ==
    ASSUME ClientOK, ClientOK', NoSuccess, NEW pid, NEW nonce
    PROVE  Uses(pid, nonce)' = Uses(pid, nonce)
<1>1. PICK use : use = [c \in DOMAIN calls \cup DOMAIN calls' |->
                            Consumes(c, pid, nonce)]
    OBVIOUS
<1>2. PICK before :
        before = [c \in DOMAIN calls |-> IF use[c] THEN calls[c].succeeded ELSE 0]
    OBVIOUS
<1>3. PICK after :
        after = [c \in DOMAIN calls' |-> IF use[c] THEN calls'[c].succeeded ELSE 0]
    OBVIOUS
<1>4. Uses(pid, nonce) = SumOver(DOMAIN calls, before)
  <2>1. [c \in DOMAIN calls |->
            IF Consumes(c, pid, nonce) THEN calls[c].succeeded ELSE 0] = before
    BY <1>1, <1>2
  <2> QED BY <2>1, <1>2 DEF Uses, Total
<1>5. Uses(pid, nonce)' = SumOver(DOMAIN calls', after)
  <2>1. [c \in DOMAIN calls' |->
            IF Consumes(c, pid, nonce) THEN calls'[c].succeeded ELSE 0] = after
    BY <1>1, <1>3
  <2> QED BY <2>1, <1>3 DEF Uses, Total
<1>6. \A c \in DOMAIN calls' : after[c] \in Int
    BY <1>3 DEF ClientOK, CallsOK, CallRecord
<1>7. \A c \in DOMAIN calls : c \in DOMAIN calls' /\ after[c] = before[c]
    BY <1>2, <1>3 DEF NoSuccess
<1>8. \A c \in DOMAIN calls' \ DOMAIN calls : after[c] = 0
    BY <1>3 DEF NoSuccess
<1>9. PICK old, new : old = DOMAIN calls /\ new = DOMAIN calls'
    OBVIOUS
<1>10. IsFiniteSet(old) /\ Joins(new, old)
    BY <1>9 DEF ClientOK, CallsOK, NoSuccess, Joins
<1>11. SumOver(new, after) = SumOver(old, before)
    BY <1>6, <1>7, <1>8, <1>9, <1>10, SumJoined
<1> QED BY <1>4, <1>5, <1>9, <1>11

\* A delivery counts its successes as uses of its own nonce alone.
LEMMA UsesDelivered ==
    ASSUME ClientOK, ClientOK', NEW call \in DOMAIN calls, NEW n \in Nat,
           Delivered(call, n), NEW pid, NEW nonce
    PROVE  Uses(pid, nonce)' =
                Uses(pid, nonce) + (IF Consumes(call, pid, nonce) THEN n ELSE 0)
<1>1. PICK use : use = [c \in DOMAIN calls |-> Consumes(c, pid, nonce)]
    OBVIOUS
<1>2. PICK before :
        before = [c \in DOMAIN calls |-> IF use[c] THEN calls[c].succeeded ELSE 0]
    OBVIOUS
<1>3. PICK after :
        after = [c \in DOMAIN calls |-> IF use[c] THEN calls'[c].succeeded ELSE 0]
    OBVIOUS
<1>4. Uses(pid, nonce) = SumOver(DOMAIN calls, before)
  <2>1. [c \in DOMAIN calls |->
            IF Consumes(c, pid, nonce) THEN calls[c].succeeded ELSE 0] = before
    BY <1>1, <1>2
  <2> QED BY <2>1, <1>2 DEF Uses, Total
<1>5. Uses(pid, nonce)' = SumOver(DOMAIN calls, after)
  <2>1. [c \in DOMAIN calls' |->
            IF Consumes(c, pid, nonce) THEN calls'[c].succeeded ELSE 0] = after
    BY <1>1, <1>3 DEF Delivered
  <2> QED BY <2>1, <1>3 DEF Uses, Total
<1>6. \A c \in DOMAIN calls : before[c] \in Int /\ after[c] \in Int
    BY <1>2, <1>3 DEF ClientOK, CallsOK, CallRecord, Delivered
<1>7. \A c \in DOMAIN calls \ {call} : after[c] = before[c]
    BY <1>2, <1>3 DEF Delivered
<1>8. IsFiniteSet(DOMAIN calls)
    BY DEF ClientOK, CallsOK
<1>9. SumOver(DOMAIN calls, after)
        = SumOver(DOMAIN calls, before) + (after[call] - before[call])
    BY <1>6, <1>7, <1>8, SumChanged
<1>10. calls[call].succeeded \in Nat
    BY DEF ClientOK, CallsOK, CallRecord
<1>11. after[call] - before[call] = IF Consumes(call, pid, nonce) THEN n ELSE 0
    BY <1>1, <1>2, <1>3, <1>10 DEF Delivered
<1> QED BY <1>4, <1>5, <1>9, <1>11

\* The uses of every nonce, not only of those a bounded model offers.
UsedOnce ==
    \A pid \in DOMAIN players : \A nonce \in Nat :
        Uses(pid, nonce) = IF nonce < players[pid].nonce THEN 1 ELSE 0

LEMMA UsedStep ==
    ClientOK /\ UsedOnce /\ ClientMove => UsedOnce'
<1> SUFFICES ASSUME ClientOK, UsedOnce, ClientMove,
                    NEW pid \in DOMAIN players', NEW nonce \in Nat
             PROVE  Uses(pid, nonce)'
                        = IF nonce < players'[pid].nonce THEN 1 ELSE 0
    BY DEF UsedOnce
<1>1. /\ ClientOK'
      /\ Quiet \/ Ended \/ \E call \in DOMAIN calls : Runs(call)
    BY ClientEffect
<1>2. pid \in DOMAIN players =>
        /\ players[pid].nonce \in Nat
        /\ Uses(pid, nonce) = IF nonce < players[pid].nonce THEN 1 ELSE 0
    BY NonceNatural DEF UsedOnce
<1>3. CASE Quiet \/ Ended
  <2>1. NoSuccess /\ NoncesKept
    BY <1>3 DEF Quiet, Ended
  <2>2. Uses(pid, nonce)' = Uses(pid, nonce)
    BY <1>1, <2>1, UsesKept
  <2> QED BY <1>2, <2>1, <2>2 DEF NoncesKept
<1>4. ASSUME NEW call \in DOMAIN calls, Runs(call)
      PROVE  Uses(pid, nonce)' = IF nonce < players'[pid].nonce THEN 1 ELSE 0
  <2> DEFINE n == RunCounts(call)
  <2>1. n \in Nat /\ Delivered(call, n) /\ Callable(call)
    BY <1>4 DEF Runs, RunCounts, ClientOK, CallsOK
  <2> HIDE DEF n
  <2>2. Uses(pid, nonce)' =
            Uses(pid, nonce) + (IF Consumes(call, pid, nonce) THEN n ELSE 0)
    BY <1>1, <2>1, UsesDelivered
  <2>3. CASE NoncesKept /\ (Consumes(call, pid, nonce) => n = 0)
    <3>1. pid \in DOMAIN players /\ players'[pid].nonce = players[pid].nonce
      BY <2>3 DEF NoncesKept
    <3>2. (IF Consumes(call, pid, nonce) THEN n ELSE 0) = 0
      BY <2>3
    <3> QED BY <1>2, <2>2, <3>1, <3>2
  <2>4. CASE /\ CommandOf(call.words) \in Consuming /\ n = 1
             /\ NonceOf(call.words) = players[call.pid].nonce
             /\ NonceUsed(call.pid)
    <3>1. pid \in DOMAIN players
      BY <2>4 DEF NonceUsed
    <3>2. CASE pid # call.pid
      <4>1. players'[pid].nonce = players[pid].nonce /\ ~Consumes(call, pid, nonce)
        BY <2>4, <3>1, <3>2 DEF NonceUsed, Consumes
      <4> QED BY <1>2, <2>2, <3>1, <4>1
    <3>3. CASE pid = call.pid
      <4>1. /\ players'[pid].nonce = players[pid].nonce + 1
            /\ Consumes(call, pid, nonce) <=> nonce = players[pid].nonce
        BY <2>4, <3>3 DEF NonceUsed, Consumes
      <4>2. CASE nonce = players[pid].nonce
        BY <1>2, <2>2, <2>4, <3>1, <4>1, <4>2
      <4>3. CASE nonce # players[pid].nonce
        BY <1>2, <2>2, <3>1, <4>1, <4>3
      <4> QED BY <4>2, <4>3
    <3> QED BY <3>2, <3>3
  <2>5. CASE Joined(call.pid) /\ CommandOf(call.words) = INSTALL_PLAYER
    <3>1. ~Consumes(call, pid, nonce)
      BY <2>5 DEF Consumes, Consuming, INSTALL_PLAYER, WITHDRAW, DEPOSIT, BET,
                  SELL, CLAIM, WITHDRAW_FEES
    <3>2. CASE pid # call.pid
      <4>1. pid \in DOMAIN players /\ players'[pid].nonce = players[pid].nonce
        BY <2>5, <3>2 DEF Joined
      <4> QED BY <1>2, <2>2, <3>1, <4>1
    <3>3. CASE pid = call.pid
      <4>1. pid \notin DOMAIN players /\ players'[pid].nonce = 0
        BY <2>5, <3>3 DEF Joined
      <4>2. PICK table : table = [c \in DOMAIN calls |->
                IF Consumes(c, pid, nonce) THEN calls[c].succeeded ELSE 0]
        OBVIOUS
      <4>3. \A c \in DOMAIN calls : ~Consumes(c, pid, nonce)
        <5> SUFFICES ASSUME NEW c \in DOMAIN calls, c.pid = pid
                     PROVE  CommandOf(c.words) \notin Consuming
          BY DEF Consumes
        <5>1. c.words = installPlayer
          BY <4>1 DEF ClientOK, CallsOK, Callable
        <5> QED BY <5>1, InstallRead
                DEF Consuming, INSTALL_PLAYER, WITHDRAW, DEPOSIT, BET, SELL,
                    CLAIM, WITHDRAW_FEES
      <4>4. \A c \in DOMAIN calls : table[c] = 0
        BY <4>2, <4>3
      <4>5. SumOver(DOMAIN calls, table) = 0
        BY <4>4, SumOfZeros DEF ClientOK, CallsOK
      <4>6. Uses(pid, nonce) = 0
        BY <4>2, <4>5 DEF Uses, Total
      <4> QED BY <2>2, <3>1, <4>1, <4>6
    <3> QED BY <3>2, <3>3
  <2>6. CASE reply'.e # NoError
    BY <1>4, <2>3, <2>6 DEF Runs, Effect, n, RunCounts
  <2>7. CASE reply'.e = NoError
    <3>1. Succeeded(call) /\ n = 1
      BY <1>4, <2>7 DEF Runs, Effect, n, RunCounts
    <3>2. CASE CommandOf(call.words) \in {RESOLVE, CREATE_MARKET}
      <4>1. NoncesKept /\ ~Consumes(call, pid, nonce)
        BY <3>1, <3>2 DEF Succeeded, Consumes, Consuming, RESOLVE, CREATE_MARKET,
                WITHDRAW, DEPOSIT, BET, SELL, CLAIM, WITHDRAW_FEES
      <4> QED BY <2>3, <4>1
    <3> QED BY <2>1, <2>4, <2>5, <3>1, <3>2, CommandKnown DEF Succeeded
  <2> QED BY <2>6, <2>7
<1> QED BY <1>1, <1>3, <1>4

LEMMA UsedInit == ClientInit => UsedOnce
BY DEF ClientInit, Init, UsedOnce

LEMMA AlwaysUsedOnce == ClientSpec => []UsedOnce
BY UsedInit, UsedStep, ClientTyped, ClientStep, PTL DEF ClientSpec

\* Whatever a player has in flight and however often it is delivered, every
\* nonce below the player's own was used by exactly one successful command and
\* no nonce above it by any.
THEOREM NoncesUsedOnce == ClientSpec => []EachNonceOnce
<1>1. UsedOnce => EachNonceOnce
    BY BoundsAssumption DEF UsedOnce, EachNonceOnce
<1> QED BY <1>1, AlwaysUsedOnce, PTL

-----------------------------------------------------------------------------
(* Withdrawals. *)

LEMMA AmountNatural == \A one \in WithdrawInfo : one.amount \in Nat
BY LimitsAssumption DEF WithdrawInfo, Word

\* The amounts of a list of withdrawals add up to a natural.
LEMMA AmountsType ==
    ASSUME NEW list \in Seq(WithdrawInfo)
    PROVE  Amounts(list) \in Nat
<1> DEFINE before == [i \in DOMAIN list |-> list[i].amount]
<1>1. \A i \in DOMAIN list : before[i] \in Nat
  <2>1. \A i \in DOMAIN list : list[i] \in WithdrawInfo
    BY ElementOfSeq
  <2> QED BY <2>1, AmountNatural
<1>2. IsFiniteSet(DOMAIN list)
    BY FS_Interval
<1>3. Amounts(list) = SumOver(DOMAIN list, before)
    BY DEF Amounts, Total
<1> HIDE DEF before
<1> QED BY <1>1, <1>2, <1>3, SumOfNaturals

LEMMA AmountsOfNone == Amounts(<< >>) = 0
<1> DEFINE list   == << >>
           before == [i \in DOMAIN list |-> list[i].amount]
<1>1. DOMAIN before = {}
    OBVIOUS
<1>2. Amounts(list) = SumOver(DOMAIN before, before)
    BY DEF Amounts, Total
<1> HIDE DEF before
<1>3. SumOver({}, before) = 0
    BY SumOfNone
<1> QED BY <1>1, <1>2, <1>3

\* One more withdrawal adds its amount.
LEMMA AmountsAppended ==
    ASSUME NEW list \in Seq(WithdrawInfo), NEW one \in WithdrawInfo
    PROVE  Amounts(Append(list, one)) = Amounts(list) + one.amount
<1>1. PICK longer : longer = Append(list, one)
    OBVIOUS
<1>2. PICK n \in Nat : n = Len(list) /\ DOMAIN list = 1 .. n
    OBVIOUS
<1>3. /\ longer \in Seq(WithdrawInfo) /\ Len(longer) = n + 1
      /\ \A i \in 1 .. n : longer[i] = list[i]
      /\ longer[n + 1] = one
    BY <1>1, <1>2, AppendProperties
<1>4. PICK earlier : earlier = 1 .. n
    OBVIOUS
<1>5. PICK last : last = n + 1
    OBVIOUS
<1>6. DOMAIN longer = earlier \cup {last} /\ last \notin earlier
    BY <1>3, <1>4, <1>5
<1>7. PICK before : before = [i \in earlier |-> list[i].amount]
    OBVIOUS
<1>8. PICK after : after = [i \in earlier \cup {last} |-> longer[i].amount]
    OBVIOUS
<1>9. IsFiniteSet(earlier)
    BY <1>4, FS_Interval
<1>10. /\ Amounts(list) = SumOver(earlier, before)
       /\ Amounts(longer) = SumOver(earlier \cup {last}, after)
    BY <1>2, <1>4, <1>6, <1>7, <1>8 DEF Amounts, Total
<1>11. \A i \in earlier \cup {last} : after[i] \in Int
  <2>1. \A i \in earlier \cup {last} : longer[i] \in WithdrawInfo
    <3>1. \A i \in 1 .. Len(longer) : longer[i] \in WithdrawInfo
      BY <1>3, ElementOfSeq
    <3> QED BY <1>3, <1>4, <1>5, <3>1
  <2>2. \A i \in earlier \cup {last} : longer[i].amount \in Nat
    BY <2>1, AmountNatural
  <2> QED BY <1>8, <2>2
<1>12. \A i \in earlier : after[i] = before[i]
    BY <1>3, <1>4, <1>7, <1>8
<1>13. after[last] = one.amount
    BY <1>3, <1>5, <1>8
<1>14. last \notin earlier
    BY <1>6
<1>15. SumOver(earlier \cup {last}, after) = SumOver(earlier, after) + after[last]
    BY <1>9, <1>11, <1>14, SumAdded
<1>16. SumOver(earlier, after) = SumOver(earlier, before)
    BY <1>9, <1>12, SumSame
<1> QED BY <1>1, <1>10, <1>13, <1>15, <1>16

\* The amounts of two lists, one after the other.  By the shortest second list
\* that adds anything else.
LEMMA AmountsJoined ==
    ASSUME NEW first \in Seq(WithdrawInfo), NEW second \in Seq(WithdrawInfo)
    PROVE  Amounts(first \o second) = Amounts(first) + Amounts(second)
<1> DEFINE Wrong(list) == Amounts(first \o list) # Amounts(first) + Amounts(list)
           T == {n \in Nat : \E list \in Seq(WithdrawInfo) : Len(list) = n /\ Wrong(list)}
<1> SUFFICES ASSUME Wrong(second) PROVE FALSE
    OBVIOUS
<1>1. Len(second) \in T
    OBVIOUS
<1>2. T \subseteq Nat /\ T # {}
    BY <1>1
<1> HIDE DEF T
<1>3. PICK n \in T : \A k \in T : n <= k
    BY <1>2, LeastNatural
<1>4. PICK list \in Seq(WithdrawInfo) : n \in Nat /\ Len(list) = n /\ Wrong(list)
    BY <1>3 DEF T
<1>5. Amounts(first) \in Nat
    BY AmountsType
<1>6. CASE n = 0
  <2>1. list = << >>
    BY <1>4, <1>6
  <2>2. first \o << >> = first
    BY ConcatEmptySeq
  <2> QED BY <1>4, <1>5, <2>1, <2>2, AmountsOfNone
<1>7. CASE n # 0
  <2>1. PICK k \in Nat : n = k + 1
    <3>1. n - 1 \in Nat /\ n = (n - 1) + 1
      BY <1>4, <1>7
    <3> QED BY <3>1
  <2>2. PICK front : front = [i \in 1 .. k |-> list[i]]
    OBVIOUS
  <2>3. PICK one : one = list[k + 1]
    OBVIOUS
  <2>4. front \in Seq(WithdrawInfo) /\ Len(front) = k /\ one \in WithdrawInfo
    <3>1. \A i \in 1 .. n : list[i] \in WithdrawInfo
      BY <1>4, ElementOfSeq
    <3> QED BY <2>1, <2>2, <2>3, <3>1
  <2>5. list = Append(front, one)
    <3>1. PICK whole : whole = Append(front, one)
      OBVIOUS
    <3>2. /\ whole \in Seq(WithdrawInfo) /\ Len(whole) = n
          /\ \A i \in 1 .. k : whole[i] = list[i]
          /\ whole[k + 1] = list[k + 1]
      BY <2>1, <2>2, <2>3, <2>4, <3>1, AppendProperties
    <3>3. ASSUME NEW i \in 1 .. n PROVE whole[i] = list[i]
      <4>1. i \in 1 .. k \/ i = k + 1
        BY <2>1
      <4>2. CASE i \in 1 .. k
        BY <3>2, <4>2
      <4>3. CASE i = k + 1
        BY <3>2, <4>3
      <4> QED BY <4>1, <4>2, <4>3
    <3>4. whole \in Seq(WithdrawInfo) /\ Len(whole) = Len(list)
          /\ \A i \in 1 .. Len(whole) : whole[i] = list[i]
      BY <1>4, <3>2, <3>3
    <3>5. whole = list
      BY <3>4, SeqEqual
    <3> QED BY <3>1, <3>5
  <2>6. first \o Append(front, one) = Append(first \o front, one)
    BY <2>4
  <2>7. first \o front \in Seq(WithdrawInfo)
    BY <2>4, ConcatProperties
  <2>8. ~Wrong(front)
    <3>1. k \notin T
      BY <1>3, <2>1
    <3> QED BY <2>4, <3>1 DEF T
  <2>9. /\ Amounts(Append(first \o front, one)) = Amounts(first \o front) + one.amount
        /\ Amounts(Append(front, one)) = Amounts(front) + one.amount
    BY <2>4, <2>7, AmountsAppended
  <2>10. Amounts(front) \in Nat /\ one.amount \in Nat
    BY <2>4, AmountsType, AmountNatural
  <2> QED BY <1>4, <1>5, <2>5, <2>6, <2>8, <2>9, <2>10
<1> QED BY <1>6, <1>7

\* What a command withdraws each time it succeeds.
Asks(call) == IF CommandOf(call.words) = WITHDRAW THEN call.words[3] % U32 ELSE 0

LEMMA AsksType ==
    ASSUME ClientOK, NEW call \in DOMAIN calls
    PROVE  Asks(call) \in Word /\ Asks(call) \in Nat
<1>1. 0 \in Word /\ Word \subseteq Nat
    BY LimitsAssumption DEF Word
<1>2. CASE CommandOf(call.words) = WITHDRAW
  <2>1. CommandOf(call.words) # INSTALL_PLAYER
    BY <1>2 DEF WITHDRAW, INSTALL_PLAYER
  <2>2. Callable(call)
    BY DEF ClientOK, CallsOK
  <2>3. Meant(call.words)
    BY <2>1, <2>2, CallRead
  <2>4. call.words[3] \in WithdrawAmounts
    BY <1>2, <2>3 DEF Meant, WITHDRAW, DEPOSIT, BET, SELL, RESOLVE, CLAIM,
            WITHDRAW_FEES, CREATE_MARKET
  <2>5. PICK amount \in Word : amount = call.words[3]
    BY <2>4, InputsAssumption
  <2>6. amount % U32 \in Word
    BY LowHalf
  <2> QED BY <1>1, <1>2, <2>5, <2>6 DEF Asks
<1> QED BY <1>1, <1>2 DEF Asks

\* All that the accepted withdrawals of the clients asked for.
Accepted == Total([call \in DOMAIN calls |-> Withdrawals(call)])

\* Each success of a withdrawal is worth what its words ask for.
Valued ==
    \A call \in DOMAIN calls :
        /\ calls[call].succeeded \in Nat
        /\ Asks(call) \in Word /\ Asks(call) \in Nat
        /\ Withdrawals(call) = calls[call].succeeded * Asks(call)
        /\ Withdrawals(call) \in Nat

LEMMA AlwaysValued == ClientOK => Valued
<1> SUFFICES ASSUME ClientOK, NEW call \in DOMAIN calls
             PROVE  /\ calls[call].succeeded \in Nat
                    /\ Asks(call) \in Word /\ Asks(call) \in Nat
                    /\ Withdrawals(call) = calls[call].succeeded * Asks(call)
                    /\ Withdrawals(call) \in Nat
    BY DEF Valued
<1>1. calls[call].succeeded \in Nat /\ Asks(call) \in Word /\ Asks(call) \in Nat
    BY AsksType DEF ClientOK, CallsOK, CallRecord
<1>2. PICK n \in Nat, a \in Nat : n = calls[call].succeeded /\ a = Asks(call)
    BY <1>1
<1>3. n * a \in Nat /\ n * 0 = 0
    OBVIOUS
<1>4. Withdrawals(call) = n * a
  <2>1. CASE CommandOf(call.words) = WITHDRAW
    BY <1>2, <2>1 DEF Withdrawals, Asks
  <2>2. CASE CommandOf(call.words) # WITHDRAW
    BY <1>2, <1>3, <2>2 DEF Withdrawals, Asks
  <2> QED BY <2>1, <2>2
<1> QED BY <1>1, <1>2, <1>3, <1>4

LEMMA BothValued ==
    ASSUME ClientOK, ClientOK'
    PROVE  Valued /\ Valued'
<1>1. Valued
    BY AlwaysValued
<1>2. Valued'
    BY AlwaysValued, PTL
<1> QED BY <1>1, <1>2

LEMMA AcceptedKept ==
    ASSUME ClientOK, ClientOK', NoSuccess
    PROVE  Accepted' = Accepted
<1>1. Valued /\ Valued'
    BY BothValued
<1>2. PICK before : before = [c \in DOMAIN calls |-> Withdrawals(c)]
    OBVIOUS
<1>3. PICK after : after = [c \in DOMAIN calls' |-> Withdrawals(c)']
    OBVIOUS
<1>4. Accepted = SumOver(DOMAIN calls, before)
      /\ Accepted' = SumOver(DOMAIN calls', after)
    BY <1>2, <1>3 DEF Accepted, Total
<1>5. \A c \in DOMAIN calls' : after[c] \in Int
    BY <1>1, <1>3 DEF Valued
<1>6. \A c \in DOMAIN calls : c \in DOMAIN calls' /\ after[c] = before[c]
    BY <1>2, <1>3 DEF NoSuccess, Withdrawals
<1>7. ASSUME NEW c \in DOMAIN calls' \ DOMAIN calls PROVE after[c] = 0
  <2>1. calls'[c].succeeded = 0
    BY DEF NoSuccess
  <2>2. /\ Withdrawals(c)' = calls'[c].succeeded * Asks(c) /\ Asks(c) \in Nat
    BY <1>1 DEF Valued, Asks
  <2> QED BY <1>3, <2>1, <2>2
<1>8. PICK old, new : old = DOMAIN calls /\ new = DOMAIN calls'
    OBVIOUS
<1>9. IsFiniteSet(old) /\ Joins(new, old)
    BY <1>8 DEF ClientOK, CallsOK, NoSuccess, Joins
<1>10. SumOver(new, after) = SumOver(old, before)
    BY <1>5, <1>6, <1>7, <1>8, <1>9, SumJoined
<1> QED BY <1>4, <1>8, <1>10

LEMMA AcceptedDelivered ==
    ASSUME ClientOK, ClientOK', NEW call \in DOMAIN calls, NEW n \in 0 .. 1,
           Delivered(call, n)
    PROVE  Accepted' = Accepted + (IF n = 1 THEN Asks(call) ELSE 0)
<1>1. Valued /\ Valued'
    BY BothValued
<1>2. PICK before : before = [c \in DOMAIN calls |-> Withdrawals(c)]
    OBVIOUS
<1>3. PICK after : after = [c \in DOMAIN calls |-> Withdrawals(c)']
    OBVIOUS
<1>4. Accepted = SumOver(DOMAIN calls, before)
      /\ Accepted' = SumOver(DOMAIN calls, after)
    BY <1>2, <1>3 DEF Accepted, Total, Delivered
<1>5. \A c \in DOMAIN calls : before[c] \in Int /\ after[c] \in Int
    BY <1>1, <1>2, <1>3 DEF Valued, Delivered
<1>6. \A c \in DOMAIN calls \ {call} : after[c] = before[c]
    BY <1>2, <1>3 DEF Delivered, Withdrawals
<1>7. IsFiniteSet(DOMAIN calls)
    BY DEF ClientOK, CallsOK
<1>8. SumOver(DOMAIN calls, after)
        = SumOver(DOMAIN calls, before) + (after[call] - before[call])
    BY <1>5, <1>6, <1>7, SumChanged
<1>9. PICK s \in Nat, a \in Nat : s = calls[call].succeeded /\ a = Asks(call)
    BY <1>1 DEF Valued
<1>10. before[call] = s * a /\ after[call] = (s + n) * a
    BY <1>1, <1>2, <1>3, <1>9 DEF Valued, Delivered, Asks
<1>11. (s + n) * a - s * a = IF n = 1 THEN a ELSE 0
  <2>1. CASE n = 1
    <3>1. (s + 1) * a = s * a + a
      OBVIOUS
    <3>2. s * a \in Nat
      OBVIOUS
    <3> QED BY <2>1, <3>1, <3>2
  <2>2. CASE n = 0
    <3>1. s * a \in Nat /\ s + n = s
      BY <2>2
    <3> QED BY <2>2, <3>1
  <2> QED BY <2>1, <2>2
<1> QED BY <1>4, <1>8, <1>9, <1>10, <1>11

LEMMA SettledStep ==
    ClientOK /\ WithdrawalsSettled /\ ClientMove
        => WithdrawalsSettled'
<1> SUFFICES ASSUME ClientOK, Amounts(flushed) + Amounts(settlement) = Accepted,
                    ClientMove
             PROVE  Amounts(flushed') + Amounts(settlement') = Accepted'
    BY DEF WithdrawalsSettled, Accepted
<1>1. /\ ClientOK'
      /\ Quiet \/ Ended \/ \E call \in DOMAIN calls : Runs(call)
    BY ClientEffect
<1>2. flushed \in Seq(WithdrawInfo) /\ settlement \in Seq(WithdrawInfo)
    BY DEF ClientOK, TypeOK
<1>3. Amounts(flushed) \in Nat /\ Amounts(settlement) \in Nat
    BY <1>2, AmountsType
<1>4. CASE Quiet
  <2>1. Accepted' = Accepted
    BY <1>1, <1>4, AcceptedKept DEF Quiet
  <2> QED BY <1>4, <2>1 DEF Quiet
<1>5. CASE Ended
  <2>1. Accepted' = Accepted /\ Preempt
    BY <1>1, <1>5, AcceptedKept DEF Ended
  <2>2. CASE UNCHANGED <<settlement, flushed>>
    BY <2>1, <2>2
  <2>3. CASE flushed' = flushed \o settlement /\ settlement' = << >>
    <3>1. Amounts(flushed \o settlement) = Amounts(flushed) + Amounts(settlement)
      BY <1>2, AmountsJoined
    <3>2. Amounts(settlement') = 0
      BY <2>3, AmountsOfNone
    <3> QED BY <1>3, <2>1, <2>3, <3>1, <3>2
  <2> QED BY <2>1, <2>2, <2>3 DEF Preempt, FlushedList
<1>6. ASSUME NEW call \in DOMAIN calls, Runs(call)
      PROVE  Amounts(flushed') + Amounts(settlement') = Accepted'
  <2> DEFINE n == RunCounts(call)
  <2>1. /\ n \in 0 .. 1 /\ Delivered(call, n) /\ flushed' = flushed
        /\ n = 1 <=> reply'.e = NoError
    BY <1>6 DEF Runs, Run, RunCounts
  <2> HIDE DEF n
  <2>2. Accepted' = Accepted + (IF n = 1 THEN Asks(call) ELSE 0)
    BY <1>1, <2>1, AcceptedDelivered
  <2>3. Asks(call) \in Word /\ Asks(call) \in Nat
    BY AsksType
  <2>4. CASE n = 1 /\ CommandOf(call.words) = WITHDRAW
    <3>1. Succeeded(call)
      BY <1>6, <2>1, <2>4 DEF Runs, Effect
    <3>2. PICK one : one = [amount |-> Asks(call)]
      OBVIOUS
    <3>3. settlement' = Append(settlement, one)
      BY <2>4, <3>1, <3>2 DEF Succeeded, Asks
    <3>4. one \in WithdrawInfo /\ one.amount = Asks(call)
      BY <2>3, <3>2 DEF WithdrawInfo
    <3>5. Amounts(Append(settlement, one)) = Amounts(settlement) + one.amount
      BY <1>2, <3>4, AmountsAppended
    <3> QED BY <1>3, <2>1, <2>2, <2>3, <2>4, <3>3, <3>4, <3>5
  <2>5. CASE n # 1 \/ CommandOf(call.words) # WITHDRAW
    <3>1. settlement' = settlement
      BY <1>6, <2>1, <2>5 DEF Runs, Effect, Succeeded
    <3>2. (IF n = 1 THEN Asks(call) ELSE 0) = 0
      BY <2>5 DEF Asks
    <3>3. Amounts(flushed) + Amounts(settlement) + 0
            = Amounts(flushed) + Amounts(settlement)
      BY <1>3
    <3> QED BY <1>3, <2>1, <2>2, <3>1, <3>2, <3>3
  <2> QED BY <2>4, <2>5
<1> QED BY <1>1, <1>4, <1>5, <1>6

LEMMA SettledInit == ClientInit => WithdrawalsSettled
<1> SUFFICES ASSUME ClientInit PROVE Amounts(flushed) + Amounts(settlement) = Accepted
    BY DEF WithdrawalsSettled, Accepted
<1>1. flushed = << >> /\ settlement = << >> /\ DOMAIN calls = {}
    BY DEF ClientInit, Init
<1>2. PICK table : table = [c \in DOMAIN calls |-> Withdrawals(c)]
    OBVIOUS
<1>3. Accepted = SumOver({}, table)
    BY <1>1, <1>2 DEF Accepted, Total
<1>4. SumOver({}, table) = 0
    BY SumOfNone
<1> QED BY <1>1, <1>3, <1>4, AmountsOfNone

\* Every withdrawal that was accepted is handed over with one batch or waits
\* for the next: none is lost and none is paid twice, whichever of the three
\* conditions ends a batch.
THEOREM WithdrawalsAreSettled == ClientSpec => []WithdrawalsSettled
BY SettledInit, SettledStep, ClientTyped, ClientStep, PTL DEF ClientSpec

-----------------------------------------------------------------------------
(* What any program that posts the commands of a player can rely on. *)

ClientInvariant ==
    /\ ClientOK
    /\ Backed
    /\ BatchBounded
    /\ SuccessesSpent
    /\ UsedOnce
    /\ WithdrawalsSettled

LEMMA InvariantInit == ClientInit => ClientInvariant
BY TypedInit, BackedInit, BoundedInit, SpentInit, UsedInit, SettledInit
   DEF ClientInvariant

LEMMA InvariantMove == ClientInvariant /\ ClientMove => ClientInvariant'
<1> SUFFICES ASSUME ClientInvariant, ClientMove PROVE ClientInvariant'
    OBVIOUS
<1>1. ClientOK /\ ClientOK'
    BY TypedStep DEF ClientInvariant
<1> QED BY <1>1, BackedMove, BoundedStep, SpentStep, UsedStep, SettledStep
        DEF ClientInvariant

ClientPromises ==
    /\ EachNonceOnce /\ OnlyCreationRepeats
    /\ WithdrawalsSettled /\ BatchBounded
    /\ SharesBacked /\ WinnersCovered

LEMMA InvariantPromises == ClientInvariant => ClientPromises
<1> SUFFICES ASSUME ClientInvariant PROVE ClientPromises
    OBVIOUS
<1>1. EachNonceOnce
    BY BoundsAssumption DEF ClientInvariant, UsedOnce, EachNonceOnce
<1>2. OnlyCreationRepeats
    BY DEF ClientInvariant, ClientOK, CallsOK, CallRecord, SuccessesSpent,
           OnlyCreationRepeats
<1>3. SharesBacked /\ WinnersCovered
    BY PayoutsCovered DEF ClientInvariant, ClientOK, Backed, WinnersCovered
<1> QED BY <1>1, <1>2, <1>3 DEF ClientInvariant, ClientPromises

=============================================================================
