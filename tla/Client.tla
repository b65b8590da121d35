-------------------------------- MODULE Client --------------------------------
(* Commands on their way: the client (ts/src/api.ts, deposit.ts) reads its   *)
(* nonce, packs a command into words and posts it; the program decodes the   *)
(* words and dispatches (state.rs, Transaction::decode and process); the     *)
(* server asks after each command whether the batch ends (state.rs preempt)  *)
(* and then collects the withdrawals of the batch.                           *)
(*                                                                           *)
(* The server (zkwasm-ts-server) is not in the repository: that it runs the  *)
(* posted commands one by one, in any order, and drops one that traps, is    *)
(* taken from how the client and the program use it.                         *)
EXTENDS PredictionMarket, Sums

CONSTANTS
    BatchTicks,          \* 600: a batch ends at each multiple of this counter
    BatchSize,           \* 40: and after this many commands or withdrawals
    Markets,             \* ids the clients name in their commands
    MaxPosted, MaxDue    \* bounds of the model: commands posted, in flight

ASSUME BatchAssumption ==
    /\ {BatchTicks, BatchSize} \subseteq Nat \ {0}
    /\ {MaxPosted, MaxDue} \subseteq Nat
    /\ Markets \subseteq Nat

VARIABLES
    calls,       \* commands posted: deliveries due and successful runs of each
    handled,     \* a command was handled and preempt is not yet called
    flushed      \* withdrawals handed over with the batches so far

clientVars == <<calls, handled, flushed>>

-----------------------------------------------------------------------------
(* The words of a command. *)

INSTALL_PLAYER == 1
WITHDRAW       == 2
DEPOSIT        == 3
BET            == 4
SELL           == 5
RESOLVE        == 6
CLAIM          == 7
WITHDRAW_FEES  == 8
CREATE_MARKET  == 9

\* The first word holds the nonce, the number of words and the command.
createCommand(nonce, command, params) ==
    <<nonce * 65536 + (Len(params) + 1) * 256 + command>> \o params

\* decode: what the program reads from the words.
CommandOf(words) == words[1] % 256
NonceOf(words) == words[1] \div 65536

\* The number of words decode enforces.
WordCount == [command \in WITHDRAW .. CREATE_MARKET |->
                CASE command \in {WITHDRAW, DEPOSIT} -> 5
                  [] command \in {BET, SELL}         -> 4
                  [] command = RESOLVE               -> 3
                  [] command = CREATE_MARKET         -> 7
                  [] OTHER                           -> 2]

\* The methods of Player that post a command.
installPlayer == createCommand(0, INSTALL_PLAYER, << >>)
withdrawFunds(nonce, amount) ==
    createCommand(nonce, WITHDRAW, <<0, amount, 0, 0>>)
depositFunds(nonce, amount, target) ==
    createCommand(nonce, DEPOSIT, <<target[1], target[2], 0, amount>>)
placeBet(nonce, id, betType, amount) ==
    createCommand(nonce, BET, <<id, betType, amount>>)
sellShares(nonce, id, sellType, shares) ==
    createCommand(nonce, SELL, <<id, sellType, shares>>)
resolveMarket(nonce, id, outcome) ==
    createCommand(nonce, RESOLVE, <<id, outcome>>)
claimWinnings(nonce, id) == createCommand(nonce, CLAIM, <<id>>)
withdrawFees(nonce, id) == createCommand(nonce, WITHDRAW_FEES, <<id>>)
createMarket(nonce, offer) ==
    createCommand(nonce, CREATE_MARKET,
        <<offer.start_time, offer.end_time, offer.resolution_time,
          offer.liquidity["yes"], offer.liquidity["no"], offer.b>>)

-----------------------------------------------------------------------------
(* Posting. *)

Due == Total([call \in DOMAIN calls |-> calls[call].due])
Posted == Total([call \in DOMAIN calls |-> calls[call].due + calls[call].ran])

\* A command reaches the server, once more if it was posted before: by two
\* programs with the same key, or by a sender that got no answer.
Post(call) ==
    calls' = IF call \in DOMAIN calls
             THEN [calls EXCEPT ![call].due = @ + 1]
             ELSE [c \in DOMAIN calls \cup {call} |->
                     IF c = call THEN [due |-> 1, ran |-> 0, succeeded |-> 0]
                     ELSE calls[c]]

\* What a player with this nonce may ask for.
Requests(pid, nonce) ==
    {withdrawFunds(nonce, amount) : amount \in WithdrawAmounts}
    \cup {depositFunds(nonce, amount, target) :
            amount \in DepositAmounts, target \in Pids}
    \cup {placeBet(nonce, id, type, amount) :
            id \in Markets, type \in 0 .. 1, amount \in BetAmounts}
    \cup {sellShares(nonce, id, type, shares) :
            id \in Markets, type \in 0 .. 1, shares \in SellAmounts}
    \cup {resolveMarket(nonce, id, outcome) : id \in Markets, outcome \in 0 .. 1}
    \cup {claimWinnings(nonce, id) : id \in Markets}
    \cup {withdrawFees(nonce, id) : id \in Markets}
    \cup {createMarket(nonce, offer) : offer \in Offers}

\* getNonce and sendTransaction: the nonce is read at the server and the command
\* posted with it.  Other commands of the same key may be in flight.
Send(pid) ==
    /\ \/ Post([pid |-> pid, words |-> installPlayer])
       \/ /\ pid \in DOMAIN players
          /\ \E words \in Requests(pid, players[pid].nonce) :
                Post([pid |-> pid, words |-> words])
    /\ UNCHANGED <<handled, flushed>>

\* A command posted before is posted again, word for word.
Resend ==
    /\ \E call \in DOMAIN calls : Post(call)
    /\ UNCHANGED <<handled, flushed>>

-----------------------------------------------------------------------------
(* Execution. *)

\* The command comes from the administrator's key or traps.
AdminOnly == {DEPOSIT, RESOLVE, WITHDRAW_FEES, CREATE_MARKET}

\* A `require` or `enforce` fails.  Whoever posts more than an installation is
\* installed: there is no nonce to read before.
Traps(pid, words) ==
    LET command == CommandOf(words)
    IN  /\ command # INSTALL_PLAYER
        /\ \/ Len(words) # WordCount[command]
           \/ command = DEPOSIT /\ words[4] # 0
           \/ command \in AdminOnly /\ pid # Admin
           \/ ~check_nonce(pid, NonceOf(words))
           \/ command = WITHDRAW /\ ~can_withdraw(pid, words[3] % U32)

\* process: the command that decode finds in the words.
Process(pid, words) ==
    LET command == CommandOf(words)
        nonce   == NonceOf(words)
    IN  \/ command = INSTALL_PLAYER /\ InstallPlayer(pid)
        \/ command = WITHDRAW /\ Withdraw(pid, nonce, words[3] % U32)
        \/ command = DEPOSIT /\ Deposit(nonce, <<words[2], words[3]>>, words[5])
        \/ command = BET /\ Bet(pid, nonce, words[2], words[3], words[4])
        \/ command = SELL /\ Sell(pid, nonce, words[2], words[3], words[4])
        \/ command = RESOLVE /\ Resolve(nonce, words[2], words[3])
        \/ command = CLAIM /\ Claim(pid, nonce, words[2])
        \/ command = WITHDRAW_FEES /\ WithdrawFees(nonce, words[2])
        \/ /\ command = CREATE_MARKET
           /\ CreateMarket(nonce,
                [start_time |-> words[2], end_time |-> words[3],
                 resolution_time |-> words[4],
                 liquidity |-> [side \in Sides |->
                                  IF side = "yes" THEN words[5] ELSE words[6]],
                 b |-> words[7]])

Taken(call, successes) ==
    calls' = [calls EXCEPT ![call].due = @ - 1, ![call].ran = @ + 1,
                           ![call].succeeded = @ + successes]

\* A posted command is run, or traps and is dropped.
Run(call) ==
    /\ calls[call].due > 0
    /\ ~handled
    /\ ~Traps(call.pid, call.words)
    /\ Process(call.pid, call.words)
    /\ Taken(call, IF reply'.e = NoError THEN 1 ELSE 0)
    /\ handled' = TRUE
    /\ UNCHANGED flushed

Trap(call) ==
    /\ calls[call].due > 0
    /\ ~handled
    /\ Traps(call.pid, call.words)
    /\ Taken(call, 0)
    /\ UNCHANGED <<vars, handled, flushed>>

\* The server's own clock.
ServerTick ==
    /\ ~handled
    /\ Tick
    /\ handled' = TRUE
    /\ UNCHANGED <<calls, flushed>>

-----------------------------------------------------------------------------
(* The end of a batch. *)

preempt ==
    \/ counter % BatchTicks = 0
    \/ txsize >= BatchSize
    \/ Len(settlement) > BatchSize

\* Mutants: the counter of the batch runs on; the withdrawals stay in the list.
NextBatch_counting_on == txsize
FlushedList_kept == settlement

\* preempt's own reset, and what flush_settlement leaves.
NextBatch == 0
FlushedList == << >>

Preempt ==
    /\ handled
    /\ handled' = FALSE
    /\ \/ /\ preempt
          /\ txsize' = NextBatch
          /\ flushed' = flushed \o settlement
          /\ settlement' = FlushedList
       \/ ~preempt /\ UNCHANGED <<txsize, settlement, flushed>>
    /\ UNCHANGED <<players, positions, markets, counter, txcounter, reply, calls>>

-----------------------------------------------------------------------------
ClientInit ==
    /\ Init
    /\ calls = << >>
    /\ handled = FALSE
    /\ flushed = << >>

\* MaxPosted and MaxDue bound the model.
Posting ==
    /\ Posted < MaxPosted
    /\ Due < MaxDue
    /\ Resend \/ \E pid \in Pids : Send(pid)
    /\ UNCHANGED vars

Serving ==
    \/ \E call \in DOMAIN calls : Run(call) \/ Trap(call)
    \/ Preempt

ClientNext == Posting \/ Serving \/ ServerTick

ClientSpec == ClientInit /\ [][ClientNext]_<<vars, clientVars>>

-----------------------------------------------------------------------------
(* What the nonces and the batches promise. *)

\* The commands that use up their nonce when they succeed.
Consuming == {WITHDRAW, DEPOSIT, BET, SELL, CLAIM, WITHDRAW_FEES}

Consumes(call, pid, nonce) ==
    /\ call.pid = pid
    /\ NonceOf(call.words) = nonce
    /\ CommandOf(call.words) \in Consuming

\* The successful runs of consuming commands of a player with a nonce.
Uses(pid, nonce) ==
    Total([call \in DOMAIN calls |->
            IF Consumes(call, pid, nonce) THEN calls[call].succeeded ELSE 0])

\* However many commands of a player are in flight with the same nonce, and
\* however often one is delivered, each nonce below the player's own was used
\* by exactly one of them and no other nonce was (api.ts reads the nonce before
\* it posts; player.rs check_and_inc_nonce).
EachNonceOnce ==
    \A pid \in DOMAIN players : \A nonce \in 0 .. MaxTx :
        Uses(pid, nonce) = IF nonce < players[pid].nonce THEN 1 ELSE 0

\* A command delivered again succeeds at most once, even those that keep their
\* nonce, with one exception: the creation of a market (command.rs handle_resolve
\* and handle_create_market store no player).
OnlyCreationRepeats ==
    \A call \in DOMAIN calls :
        calls[call].succeeded > 1 => CommandOf(call.words) = CREATE_MARKET

\* The amounts of a list of withdrawals.
Amounts(list) == Total([i \in DOMAIN list |-> list[i].amount])

\* The amounts of the accepted withdrawals of a client's command.
Withdrawals(call) ==
    IF CommandOf(call.words) = WITHDRAW
    THEN calls[call].succeeded * (call.words[3] % U32)
    ELSE 0

\* Every withdrawal a client got accepted is handed over with exactly one batch
\* or waits for the next one (settlement.rs against command.rs Withdraw).
WithdrawalsSettled ==
    Amounts(flushed) + Amounts(settlement)
        = Total([call \in DOMAIN calls |-> Withdrawals(call)])

\* The open batch holds its withdrawals and never more commands than allowed:
\* counter, list and limit stay in step over every way a batch can end
\* (state.rs preempt).
BatchBounded ==
    /\ Len(settlement) <= txsize
    /\ txsize <= BatchSize
    /\ ~handled => txsize < BatchSize

=============================================================================
