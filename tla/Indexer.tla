------------------------------ MODULE Indexer ------------------------------
(* The indexer (ts/src/service.ts, models.ts): eventCallback turns the       *)
(* events of each command into documents of MongoDB, one awaited write after *)
(* another.  A write may fail, which is logged and skipped; the process may  *)
(* stop between two writes, and the server then delivers again the events of *)
(* every command since the last committed batch.                             *)
EXTENDS Integers, Sequences

CONSTANTS
    Pids, MarketIds,
    MaxFailures, MaxCrashes    \* bounds of the model: failed writes and stops

VARIABLES
    feed,        \* the events of each command that succeeded and emitted some
    next,        \* the entry of feed that eventCallback handles, or waits for
    at,          \* its event that is handled; 0 before the entry is saved
    saved,       \* the bet is saved and the position is not yet updated
    committed,   \* entries of committed batches, which do not come again
    events,      \* EventModel: the entries saved
    bets,        \* BetModel: one document per txid
    holdings,    \* PlayerMarketPositionModel: shares per player and market
    records,     \* MarketModel: the last record of each market
    history,     \* LiquidityHistoryModel: totals per market and tick
    failures, crashes

database == <<events, bets, holdings, records, history>>
vars == <<feed, next, at, saved, committed, database, failures, crashes>>

Sides == {"yes", "no"}

Init ==
    /\ feed = << >>
    /\ next = 1
    /\ at = 0
    /\ saved = FALSE
    /\ committed = 0
    /\ events = {}
    /\ bets = {}
    /\ holdings = [pid \in Pids |-> [id \in MarketIds |-> [side \in Sides |-> 0]]]
    /\ records = << >>
    /\ history = << >>
    /\ failures = 0
    /\ crashes = 0

\* The events of a command that succeeded reach eventCallback, in the order of
\* the commands.  One without events is passed over.
Receive(emitted) ==
    feed' = IF emitted = << >> THEN feed ELSE Append(feed, emitted)

-----------------------------------------------------------------------------
(* The content of an event. *)

\* Mutant: the second number of a sale is taken for its shares.
BetOf_payout_as_shares(event) ==
    [index |-> event.txid, pid |-> event.pid, id |-> event.id,
     type |-> event.type, amount |-> event.amount, shares |-> event.shares,
     counter |-> event.time]

\* BetEvent.toObject: a sale carries its shares where a purchase carries its
\* amount, and its payout where a purchase carries its shares.
BetOf(event) ==
    [index |-> event.txid, pid |-> event.pid, id |-> event.id,
     type |-> event.type,
     amount |-> IF event.type >= 10 THEN event.shares ELSE event.amount,
     shares |-> IF event.type >= 10 THEN event.amount ELSE event.shares,
     counter |-> event.time]

\* The $inc of a bet: 11 and 1 are YES.
SideOfBet(bet) == IF bet.type \in {1, 11} THEN "yes" ELSE "no"
Change(bet) == IF bet.type >= 10 THEN -bet.shares ELSE bet.shares

\* Mutant: no unique index on the bets.
Recorded_never(txid) == FALSE

\* The unique index of BetModel.
Recorded(txid) == \E bet \in bets : bet.index = txid

\* Mutant: a market that has a document keeps it.
upsert_missing(documents, key, document) ==
    [k \in DOMAIN documents \cup {key} |->
        IF k \in DOMAIN documents THEN documents[k] ELSE document]

\* findOneAndUpdate with upsert.
upsert(documents, key, document) ==
    [k \in DOMAIN documents \cup {key} |->
        IF k = key THEN document ELSE documents[k]]

-----------------------------------------------------------------------------
(* eventCallback between two awaits. *)

Event == feed[next][at]
Handling(kind) ==
    /\ next \in DOMAIN feed
    /\ at \in DOMAIN feed[next]
    /\ Event.kind = kind
Advance == at' = at + 1

\* MaxFailures bounds the model.
Failing == failures < MaxFailures /\ failures' = failures + 1

\* A document saved before is refused by the unique id, which changes nothing.
SaveEvent ==
    /\ next \in DOMAIN feed
    /\ at = 0
    /\ \/ events' = events \cup {next} /\ UNCHANGED failures
       \/ Failing /\ UNCHANGED events
    /\ Advance
    /\ UNCHANGED <<feed, next, saved, committed, bets, holdings, records,
                   history, crashes>>

\* Mutant: the error of a duplicate ends the callback, and the event comes again.
SkipBet_stuck == at' = 0

\* A bet that cannot be saved is left out together with its position.
SkipBet == Advance

SaveBet ==
    /\ Handling("bet")
    /\ ~saved
    /\ \/ /\ ~Recorded(Event.txid)
          /\ bets' = bets \cup {BetOf(Event)}
          /\ saved' = TRUE
          /\ UNCHANGED <<at, failures>>
       \/ /\ Recorded(Event.txid)
          /\ SkipBet
          /\ UNCHANGED <<bets, saved, failures>>
       \/ /\ Failing
          /\ SkipBet
          /\ UNCHANGED <<bets, saved>>
    /\ UNCHANGED <<feed, next, committed, events, holdings, records, history,
                   crashes>>

UpdatePosition ==
    /\ saved
    /\ \/ LET bet == BetOf(Event)
          IN  /\ holdings' = [holdings EXCEPT
                    ![bet.pid][bet.id][SideOfBet(bet)] = @ + Change(bet)]
              /\ UNCHANGED failures
       \/ Failing /\ UNCHANGED holdings
    /\ saved' = FALSE
    /\ Advance
    /\ UNCHANGED <<feed, next, committed, events, bets, records, history,
                   crashes>>

StoreMarket ==
    /\ Handling("market")
    /\ \/ /\ records' = upsert(records, Event.id, Event.market)
          /\ UNCHANGED failures
       \/ Failing /\ UNCHANGED records
    /\ Advance
    /\ UNCHANGED <<feed, next, saved, committed, events, bets, holdings,
                   history, crashes>>

StoreLiquidity ==
    /\ Handling("liquidity")
    /\ \/ /\ history' = upsert(history, <<Event.id, Event.time>>, Event.total)
          /\ UNCHANGED failures
       \/ Failing /\ UNCHANGED history
    /\ Advance
    /\ UNCHANGED <<feed, next, saved, committed, events, bets, holdings,
                   records, crashes>>

\* The callback returns, and the next entry follows.
Return ==
    /\ next \in DOMAIN feed
    /\ at = Len(feed[next]) + 1
    /\ next' = next + 1
    /\ at' = 0
    /\ UNCHANGED <<feed, saved, committed, database, failures, crashes>>

Deliver ==
    \/ SaveEvent \/ SaveBet \/ UpdatePosition
    \/ StoreMarket \/ StoreLiquidity \/ Return

-----------------------------------------------------------------------------
(* The server. *)

\* batchedCallback: a batch ends with an entry that was delivered.
Commit ==
    /\ at = 0
    /\ committed + 1 < next
    /\ committed' \in committed + 1 .. next - 1
    /\ UNCHANGED <<feed, next, at, saved, database, failures, crashes>>

\* The process stops and starts again.  MaxCrashes bounds the model.
Crash ==
    /\ crashes < MaxCrashes
    /\ crashes' = crashes + 1
    /\ next' = committed + 1
    /\ at' = 0
    /\ saved' = FALSE
    /\ UNCHANGED <<feed, committed, database, failures>>

=============================================================================
