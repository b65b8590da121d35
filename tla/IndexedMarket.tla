--------------------------- MODULE IndexedMarket ---------------------------
(* The rollup program and the indexer together: what process() answers is    *)
(* what eventCallback receives, in the same order and at any later time.     *)
EXTENDS PredictionMarket, Sums

CONSTANTS MaxFailures, MaxCrashes

ASSUME FaultsAssumption == MaxFailures \in Nat /\ MaxCrashes \in Nat

VARIABLES feed, next, at, saved, committed, events, bets, holdings, records,
          history, failures, crashes

Index == INSTANCE Indexer

IndexedInit == Init /\ Index!Init

\* A command runs and its events are queued.  A command that fails emits
\* nothing and eventCallback returns at once: such steps, which change nothing
\* that the index shows, are left to the runs of PredictionMarket.
Execute ==
    /\ Next
    /\ reply'.e = NoError
    /\ Index!Receive(reply'.events)
    /\ UNCHANGED <<next, at, saved, committed, events, bets, holdings, records,
                   history, failures, crashes>>

Indexing ==
    /\ Index!Deliver
    /\ UNCHANGED vars

IndexedNext ==
    \/ Execute
    \/ Indexing
    \/ Index!Commit /\ UNCHANGED vars
    \/ Index!Crash /\ UNCHANGED vars

\* The indexer handles the events it has: WF is the event loop of its process.
IndexedSpec ==
    /\ IndexedInit
    /\ [][IndexedNext]_<<vars, Index!vars>>
    /\ WF_<<vars, Index!vars>>(Indexing)

-----------------------------------------------------------------------------
Delivered == next > Len(feed)

\* The bets of a player on one side of a market.
BetsOf(documents, pid, id, side) ==
    {bet \in documents :
        bet.pid = pid /\ bet.id = id /\ Index!SideOfBet(bet) = side}

\* The shares that they add up to.
SharesOf(documents, pid, id, side) ==
    Total([bet \in BetsOf(documents, pid, id, side) |-> Index!Change(bet)])

\* However often an event is delivered, a trade counts once: the positions are
\* what the recorded bets add up to, except for at most one bet per stop or
\* failed write (service.ts: the bet and the position are two writes, and the
\* unique index on the first guards the second).
CountedOnce ==
    LET faults == failures + crashes + (IF saved THEN 1 ELSE 0)
    IN  \E missing \in SUBSET bets :
            /\ Cardinality(missing) <= faults
            /\ \A pid \in Pids, id \in MarketIds, side \in Index!Sides :
                    holdings[pid][id][side]
                        = SharesOf(bets \ missing, pid, id, side)

\* The record of a market in the database, its fees as the database has them:
\* handle_withdraw_fees announces nothing.
IndexedRecord(id) ==
    [markets[id] EXCEPT !.total_fees_collected = records[id].total_fees_collected]

\* Stops lose no document for good: once everything was delivered, and unless
\* a write failed, the markets and the transactions in the database are those
\* of the program, although records fall back while events come again.
RecoversFromStops ==
    Delivered /\ failures = 0 =>
        /\ DOMAIN records = DOMAIN markets
        /\ \A id \in DOMAIN markets : records[id] = IndexedRecord(id)
        /\ \A i \in DOMAIN feed : \A j \in DOMAIN feed[i] :
                feed[i][j].kind = "bet" => Index!Recorded(feed[i][j].txid)

\* Without stops and failed writes the database holds every player's shares
\* as the program does (command.rs emits, models.ts decodes, service.ts adds).
IndexAgrees ==
    Delivered /\ failures = 0 /\ crashes = 0 =>
        \A pid \in Pids, id \in MarketIds :
            holdings[pid][id] = positions[SlotOf(pid)][id].shares

\* Every event is handled in the end, however the process stopped before.
EventuallyIndexed ==
    \A n \in 1 .. MaxTx + MaxCounter : Len(feed) = n ~> next > n

=============================================================================
