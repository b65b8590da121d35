------------------------------ MODULE MarketLife ------------------------------
(* What the program promises about the life of a market, without prices,     *)
(* money, time or players: it is opened, traded, resolved, and each position *)
(* in it is settled at most once.                                            *)
EXTENDS Integers

CONSTANTS
    Ids,                 \* market ids, given in their order
    Slots,               \* keys of positions
    Holdings, Nothing    \* what a position may hold, and holds at first

VARIABLES
    stage,               \* of each market: "none", "open" or "resolved"
    verdict,             \* its outcome
    shares,              \* the holding of each slot in each market
    settled              \* whether that was settled

lifeVars == <<stage, verdict, shares, settled>>

Init ==
    /\ stage = [id \in Ids |-> "none"]
    /\ verdict = [id \in Ids |-> "none"]
    /\ shares = [slot \in Slots |-> [id \in Ids |-> Nothing]]
    /\ settled = [slot \in Slots |-> [id \in Ids |-> FALSE]]

Open(id) ==
    /\ stage[id] = "none"
    /\ \A earlier \in Ids : earlier < id => stage[earlier] # "none"
    /\ stage' = [stage EXCEPT ![id] = "open"]
    /\ UNCHANGED <<verdict, shares, settled>>

\* One position of an open market changes.
Trade(slot, id) ==
    /\ stage[id] = "open"
    /\ shares'[slot][id] \in Holdings
    /\ shares' = [shares EXCEPT ![slot][id] = shares'[slot][id]]
    /\ UNCHANGED <<stage, verdict, settled>>

Decide(id) ==
    /\ stage[id] = "open"
    /\ stage' = [stage EXCEPT ![id] = "resolved"]
    /\ verdict'[id] \in {"yes", "no"}
    /\ verdict' = [verdict EXCEPT ![id] = verdict'[id]]
    /\ UNCHANGED <<shares, settled>>

Settle(slot, id) ==
    /\ stage[id] = "resolved"
    /\ ~settled[slot][id]
    /\ settled' = [settled EXCEPT ![slot][id] = TRUE]
    /\ UNCHANGED <<stage, verdict, shares>>

Next ==
    \E id \in Ids :
        \/ Open(id)
        \/ Decide(id)
        \/ \E slot \in Slots : Trade(slot, id) \/ Settle(slot, id)

Spec == Init /\ [][Next]_lifeVars

=============================================================================
