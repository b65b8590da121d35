------------------------------ MODULE SanitySync ------------------------------
(* Programs that share the administrator's key: runs of the synchroniser     *)
(* (ts/src/sanity_sync.ts), which creates the markets the CMS lists and the  *)
(* index lacks, and the deposit script (ts/src/deposit.ts).  A program is a  *)
(* process of its own; between two of its awaits the others go on.  An await *)
(* may reject, also the one for the answer to a command that is under way.   *)
(*                                                                           *)
(* The CMS assigns ids to its documents, the program numbers its markets in  *)
(* the order of their creation; nothing but this script keeps the two alike. *)
EXTENDS Client

CONSTANTS
    Syncs,               \* runs of the synchroniser
    Deposits,            \* runs of the deposit script
    Listings,            \* what the CMS may list: sequences of documents
    Target, Amount       \* whom the deposit script credits, and with what

Programs == Syncs \cup Deposits

\* A document and the arguments of the market it stands for.  The query orders
\* the documents by id, and editors number them from 1.
Documents == [id : Nat, offer : Offers]

ASSUME SyncAssumption ==
    /\ Syncs \cap Deposits = {}
    /\ Listings \subseteq Seq(Documents)
    /\ \A listing \in Listings : \A i \in DOMAIN listing : listing[i].id = i
    /\ Target \in Pids /\ Amount \in DepositAmounts

VARIABLES
    cms,         \* the listing, which editors leave alone meanwhile
    shown,       \* ids of the markets that GET /data/markets answers with
    program,     \* where each program is, and what it holds
    mixed        \* some synchroniser read while another was at work, while a
                 \* creation was under way, or with an index that was behind

syncVars == <<cms, shown, program, mixed>>

SyncInit ==
    /\ ClientInit
    /\ cms \in Listings
    /\ shown = {}
    /\ program = [p \in Programs |->
                    [at |-> "idle", known |-> {}, todo |-> 1, call |-> << >>]]
    /\ mixed = FALSE

-----------------------------------------------------------------------------
(* Steps of a program. *)

Goto(p, place) == program' = [program EXCEPT ![p].at = place]

\* An await rejects and the error ends the script: the synchroniser exits with
\* a failure, the deposit script logs it.
Rejected(p) == Goto(p, IF p \in Syncs THEN "failed" ELSE "done")

AdminCall(words) == [pid |-> Admin, words |-> words]
Posts(words) ==
    /\ Post(AdminCall(words))
    /\ UNCHANGED <<handled, flushed>>

\* Mutant: the next document is taken up before this market is created.
Awaiting_nothing(p, call) == [program[p] EXCEPT !.todo = @ + 1]

\* The program waits for the answer to what it posted.
Awaiting(p, call) == [program[p] EXCEPT !.at = "awaiting", !.call = call]

\* A script whose first command does not reach the server did nothing, and may
\* be started again: for the rest of the system it is still idle.
Start(p) ==
    /\ program[p].at = "idle"
    /\ Posts(installPlayer)
    /\ program' = [program EXCEPT ![p] =
                    [@ EXCEPT !.at = "installing", !.call = AdminCall(installPlayer)]]
    /\ UNCHANGED <<vars, cms, shown, mixed>>

\* No answer comes, although the command may have reached the server: what was
\* posted stays due, and its answer will find nobody waiting.
GiveUp(p) ==
    /\ program[p].at \in {"installing", "awaiting"}
    /\ Rejected(p)
    /\ UNCHANGED <<vars, clientVars, cms, shown, mixed>>

\* A creation that was posted and is neither run nor dropped.
UnderWay(call) == calls[call].due > 0 /\ CommandOf(call.words) = CREATE_MARKET

\* Both lists are read at once, and either reading may reject.  The record of a
\* market is in the answer, but all that is used of it, its times, never changes.
Fetch(p) ==
    /\ program[p].at = "fetching"
    /\ \/ /\ program' = [program EXCEPT ![p] =
                [@ EXCEPT !.known = shown, !.at = "processing"]]
          /\ mixed' = \/ mixed
                      \/ shown # DOMAIN markets
                      \/ \E q \in Syncs : program[q].at \in {"processing", "awaiting"}
                      \/ \E call \in DOMAIN calls : UnderWay(call)
       \/ /\ Rejected(p)
          /\ UNCHANGED mixed
    /\ UNCHANGED <<vars, clientVars, cms, shown>>

\* compareMarketData: the document's offsets against the market's times.
compareMarketData(doc, market) ==
    /\ doc.offer.start_time = market.start_time
    /\ doc.offer.end_time = market.end_time
    /\ doc.offer.resolution_time = market.resolution_time

\* One round of the loop, up to the posting of a creation, before which the
\* nonce is read: nothing is posted when that, or the posting, rejects.
ProcessDocument(p, doc) ==
    \/ /\ doc.id \in program[p].known
       /\ compareMarketData(doc, markets[doc.id])
       /\ program' = [program EXCEPT ![p].todo = @ + 1]
       /\ UNCHANGED clientVars
    \/ /\ doc.id \in program[p].known
       /\ ~compareMarketData(doc, markets[doc.id])
       /\ Goto(p, "failed")
       /\ UNCHANGED clientVars
    \/ /\ doc.id \notin program[p].known
       /\ LET words == createMarket(players[Admin].nonce, doc.offer)
          IN  /\ Posts(words)
              /\ program' = [program EXCEPT ![p] = Awaiting(p, AdminCall(words))]
    \/ /\ doc.id \notin program[p].known
       /\ Rejected(p)
       /\ UNCHANGED clientVars

ProcessMarkets(p) ==
    /\ program[p].at = "processing"
    /\ \/ /\ program[p].todo \in DOMAIN cms
          /\ ProcessDocument(p, cms[program[p].todo])
       \/ /\ program[p].todo \notin DOMAIN cms
          /\ Goto(p, "done")
          /\ UNCHANGED clientVars
    /\ UNCHANGED <<vars, cms, shown, mixed>>

\* adminDeposit, after its installation.
PostDeposit(p) ==
    /\ program[p].at = "depositing"
    /\ \/ LET words == depositFunds(players[Admin].nonce, Amount, Target)
          IN  /\ Posts(words)
              /\ program' = [program EXCEPT ![p] =
                    [@ EXCEPT !.at = "awaiting", !.call = AdminCall(words)]]
       \/ /\ Rejected(p)
          /\ UNCHANGED clientVars
    /\ UNCHANGED <<vars, cms, shown, mixed>>

-----------------------------------------------------------------------------
(* Answers.  A trap is answered like an error. *)

Trapped == -1

\* Mutants: a failed creation is logged and the next document follows; its
\* error reaches nobody and the wait goes on.
AfterCreation_logged(p, e) ==
    [program[p] EXCEPT !.at = "processing", !.todo = @ + 1]
AfterCreation_unheard(p, e) ==
    IF e = NoError
    THEN [program[p] EXCEPT !.at = "processing", !.todo = @ + 1]
    ELSE program[p]

\* createMarketFromSanity throws the error on, which ends the script.
AfterCreation(p, e) ==
    IF e = NoError
    THEN [program[p] EXCEPT !.at = "processing", !.todo = @ + 1]
    ELSE [program[p] EXCEPT !.at = "failed"]

\* installPlayer takes "already exists" for success.
AfterInstallation(p, e) ==
    IF e \notin {NoError, ERROR_PLAYER_ALREADY_EXISTS}
    THEN [program[p] EXCEPT !.at = "failed"]
    ELSE [program[p] EXCEPT !.at = IF p \in Syncs THEN "fetching" ELSE "depositing"]

\* The deposit script logs an error and ends.
After(p, e) ==
    IF program[p].at = "installing" THEN AfterInstallation(p, e)
    ELSE IF p \in Syncs THEN AfterCreation(p, e)
    ELSE [program[p] EXCEPT !.at = "done"]

\* The answer goes to one of those who posted the command, or to nobody if some
\* of them no longer wait.
Waiting(call) ==
    {p \in Programs : /\ program[p].at \in {"installing", "awaiting"}
                      /\ program[p].call = call}
Answer(call, e) ==
    \/ \E p \in Waiting(call) : program' = [program EXCEPT ![p] = After(p, e)]
    \/ /\ calls[call].due > Cardinality(Waiting(call))
       /\ UNCHANGED program

Serve ==
    /\ \/ \E call \in DOMAIN calls :
            \/ Run(call) /\ Answer(call, reply'.e)
            \/ Trap(call) /\ Answer(call, Trapped)
       \/ Preempt /\ UNCHANGED program
    /\ UNCHANGED <<cms, shown, mixed>>

-----------------------------------------------------------------------------
(* The rest of the system, and the specification. *)

\* The indexer writes down a market it lacks.  Only Fetch reads the index, so
\* that it is enough to let it catch up when one is about to.
Show ==
    /\ \E p \in Syncs : program[p].at = "fetching"
    /\ \E id \in DOMAIN markets \ shown : shown' = shown \cup {id}
    /\ UNCHANGED <<vars, clientVars, cms, program, mixed>>

\* The player whom the deposit script credits installs itself, once.
Join ==
    /\ [pid |-> Target, words |-> installPlayer] \notin DOMAIN calls
    /\ Post([pid |-> Target, words |-> installPlayer])
    /\ UNCHANGED <<vars, handled, flushed, syncVars>>

Step(p) ==
    \/ Start(p)
    \/ GiveUp(p)
    \/ p \in Syncs /\ (Fetch(p) \/ ProcessMarkets(p))
    \/ p \in Deposits /\ PostDeposit(p)

SyncNext ==
    \/ \E p \in Programs : Step(p)
    \/ Serve
    \/ Show
    \/ Join
    \/ ServerTick /\ UNCHANGED syncVars

allVars == <<vars, clientVars, syncVars>>

\* A program that was started goes on, and the server works through what was
\* posted.  No one has to start a program, and the index may stay behind.  No
\* fairness is asked of GiveUp: where the server answers, none is needed.
SyncSpec ==
    /\ SyncInit
    /\ [][SyncNext]_allVars
    /\ \A p \in Syncs : WF_allVars(Fetch(p) \/ ProcessMarkets(p))
    /\ WF_allVars(Serve)

-----------------------------------------------------------------------------
(* What the synchroniser promises. *)

\* A market created from a document: its liquidity and depth, and its times
\* from the counter of the creation on.
MadeFrom(market, doc) ==
    \E now \in 0 .. counter :
        /\ market.start_time = doc.offer.start_time + now
        /\ market.end_time = doc.offer.end_time + now
        /\ market.resolution_time = doc.offer.resolution_time + now
        /\ market.total = doc.offer.liquidity
        /\ market.b = doc.offer.b

\* A synchronisation that reports success leaves no document without a market,
\* whoever used the administrator's nonce or created markets meanwhile
\* (sanity_sync.ts: every error ends the script, the loop has seen each document).
\* Documents with the same times are not told apart by compareMarketData: where
\* there are some, this holds of synchronisers that are not mixed.
DoneMeansCreated ==
    \A p \in Syncs : program[p].at = "done" =>
        \A i \in DOMAIN cms : \E id \in DOMAIN markets :
            MadeFrom(markets[id], cms[i])

\* config_examples.md: "Market titles and metadata should be stored in Sanity
\* CMS with matching market IDs" - the market with the id of a document is the
\* one made from that document.  Synchronisers at work at the same time, one that
\* starts before an unanswered creation of an earlier one is run, or an index
\* that is behind, break this.
MatchingIds ==
    \A id \in DOMAIN markets :
        id \in DOMAIN cms /\ MadeFrom(markets[id], cms[id])

\* Synchronisers that run one after another, each with an index that is up to
\* date and when no creation is under way, keep ids and documents together,
\* although any of them may fail half way or give up a creation that is run
\* later, and ticks, deposits and installations go on (sanity_sync.ts takes the
\* order of its creations for the ids).
AloneMatches == ~mixed => MatchingIds

\* A synchroniser that posted its installation ends, with success or not: each
\* command is answered or given up, its loop is finite, and an error anywhere
\* ends the script (sanity_sync.ts:216).
SyncEnds ==
    \A p \in Syncs :
        program[p].at = "installing" ~> program[p].at \in {"done", "failed"}

=============================================================================
