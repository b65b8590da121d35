# Formal verification of the prediction market rollup

The repository is a prediction market that runs as a zkWasm mini-rollup: a Rust
program (`src/`) executes signed commands one after another over a Merkle
store, and TypeScript programs (`ts/src/`) send commands, index the events of
the program in MongoDB and keep the market list in step with a CMS. Paths below
are relative to the repository.

This directory holds TLA+ modules for the program, TLC configurations that
check them on small instances, and theorems that TLAPS checks for all instances.

## Inventory

| Component | State | Operations | Interacts with |
|---|---|---|---|
| Commands, `src/command.rs`, `src/state.rs` | `GLOBAL_STATE` (counter, market ids, txsize, txcounter) and the Merkle store | Tick, InstallPlayer, Withdraw, Deposit, Bet, Sell, Claim, Resolve, WithdrawFees, CreateMarket | everything below; answers an error code and events |
| Market, `src/market.rs` | one `MarketData` per id: totals, pool, vault, outcome | creation, `place_bet`, `sell_shares`, `resolve`, `calculate_payout` | called by the commands on a copy that is stored at success |
| LMSR arithmetic, `src/math_safe.rs` | none | checked sums, exp, ln, cost, quotes, fee | called by the market |
| Positions and balances, `src/player.rs` | a record per player, a position per (market, truncated player id) | plain additions and subtractions, claimed flag | written by the commands |
| Settlement, `src/settlement.rs` | list of withdrawals in memory | append, flush | appended by Withdraw, flushed when a batch ends |
| Events, `src/event.rs` | events of the current command | emit, clear | read by the indexer |
| Batching, `preempt`, `store`, `initialize` in `src/state.rs` | txsize, counter, stored copy | end of a batch | called by the rollup server |
| Indexer, `ts/src/service.ts`, `models.ts` | events, bets, positions, markets in MongoDB | `eventCallback`, `batchedCallback` | fed with the events of each command |
| Client, `ts/src/api.ts`, `lmsr_math.ts`, `price_calculator.ts` | none | read nonce, send command; own LMSR quotes | the rollup server |
| Synchroniser, `ts/src/sanity_sync.ts` | none | read both market lists, create what is missing | CMS, rollup server |
| Scripts and tests | none | `ts/src/deposit.ts`, `test*.ts`, `src/security_tests.rs` | the rollup server |

What is hard, and what makes each part correct:

- *Partial failure.* A handler may store something and fail afterwards
  (`handle_claim`); a failed claim must not take anything from anybody.
- *Stale copies.* `Deposit` holds two copies of what may be one record.
- *Shared slots.* Positions are stored under truncated ids, so two players can
  share one.
- *Money over long sequences.* Pool, vault, balances and withdrawals are kept
  in separate records by separate commands; claims never reduce the pool. The
  sum must still be accounted for, and the pool must cover the winners.
- *Rounding.* The cost function is approximated in pieces, and the search for
  the number of shares assumes that it is monotone. A trader must not gain
  from rounding.
- *Replay.* Each command carries a nonce; not every handler stores it.
- *Finality.* After the resolution nothing but claims and fees may move.
- *Delivery.* The indexer stops between two writes and sees events again.
- *Commands in flight.* A client reads its nonce, then posts; several programs
  hold the administrator's key. Each nonce must be used once, whatever the order.
- *Batches.* A batch ends by a clock, by commands or by withdrawals; each
  withdrawal must leave with exactly one batch.
- *Ids by order.* The synchroniser numbers markets by the order of its creations,
  from a list it read before; a failed or repeated creation shifts every id.

## Modules

| Module | What it is |
|---|---|
| `ErrorCodes` | `src/error.rs`; `Err(code)` is `-code`, an `Ok` is a natural number |
| `LmsrMath` | `src/math_safe.rs`: the arithmetic as operators and functions |
| `Market` | `src/market.rs`: operations from a `MarketData` record to a record |
| `PredictionMarket` | the program: one action per command, `Next` as `Transaction::process` dispatches it |
| `Sums` | sums of functions over finite sets |
| `MarketProperties` | what the program promises: the properties of `PredictionMarket` |
| `MarketLife` | abstract specification: a market is opened, traded, resolved, each position settled once |
| `MarketMaker` | one open market under any trades, the pricing in motion |
| `Indexer` | `ts/src/service.ts`, `models.ts`: `eventCallback` between two awaits, with failed writes, stops and redelivery |
| `IndexedMarket` | the program and its indexer composed, and what the database promises |
| `ClientMath` | `ts/src/lmsr_math.ts`, the estimates of `api.ts` and the search of `price_calculator.ts`, beside the market they are about |
| `Client` | commands on their way: the `Player` methods of `api.ts`, `decode` and the traps of `process`, `preempt` and the flush of the withdrawals |
| `SanitySync` | `ts/src/sanity_sync.ts` and `deposit.ts` as processes with one key, over `Client` |
| `Sums_proofs`, `Market_proofs` | lemmas about sums and about the operators of `LmsrMath` and `Market` |
| `PredictionMarket_proofs` | types, nonces, finality, the refinement of `MarketLife` |
| `Ledger_proofs` | shares and money: what totals and pools cover, what events tell, what tokens there are |
| `Client_proofs` | nonces, batches and withdrawals; the program under clients |
| `Pricing_proofs` | prices, quotes, the pool and the calculator, under any trades |
| `SanitySync_proofs` | programs that share the administrator's key |
| `IndexedMarket_proofs` | the database beside the program, with stops, failed writes and redelivery |
| `MCPredictionMarket`, `MCMarketMaker`, `MCIndexedMarket`, `MCClientMath`, `MCClient`, `MCSanitySync` | values of the constants for TLC |

State: `players[pid]` is the stored `PlayerData` and nonce of an installed
player; `positions[slot][id]` the `PlayerMarketPosition` under
`combine_player_id_safe(pid) = slot`; `markets[id]` the `MarketData` (so
`market_ids` is `1 .. Len(markets)` and `next_market_id` is
`Len(markets) + 1`); `settlement` the list in `settlement.rs`; `reply` what the
last command answered. `counter`, `txsize` and `txcounter` are the fields of
`GlobalState`.

Actions: a command runs to its end before the next, so each is one atomic
action with everything its handler stores. A failing `require` traps the
program, which is a missing transition: every trap comes before the first write
of its command. An `Err` is an accepted transition that answers the code and
leaves what was stored before it; that matters for `Claim` only. Integers wrap
where the code uses plain operators (`% U64`) and fail where it uses checked
ones. The two 64-bit halves of a player id are a pair; a slot keeps the low
half of each (`U32`).

Indexer: `feed` holds the events of each successful command in order. One
action is the code of `eventCallback` between two awaits: `SaveEvent`, then for
each event `SaveBet` and `UpdatePosition`, `StoreMarket` or `StoreLiquidity`, then
`Return`. A write that fails is logged and skipped, as the `catch` blocks do.
`Crash` stops the process; the server, which is not in this repository, then
delivers again every event since the last batch that `batchedCallback` moved to
committed. That, and that it awaits one callback before the next, are
assumptions about `zkwasm-ts-server`. Commands that fail are left out of the
composition because they emit nothing.

Client: `calls` holds each posted command, word for word, with the deliveries that
are due and the runs that happened. `Send` reads the nonce at the server and
posts; other commands of the same key may be in flight, so what is posted may be
out of date when it is run. `Resend` posts the same words again, which a sender
without an answer or a second program does. `Run` decodes the words and is the
command's action of `PredictionMarket`; `Trap` is a failed `require` or `enforce`
and drops the command. After each command `Preempt` asks `preempt`; at the end of
a batch `flushed` takes over the list of withdrawals. That the server runs posted
commands one by one, in any order, and asks `preempt` after each, is an
assumption about `zkwasm-ts-server`.

Synchroniser: `program[p]` is where a script is between two awaits: installing,
fetching, processing document `todo`, awaiting an answer, done or failed.
`Fetch` takes the ids the index shows, `ProcessMarkets` is one round of the loop,
and the answer to a command goes to the program that posted it. Every await may
reject, which ends the script (`Rejected`): the readings of CMS and index, the
reading of a nonce, a posting, and the wait for an answer (`GiveUp`). A
command whose sender gave up stays in the queue; when the server runs it, its
answer reaches nobody, and a synchroniser started again may do so before or after
that. An answer that is lost after the run is the same to the program as a
rejection just before it, since nothing else happens in between. A first
command that does not reach the server leaves a script idle, as if it were yet
to be started. `shown` may be behind the program (`Show` is the indexer writing a
market it lacks, offered only while a synchroniser is about to read, because
nobody else reads it). The CMS does not change during a run of the model and
numbers its documents from 1. The variable `mixed` records that a synchroniser
read while another was at work, while a creation was under way, or while the
index was behind; no action reads it.

Abstractions: the address of a withdrawal, the recipient's encoding, the packing
of events into words and the event id are left out. One side is a parameter
where the code has a YES and a NO function. Market creation is refused above
`MaxMarkets`, ticks above `MaxCounter`, successful commands above `MaxTx`: bounds
of the model, not of the program.

## Runs

| Run | Question |
|---|---|
| `commands` | every command with accepted and refused inputs, wrong nonces, absent players; the two players share one position |
| `lifecycle` | one market from the first bet to the last claim, and the refinement of `MarketLife` |
| `pricing` | any three bets and any sales in two markets; the calculator of target prices after each |
| `indexer` | the program and its indexer, one stop and one failed write |
| `client` | commands in flight and delivered again, several batches |
| `sync` | two synchronisers and a deposit with one key, lost answers and failed readings, index behind, good and bad documents |
| `rollback`, `selfdeposit`, `salefee` | statements of docs and comments the program does not meet |
| `refusal` | the same, about the pricing |
| `clientquote` | the same, about what the client announces of a bet |
| `syncids` | the same, about the ids of markets and documents |

`commands` shows that the state stays typed (`TypeOK`), that a balance falls
only by a command that uses up a nonce (`SpendingConsumesNonce`), and that the
events tell the whole change of markets and positions (`TradesAnnounced`). Its
two players share one position, which breaks neither the totals
(`VirtualLiquidityFixed`) nor the rule that shares move by a nonce of an owner
only (`TradingConsumesNonce`).
`lifecycle` shows that the totals cover the held shares and the virtual
liquidity (`SharesBacked`), that the pool covers all winners together
(`WinnersCovered`), that nothing but an installation, a deposit and a sale
changes the number of tokens (`MoneyConserved`), that a sale issues exactly its
fee (`SaleIssuesItsFee`), that resolutions and claims are final, and that a
claim that fails after it was marked was worth nothing
(`FailedClaimLosesNothing`); `MarketsLive` is the abstract specification under
the mapping of `MarketProperties`. `pricing` shows that the pool is short by at
most a token a bet (`PoolCoversCost`), that buying and selling back at once
never pays (`RoundTripNeverPays`), that prices follow trades
(`PriceFollowsTrades`), and that the client's calculator finds the fewest YES
shares that reach a target price, or `MAX_SHARES` when none do (`TargetReached`).

`indexer` shows that a trade counts once however often its event comes
(`CountedOnce`), that after a stop the markets and transactions of the database
become those of the program again (`RecoversFromStops`), that without faults its
positions equal the program's (`IndexAgrees`) and that every event is handled in
the end (`EventuallyIndexed`). `CountedOnce` is as strong as the code allows: a
stop between the two writes of a bet loses the change of that position for good,
because the redelivered bet is refused by the unique index.

`client` shows that each nonce below a player's own was used by exactly one
successful command (`EachNonceOnce`), that a command delivered again succeeds at
most once unless it creates a market (`OnlyCreationRepeats`: `handle_create_market`
stores no player, so the same words create a second market; a resolution keeps
its nonce too but is refused the second time), that accepted withdrawals are in
exactly one batch or wait (`WithdrawalsSettled`), and that a batch never holds
more commands than its limit (`BatchBounded`). The latter also says that the list
of withdrawals is never longer than the batch, so the third condition of
`preempt` never decides alone. A refused command keeps its nonce and may succeed
when it is delivered again.

`sync` shows that a synchroniser that reports success left no document without a
market (`DoneMeansCreated`), that runs one after another, each with an index up to
date and no creation under way, keep ids and documents together although any of
them may fail half way or give up a creation that is run later
(`AloneMatches`), and that a run that posted its installation ends (`SyncEnds`).
`syncids` shows that without that care the ids go apart.

What the violation runs show is described under `findings` in `PROJECT.json`:
a failed claim keeps its flag; a deposit of the administrator to itself is lost;
the fee of a sale exists in the pool and in the vault; a sale of held shares can
be refused; the client announces other numbers of shares than the program mints;
two synchronisers at work at once create a document's market twice.
`refusal` comes from the approximated cost function, which drops where
the sum of the exponentials passes a power of two: the truncated series gives
5/6 for ln 2 at the end of its range. With the constants of the program,
`b = 10^6` and `q_yes = 500,000`, the cost falls from about 1,526,000 to
1,387,000 tokens at `q_no = 869,000`. `clientquote` comes from the divisors of the
Taylor terms, which `lmsr_math.ts` does not write in fixed point (`fpDiv(x2, 2n)`
for `fp_div(x2, 2 * FP_SCALE)`): with the constants of the program the client
announces 0 shares for 1,000 tokens in a market of 100,000 shares a side with
`b = 10^6`, and the program mints 1,980. Sales and prices differ in the same way.

Observations without a run:

- `handle_resolve` does not look at the resolution time (`&& false`), so a market
  can be resolved at any time; `config_examples.md:128` says "Can only resolve
  after 10 hours".
- The bisection for the number of shares runs over a cost that rounding makes
  non-monotone, so it can stop below the largest affordable number, which
  `README.md:129` promises.
- A winner's payout divides by a total that includes the virtual liquidity, so
  part of the pool is paid to nobody (`market.rs:366`).
- A NO sale is announced with code 10, not with 12 as the comment says
  (`command.rs:316`).
- `compareMarketData` puts the CMS's offsets against absolute times, so a market
  created at a counter above 0 makes every later synchronisation abort
  (`sanity_sync.ts:100`).
- A synchroniser whose wait for a creation rejects ends, but the creation may
  still be queued (`api.ts:48`). Started again before it is run, the script
  creates the document's market a second time, even if nothing else uses the key;
  an index that is up to date does not help. `mixed` is true of such a run.
- The deposit script, run again after a lost answer, credits its players twice
  (`deposit.ts:83`).
- `compareMarketData` looks at the times only: if synchronisers are mixed and
  some fail, one that runs later can take another document's market with the same times
  for its own and report success although a document has no market
  (`sanity_sync.ts:95`).
- The bet that the target-price calculator asks for adds the fee of the net
  amount, while the program takes the fee of the whole (`price_calculator.ts:88`).
- No event carries a claim, so `claimed` in the index stays false
  (`README.md:533` offers it to readers).

### Bounds and why they are enough

The arithmetic is kept, with small numbers: `FP_SCALE` is 10, 100 or 1000 in place
of 10^6 with `LN_2_FP` to match, the fee is 10 % so that a single bet pays one,
liquidity and depth are a few units so that a bet moves the price. The `pricing`
instances start where the sum of the exponentials lies between 4 and 8 and pass
8 and 16, the joints of the logarithm. `lifecycle` makes `U64` 64 so that a product
of shares and pool exceeds a word, which a u64 product would not survive.
Eight commands are enough for an installation of both players, a
creation, bets on both sides, a sale, a resolution and two claims or fee
withdrawals in any order. `commands` has `U32 = 2` and the ids
`<<0, 1>>` and `<<2, 1>>`, which have one slot. A nonce out of step is offered
in every run of the program. `pricing` asks for one price that some number of shares reaches
and for one that none does.

`client` has batches of two commands or two ticks, so that a batch ends in each
way several times within five posted commands (`MaxPosted`), of which two are in
flight (`MaxDue`): the least with which two commands compete for a nonce or one
is delivered again beside another. `U32 = 8` keeps a withdrawal of 7 whole.
`sync` has two synchronisers, one deposit, a listing of two documents and one of
three whose second is refused: enough for a run that gives up its first creation
and one after it that finds that market and creates the next; the creations that
two runs can make fit `MaxMarkets`, and all that three programs post fits `MaxTx`, so no bound stops a
program there. The posting bounds of `Client` concern its own clients, which
`SanitySync` replaces by its programs.

`indexer` has one key, which is the administrator and trades, so that four
commands make a history with a creation, a purchase and a sale; the second
fault may hit during redelivery. It stops when no further command is accepted,
so deadlock is not checked there.

Fairness: the properties of the program are safety properties, and the program
has no obligation to act without a command. The indexer is given weak fairness
of `Indexing` in `IndexedSpec`: its process runs an event loop that goes on with
a callback whose write has ended. In `SyncSpec` a synchroniser that may go on
does (its event loop resumes a settled promise), and the server works through
its queue; nothing obliges a program to start or to give up, the index to catch up,
the clock to tick or a player to install. A wait ends because the server answers
what is posted, so no timeout is needed for `SyncEnds`. Stops are bounded by `MaxCrashes`; with
unboundedly many of them nothing is handled in the end.

## Proofs

Assumptions: `LimitsAssumption`, `FeeAssumption`, `ScaleAssumption` (the limits of
`config.rs` and `math_safe.rs` fit their words, and the fixed-point constants
theirs), `PidsAssumption`, `InputsAssumption`, `BoundsAssumption`,
`BatchAssumption`, `OpeningsAssumption`, `TargetsAssumption`, `SyncAssumption`,
`FaultsAssumption` (what may be sent, listed, asked for and fail is of its type). No
bound on the number of players, markets, commands, programs, stops or failed writes
and no particular word size is assumed; TLC evaluates the assumptions in each run.
A few theorems have a further hypothesis, named in them: `SupplyFits`, `DepthsFit`,
of the synchroniser `TimesFit` and `TimesTell`, and of the indexer `SlotsApart`.

Step lemmas of the program are about `[Command]_vars`: any command with any nonce,
market id and withdrawn amount, of which `Next` is a part (`NextIsCommand`). So
they carry over to `Client`, whose clients send other words than the inputs of
`Next`, and from there to `SanitySync`.

The program:

- `TypeCorrect`: `Spec => []TypeOK`. `TypeOK` is inductive. The program adds
  balances without a check and the sum is again a word; a market's copy is
  stored only if all its checked sums fit (`Fits`); one lemma per operator of
  `Market` and one per command.
- `SpendingNonce`, `TradingNonce`: action properties from `TypeOK`. `StepEffect`
  reduces the commands to the few ways in which one touches balances and
  positions (`Signed`, `TradedBy`, `Marked`), and the properties follow for each.
- `ResolutionIsFinal`: a bet or a sale needs `is_active`, which a resolution
  ends; `Resolve` needs an unresolved market.
- `ClaimsAreFinal`: `ClaimedIsFinal` does not follow from `TypeOK`, because a
  trade could change the shares of a claimed position. The strengthening is
  `ClaimedResolved`: only resolved markets have claimed positions. It is
  inductive, and with `ResolutionFinal` it leaves a claimed position nothing
  that could change it.
- `ImplementsMarketLife`: `Spec => MarketsLive`, the refinement. The initial state
  maps to the initial state, and each way in which a step touches the state
  (`StepEffect` again) maps to one action of `MarketLife` or to a stutter: trades
  to `Trade`, a creation to `Open`, a resolution to `Decide`, a marked position to
  `Settle`, everything else to a stutter. `TypeOK` is the invariant it needs: a
  position's shares are words, ids are given without a gap.

Its shares and money (`Ledger_proofs`):

- `MarketsBacked`, from the inductive invariant `Backed`: `SharesBacked` itself;
  `Untouched`, positions in markets that do not exist are empty, so that a creation
  starts with its virtual liquidity; and `Priced`, every depth is above zero, so
  that no quote divides by zero. With it an addition to a position, which the
  program does not check, never wraps. `VirtualIsFixed`: the totals less the held
  shares stay what they were, by the exchange that every trade is.
- `WinnersAreCovered`: a payout is a truncated share of the pool by the winning
  total, and the shares of all positions are at most that total (`PayoutsCovered`).
  `FailedClaimsLoseNothing`: a payout is never negative, so a claim that finds
  nothing to pay was of a position worth nothing.
- `TradesAreAnnounced`: the events of the step carry the record a market has after
  it and the shares a position gained or lost.
- `MoneyIsConserved`, `SalesIssueTheirFee` under `[]SupplyFits`: all tokens
  together fit in a word. Balances are plain u64 sums, so without it a deposit may
  wrap a balance and tokens vanish; every state of the `lifecycle` and `commands`
  instances satisfies it.

Clients (`Client_proofs`). The words of a command are read back as they were meant
(`WordsRead`, `RequestRead`: a bet's amount, a sale's shares, the two halves of a
recipient), so a run is a command of the program (`RunIsCommand`). `ClientMove` is
the step of clients and server whatever it is that posts, and `ClientEffect` reduces
it to a run, the end of a batch or something quiet.

- `NoncesUsedOnce`: `UsedOnce` is `EachNonceOnce` for every natural nonce. A run
  that succeeds adds one to the uses of its nonce, which was the player's, and the
  player's becomes the next.
- `CreationAloneRepeats`: not inductive by itself. `SuccessesSpent` adds why: a
  command that succeeded is spent - its player is installed, its market resolved or
  its nonce used up - and stays so.
- `BatchesAreBounded`, `WithdrawalsAreSettled`: the latter by the sum of the
  accepted amounts, to which a successful withdrawal adds what it appends.
- `ClientsAreCovered`: `SharesBacked` and `WinnersCovered` where commands are in
  flight. `ClientInvariant` is the conjunction of all these invariants; it is
  preserved by every `ClientMove`.

Pricing (`Pricing_proofs`). The cost function is not monotone: the approximated
logarithm drops at powers of two, and no proof needs that it does not. What is
monotone is the exponential (`ExpMonotone`, over its reduction by powers of two and
its truncated series), and so are prices.

- `MakerTypeCorrect`, `PricesFollowTrades`: from `MakerOK`, types and that the
  shares held are no more than the totals.
- `RoundTripsNeverPay`: a purchase is affordable by its own quote, a sale pays at
  most the difference of the same two costs, and the margins of both quotes are on
  the program's side.
- `PoolCovers`: `PoolOK` adds to `PoolCoversCost` that the depth stays that of the
  opening. `DepthsFit` is the hypothesis: `quote_tokens` truncates to a u64, and a
  cost above it would be charged as its remainder. With the constants of the
  program depths up to 2^64 / 76 satisfy it.
- `TargetsReached`: the calculator's search is a bisection over a monotone
  predicate (`UpwardFinds`), which the price is by `ExpMonotone`.

Synchronisers (`SanitySync_proofs`). `SyncMove`: every step is a `ClientMove`, so
`ClientInvariant` holds and with it what nonces, batches and pools promise
(`ProgramsKeepPromises`). `SyncOK` says of each program what it holds: a
synchroniser has a market for every document before the one it is at, an answer
awaited is to what was posted, every market is some document's.

- `SuccessMeansCreated`: `DoneMeansCreated` under `TimesFit` (no time wraps while
  the clock runs) and `TimesTell` (documents whose times are equal up to the counter
  have the same liquidity and depth). The latter is needed: `compareMarketData` looks
  at the times alone. The `sync` instance satisfies both.
- `AloneKeepsIds`: `AloneMatches`. The strengthening `AloneOK`, as long as nothing is
  mixed: one synchroniser has its turn, it is at the document whose market comes
  next or knows all markets, and at most one creation is due, that of the market
  that comes next (`NoneStray`, `NextOnly`) - so that the market that is opened
  next is that document's. Whoever has its turn waits for that creation; if its
  script gave up, nobody has the turn until the creation is run or dropped,
  for one that reads before is mixed. `AloneCreates`: then success means created
  without `TimesTell`.

Indexer (`IndexedMarket_proofs`). `ExecuteCases`: a command that succeeds ticks,
trades, publishes a market or is silent; the entry it adds to the feed (`MarketShown`,
`BetShown`) says exactly what changed. `IndexTypeOK` holds the indexer to its place:
a saved bet whose position is not yet updated is the one it is at. TLC checked each
strengthening below on the `indexer` instance first.

- `TradesCountOnce`: `CountedOnce` is not inductive, because it does not say which
  bets the positions miss. `MissesFew` does: some set of recorded bets, with the bet
  under way among them, no larger than the faults so far. Saving a bet adds it to the
  set, updating its position takes it out, a stop or a failed update leaves it in
  and is itself the fault that pays for it; a bet delivered again is refused by the
  unique index and moves nothing. `SharesGain` is the sum with a bet more.
- `StopsLoseNothing`: `RecoversFromStops` speaks of the end of deliveries only. On
  the way, `Published` says that the last event in the feed about a market is that
  market but for collected fees, and `Stored` that the last event, once handled in
  this round, is what is stored, and that handled bets are recorded. A stop takes
  `next` back, so fewer events count as handled; until the last one comes again
  records may be older. Events of a new entry are not handled (`NewIsUnhandled`).
- `IndexMatchesProgram`: `IndexAgrees`, under `SlotsApart` (different players have
  different keys). Without it two players share a position that the database keeps
  apart; the `commands` instance has such players. The strengthening
  is that the announced bets add up to what positions hold, are told apart by the
  number of their command, and include every stored bet (`AnnouncedOK`). Without
  faults nothing is missing (`NothingMissing`), so what is stored is what was
  announced.

Induction over data. The provers cannot instantiate the library's induction
theorems. What is said of recursive functions, searches and sums for all inputs is
proved from a least counterexample instead: a natural number (`LeastNatural`) or a
smallest finite set (`MinimalSet`) for which it fails does not exist. Sums, the
exponential's reduction, the logarithm's and both searches are done this way.

Only model-checked: liveness (`EventuallyIndexed`, `SyncEnds`), which is out of the
prover's reach. Every safety property of a passing run is stated by a theorem.

## Plan

Done: all modules of the table above, and the theorems of the previous section.

To follow: a lower bound on what the database holds of bets when writes fail
(`RecoversFromStops` is silent then), and the liquidity history, which is modelled
but promised nothing about.

## Not modelled

- The JSON getters and snapshots, the configuration's JSON, and the packing of
  records and events into words: they change nothing.
- The proof system, the Merkle tree and the RPC server behind `zkwasm_rest_abi`
  and `zkwasm-ts-server`. Nonce check, record store, queue and answers are
  modelled from their use. When the server calls `store` and `initialize`, and
  what it runs again after a stop, cannot be read from this repository, so a
  restart of the program is not modelled (a stop of the indexer is).
- `MarketData::withdraw_fees` and other functions that no command calls.
- The read-only routes of the indexer, the read methods of the client and the
  tables of the calculator: they answer from what is stored.
- `test.ts`, `test_query.ts`, `test_user.ts`, which send single commands and
  print, `src/security_tests.rs`, and build files.
