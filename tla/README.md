# pm-bot in TLA+

pm-bot trades five-minute BTC up/down markets of Polymarket. It is a set of
tokio tasks around a handful of channels, a SQLite table and two outside
parties, the exchange (CLOB) and the relayer that redeems winning shares. This
directory models the tasks, from the price feed to the redemption, and the rows
that remember what they did, checks the models with TLC, and proves with TLAPS that
every safety property the passing runs check holds for all values of the constants,
under assumptions that are named where they are made.

Paths below are relative to `src/`; `core/` abbreviates `libs/pm-core/src/`.

## The system

| component | state it keeps | operations | talks to |
|---|---|---|---|
| market rotation (`core/tasks/market_rotation.rs`, `core/clock.rs`) | the round it runs, a background prefetch | resolve a market, publish Open / TradingCutoff / Resolving / Resolved, poll the catalog, publish the prefetched market | market watch (one value, coalescing), lifecycle mpsc(16) |
| market data (`core/tasks/market_data.rs`, `adapters/src/polymarket_market_feed.rs`, `recording_feeds.rs`) | the subscription, its feed task, the book cache | rebuild the feed on a new market, update or clear the book cache; connect, subscribe, read, reconnect; record a row | market watch, feed mpsc(256), book cache |
| price feed (`core/tasks/price_feed.rs`, `adapters/src/chainlink_price_feed.rs`, `binance_price_feed.rs`) | none | forward ticks and errors, broadcast a tick, sleep on an error | feed mpsc(64), tick broadcast(256) |
| strategies and indicators (`libs/pm-strategy/src/`) | candles, averages, RSI, tick window, volatility | remember a tick, decide to hold or enter, size an order | called by the decision center |
| decision center (`core/tasks/decision_center.rs`) | none | per tick: read slot and market, ask the strategy, read book and bankroll, send an intent | tick broadcast, slot watch, intent mpsc(8), dropped when full |
| executor (`core/tasks/executor.rs`) | the round slot | reset the slot on a market update; gate an intent, insert the row, claim the slot, place the order, record its id or free the slot | market watch, intents, slot watch, store, exchange, order-update broadcast(64) |
| order status poller (`core/tasks/order_status_poller.rs`) | `awaiting`, `tracked` | queue the slot's position, look its order id up, poll the exchange, broadcast verdicts | slot watch, store, exchange, order updates |
| persistence (`core/tasks/persistence.rs`) | none | write verdicts and settlements to the store | order updates, settled broadcast(16) |
| bankroll (`core/tasks/bankroll.rs`, `core/state.rs`) | bankroll, money in play, about to be redeemed | book fills, settlements, redemptions | order updates, settled, redeemed mpsc(16) |
| settlement (`core/tasks/settlement.rs`) | a tick cache, the price at the cutoff | capture the price, judge a market's rows, redeem winners | lifecycle, store, relayer, settled, pending mpsc(16) |
| redeem poller (`core/tasks/redeem_status_poller.rs`) | tracked transactions | poll the relayer, write Redeemed, tell the bankroll | pending, store, redeemed |
| recovery tool (`apps/pm-bot/src/bin/recover_settlements.rs`) | none | run settlement's function on stuck rows, without channels | store, relayer |
| store (`adapters/src/sqlite_store.rs`) | the positions table | insert, update, `open_positions` | - |
| simulated client (`adapters/src/sim_market_client.rs`) | resting orders, balance, reservations | `place_order`, `cancel_order`, `order_status`, `redeem` | book cache |
| outside (`adapters/src/clob_market_client.rs`, `gamma_market_catalog.rs`) | orders, transactions, markets | `place_order`, `order_status`, `redeem`, `redemption_status`, `resolve` | - |

The rest is listed in `PROJECT.json`.

### What is hard

- *Interleavings.* Ten tasks share a slot, a market value and a table, and no
  task waits for another before it writes. The slot is read by the decision
  center several awaits before an intent is gated; the row of a position is
  written by the executor, persistence, settlement and the redeem poller.
- *Coalescing and lossy channels.* A watch keeps only its last value; a broadcast
  drops the oldest message of a receiver that lags; `try_send` drops intents.
- *Ambiguous failures.* `place_order` and `redeem` can fail after the outside
  party has acted. Failed writes to the store are logged and ignored.
- *Back pressure.* Rotation, settlement, redeem poller and bankroll form a chain
  of bounded channels, each sender waiting for room.
- *Restarts.* Only the table and the outside world survive.
- *Time.* Slugs are computed from the wall clock, at boundaries.
- *Unordered channels.* Ticks and lifecycle events reach settlement over two
  channels that nothing orders, and `select!` picks between them at random.
- *A lock let go of.* The simulated client looks an order up, unlocks to read a
  price, and locks again to fill what may be gone.
- *Long memory.* What a strategy decides depends on every tick it was asked
  about, through a stream with gaps.

### What correctness means, component by component

- Rotation: settlement hears of a cutoff and next of the same market's
  resolution, in order; the watch moves through the statuses of `MarketState`.
- Executor and slot: at most one order in play per reset of the slot.
- Poller, persistence, bankroll: a fill is booked at most once and only if it
  happened; a row's verdict is the exchange's; a verdict arrives.
- Settlement and redeem poller: the right price judges a market, a position is
  redeemed at most once, the store says of a position what happened on chain, and
  nothing waits for ever.
- Bankroll: its three amounts add up to the table and the chain.
- Market data: the cache shows one market, never goes back in time and catches up
  with the exchange; a publish rebuilds the feed whatever happened before it.
- Price feed: no tick is dropped for an error; settlement judges by the newest
  tick up to the close that had reached it, if the feed stamps in milliseconds.
- Strategies: the indicators hold what a look at all the ticks would find; Up and
  Down are treated alike; a limit covers the ask it was sized at.
- Simulated client: reservations add up, an order is filled only if its price was
  met and always if it stays met; its callers cannot tell it from an exchange.
- Table: the status column moves as `PositionState`'s table says.

## The modules

| module | models | state and actions |
|---|---|---|
| `PositionLifecycle` | `PositionState::transition`, `PositionStatus::is_terminal` | abstract specification: one status per row, one move per pair of the table |
| `MarketWatch` | the market watch as `run_round` drives it | `market`, `round`, `phase`; one action per publish. Time and events left out. Extended by `OrderPath`, `Settlement`, `MarketData` and `DecisionCenter`, implemented by `MarketRotation` |
| `Catalog` | `GammaMarketCatalog::resolve` | a function from Gamma's and the price service's answers to a market or an error; the statuses and winners the other modules let a market have are its values |
| `MarketRotation` | `run_round` in time | a clock, `wake` for the current sleep, the prefetch task, `emitting` for an event that waits for room; one action per numbered step of the code |
| `PriceTicks` | a price feed's forwarder, `price_feed_task`, the tick broadcast, `settlement_task`'s cache and the price it judges by | extends `MarketRotation`: its lifecycle channel and the tick channel meet in `TakeCutoff` and `TakeResolved`. A tick is the second it is of; `perSecond` says whether the source stamps it in milliseconds or in seconds, and `Due` compares the stamp with the close as the code does |
| `MarketData` | `market_data_task`, the feed task of every subscription, the recording decorator, `OutcomeBookCache`, the exchange's market channel | extends `MarketWatch`; per feed task a stage (`at`), the frames on its wire, the books it has still to send and its channel |
| `Indicators` | candles, EMA, RSI, tick trend, momentum | records and operators, exact over integers: an average of f64s is a fraction |
| `Strategies` | the composite, quantitative and V1 strategies, fixed-fraction sizing | what each remembers of a tick and may decide |
| `DecisionCenter` | `decision_center_task` | extends `MarketWatch` and `Strategies`; a tick is passed over or evaluated, then ask and bankroll are read, then the intent is sent: three actions, as there are three awaits |
| `OrderPath` | decision center, executor, slot, order status poller, order-update broadcast, persistence and bankroll for fills | one action for what a task does between two awaits |
| `Exchange` | the `MarketClient` port | abstract specification: a placed order is live until matched or cancelled, once and for good, and `order_status` tells nothing else. Implemented by `SimClient` |
| `SimClient` | `SimMarketClient` and the poller that calls it | one action per hold of the client's lock: a poll past the latency gate is `LookUp`, `ReadPrice`, then `FillCrossed`, `NotCrossed` or `FillMissing` |
| `Settlement` | lifecycle channel, `settle_market_positions` as run by the bot and by the tool, redeem poller, persistence and bankroll for settlements and redemptions | `at`, `verdict`, `batch` say where each of the two runs stands |
| `OrderPathProofs`, `SettlementProofs`, `MarketRotationProofs`, `PriceTicksProofs`, `MarketDataProofs`, `SimClientProofs`, `DecisionCenterProofs`, `MarketWatchProofs` | - | theorems about the modules they are named for |
| `MCOrderPath`, `MCSettlement`, `MCMarketData`, `MCSimClient`, `MCDecisionCenter` | - | values of constants for TLC |

How code becomes an action. A `select!` arm runs from one await to the next;
what lies between two awaits that touch shared state is one action, and every
await is a point where any other task may move. The executor's intent arm is
therefore `AdmitIntent` (gate and market read), `InsertPosition` (insert, claim,
publish the slot), `OrderAccepted` or `PlaceFailed` (what follows the exchange's
answer), `RecordOrderId` or `RecordRejected` (the write to the store). While it
is in the middle of them (`step # "select"`) the executor reads no market
update, as in the code. `run_round` blocks in `emit_lifecycle`, hence the guard
`emitting = NoEvent` of its next step.

A watch is a value and, per reader that matters, a flag that says the reader has
not seen the last version (`marketChanged`, `slotChanged`). A broadcast is what
each receiver has still to read; `Push` drops the oldest message when a receiver
is full, and the `lag` failure says whether this may happen. A bounded mpsc is a
sequence and a guard on its length. Failures are switched on by `Faults`, so
that a run says which of them its properties survive.

What the data is reduced to: a market is its window's number and its status; a
position its id, the market of its row, and (in `Settlement`) whether the
outcome it bought is the one that pays; money is counted per position, at a cost
of `Cost` and a payout of `Payout`. Three interfaces are choices in one module and
computed in another: the tick cache of `Settlement` (a price is there or not) is
`PriceTicks`'s; the strategy of `OrderPath` (enter or hold) is `DecisionCenter`'s;
the exchange of `OrderPath` does what `Exchange` allows. In `MarketData` a book is
the best bid and ask a frame's levels give and the time of the frame; a subscriber
is first sent one frame with a book per token, in any order of the tokens.

`DecisionCenter` takes the tick stream for what `PriceTicks` says of it: ticks come
in the source's order, and any of them may be lost or find the slot taken, the
market closed or the strike unknown (`PassOver`), so the strategy sees any
subsequence. It takes them to be stamped in milliseconds. Were they in seconds,
`secs_to_cutoff` (`core/strategy.rs:20-22`) would put every tick some fifty years before
the cutoff, so no strategy with an entry window would ever enter, and candles would be
cut in thousands of seconds. `seen` is what the strategy took into its memory: a price
of 0 is turned down before any update. That is what `BinancePriceFeed` makes of a price
that does not parse (`binance_price_feed.rs:71-73`); `main` wires Chainlink's feed, which
passes on the price its client has parsed. The quantitative strategy is reduced to signs: whether the sampled
prices moved at all, and the side of one half its probability is on.

`MarketWatch` lets the catalog report a market as Open, Resolving or Resolved and
lets any later market be the next one; `MarketRotation` with its clock is shown
to do nothing else (`RotationIsMarketWatch`), which is why the other modules
need no clock. `Settlement` assumes in addition that no market is begun twice
(`RoundBegins`): `ResolvedInOrder` shows it for a catalog that closes no market
early, that is for `Early = 0`.

## The runs

| run | constants | what it asks |
|---|---|---|
| `orders` | 1 round, 2 positions, capacities 1, no failures, fairness | `OneOrderPerReset`, `StoreMatchesExchange`, `BooksAgree`; `VerdictReachesStore`, `AwaitingIsTracked` |
| `order_faults` | 2 rounds, 1 position, capacities 1, 1 restart, all failures | `TypeOK`, `FillBookedOnce`, the inductive invariant `IInv`, refinement of `PositionLifecycle` |
| `settle_faults` | 2 rounds, 1 position, 1 restart, all failures | `StoreMatchesChain`, `PriceIsOfMarket`, `RedeemOnce` |
| `settle_books` | 1 round, 2 positions, capacities 1, failing queries, redemptions, polls and transactions | `TypeOK`, `BooksMatchChain`, no deadlock |
| `settle_tool` | 1 round, 1 position, the tool once, no failures, fairness | `SettlingIsJudged` |
| `rotation_rounds` | windows of 2 s, polls every second, a catalog that closes markets 1 s early, 4 s, channels of one, a tick cache of 2, 3 ticks stamped in milliseconds or in seconds, 1 feed error, fairness of the tick path | `TicksTypeOK`, `CutoffIsResolvedNext`, `ResolvedInOrder`, refinement of `MarketWatch`; `PriceIsLast`, `TicksArrive` |
| `market_data` | 2 rounds, 1 outcome, an ordinary and a one-sided book, 3 feeds, 1 change of the exchange's books, 1 failure, fairness | `TypeOK`, `CacheIsOfOneMarket`, `CacheMovesForward`, `PublishRebuilds`, `CacheCatchesUp`, `MisfiledOnlyWhileUnread` |
| `sim_orders` | a buy and a sell, 2 orders, prices below, at and above the limits, latency 1, 2 changes of the cache, with and without `always_fill`, fairness | `TypeOK`, `ReservationsAddUp`, `FilledOnlyIfCrossed`, `PanicNeedsCancel`, `CrossedIsFilled`, refinement of `Exchange` |
| `decisions` | each strategy, 5 ticks at, just around or far below a strike of 20000 (a price of 0: one that did not parse) in the same or the next second, candles of 1 s, EMAs of 1 and 2, an RSI of 2, a trend window of 3, bankrolls nought and some | `TypeOK`, `CandlesMatchTicks`, `SidesAlike`, `NeverEntersFlat`, `QuantNeedsVolatility`, `V1MirrorsSettlement`, `LimitCoversAsk` |

What the less obvious properties say. `CacheCatchesUp`: once the exchange is quiet
and connections hold, the cache ends up with its best prices, though nothing
but a new subscription's snapshot makes up for what a reconnection lost.
`PriceIsLast`: the price at the cutoff is of the newest tick the source had given
up to the close, except those still in a channel or lagged past, and is missing
only if newer ticks have pushed it out of the cache. That is what `settlement.rs:16`
promises, and it holds if the feed stamps in milliseconds. If it stamps in seconds the
property says what happens instead: every tick counts as before the close, and the price
is of the newest tick given, from after the close or not. `SidesAlike` runs the
composite strategy on the mirror image of the ticks and wants the mirrored
decision; it excludes the three places where the code takes a side by itself: a
flat candle counts as a fall (`momentum.rs:60`), an RSI without any change is 100
(`rsi.rs:64-67`), and the move a trend needs is a share of the oldest price, so a
trend that starts lower needs less (`tick_trend.rs:72-78`). `NeverEntersFlat` shows
that these never suffice to enter a market that has not moved. `CandlesMatchTicks` compares the incremental aggregator with candles
cut from the whole history. `PanicNeedsCancel` says which call makes
`remove(..).unwrap()` panic: a cancellation between the two holds of the lock,
which no task of the bot issues today.

Every run checks for deadlock. In `Settlement` the end of the model (all rounds
over, every channel empty, nothing tracked) is the action `Finished`, in
`MarketRotation` the end of the clock is `OutOfTime`, in `SimClient` `Rest` is a
client without resting orders; a state that can move in no other way is an
error.

Runs that TLC refutes, each against a sentence of the code:

| run | the sentence | what happens |
|---|---|---|
| `order_round_gate` | "one-position-per-round invariant" (`core/state.rs:7`), "max one open position per round" (`main.rs:39`) | `RotateSlot` fires on *every* publish, so the slot is empty again after Open, TradingCutoff, Resolving and Resolved of the same round |
| `settle_redeemed_first` | "guarded transitions" (`core/state.rs:110`) | a confirmed transaction is polled before persistence has read the settled message: settling → redeemed → won |
| `rotation_prefetch_next` | "prefetch of next round" (`market_rotation.rs:115`) | after the cutoff `next_slug(now)` is the window after the next |

More disagreements are in the models and have no run of their own:

- an order the exchange took, whose reply is lost (`PlaceErrs` with `lostReply`),
  is handled by "Treat as immediate rejection — free the slot." (`executor.rs:131`):
  the row says rejected, and the next intent is admitted beside it;
- Pending and the reset that follows may coalesce on the slot watch before the
  poller looks (`SeeSlot`): the order is then never tracked, although "this may take
  1–2 ticks" (`order_status_poller.rs:42`);
- the recovery tool "mark[s] losers" (`recover_settlements.rs:8`) over a channel it
  does not have (`Tell`), so they stay Settling;
- an intent sized on an open market is placed whatever the market's status is when
  it is dequeued (`AdmitIntent` has no guard on it);
- no verdict frees the slot, although `RoundSlotState::free` says so;
- `emit_lifecycle` waits on a full channel although its comment says that it never
  holds the rotation up;
- dropping a feed "ends its background WS task" (`market_data.rs:91`) only when a
  book arrives that the task cannot send (`ReceiverDropped`);
- a price feed whose forwarder has returned is "retrying" (`price_feed.rs:28`) for
  ever (`StreamEnds`, `FeedFails`);
- an order is sized at the ask and placed at the limit, so it may cost more than
  the "Fraction of bankroll to deploy per trade" (`fixed_fraction.rs:8`);
- a `Timestamp` is "Unix timestamp in milliseconds" (`core/types.rs:6`), and
  "Chainlink RTDS delivers timestamps as Unix seconds" (`chainlink_price_feed.rs:83`),
  which the wired feed stores unconverted (line 39). The unit is the client library's to
  say, and the test's threshold passes either way, so both are modelled (`perSecond`). If
  the comment is right, a market without a named winner may be judged by a price from
  after its close (`PriceIsLast`), and strategies with an entry window never enter;
- "Taker fee in basis points applied to filled notional" (`core/config.rs:50`), and "on
  fill ... apply maker/taker fees" (`docs/dry-run-and-simulation-plan.md:118-119`):
  `order_status` computes fee and total cost and drops both (`sim_market_client.rs:219`),
  and `bankroll_task` books `avg_price * size_matched` (`core/tasks/bankroll.rs:46`). The
  fee is nowhere charged, and the simulated client's own balance gets a filled order's
  reservation back whole (`FillsCostNothing`);
- the catalog reports Resolved once the close has passed, whether or not a winner is
  known (`gamma_market_catalog.rs:220-237`), and settlement then names one from its own
  price. The outcome it names need not be the one that pays: `Settlement` has both
  (`TakeResolved` chooses `v`), and no property says that they agree, because nothing
  in the code makes them.

### Bounds

`MaxRounds`, `MaxPositions`, `MaxCrashes`, `MaxToolRuns` and `MaxTime` end the
runs; the channel capacities are parameters whose real values (8, 16, 64) are in
the declarations, and are set to one or two so that full channels are reached in
a few steps. Two positions are enough for the races there are: one row claims
the slot while an intent for another is queued; one redemption is being handed
over while the other one is confirmed. Two rounds are enough for a message, a
price or a row of one market to meet the next one. `rotation_rounds` has two whole
windows and the start of a third, so that a round can begin late, miss a window,
and have its event taken when the next one has begun; three ticks are one more
than the cache holds, and with channels of one each of them can be lost to lag, be
under way at a cutoff or come late. Its clock starts at second `Epoch` = 4, which is
enough for a stamp in seconds to be below every close in milliseconds, as in 2025.
`rotation_prefetch_next` has eight seconds of
windows of three. Three feeds in `market_data` are one per round and one rebuilt
after an error; one outcome suffices for mixing markets, since a token belongs to
one. Two orders let one rest while the other is filled or cancelled, and the prices are
the limits and one on either side. In
`decisions` five ticks are four closed candles, enough to warm every indicator,
to overflow the candle history of three and to sample the volatility twice; prices
one either side of the strike make every sign an indicator reads, and at a strike of
20000 a move of one is over the trend's threshold from a price below the strike and
short of it from the strike or above.
The theorems hold for all values.

### Fairness

`FairSpec` of `OrderPath` and `Settlement` assumes that the runtime goes on
polling every task, that `select!`, which picks among ready arms at random, is
fair to its arms, that the interval timers go on ticking and that requests are
answered. Each task gets weak fairness of its own steps. Nothing is assumed of
the market, the strategy, the exchange's or relayer's verdict, or the operator
of the tool.

`MarketData`: the feed tasks and the arms of `market_data_task` are run when they
can and a frame that is not lost arrives; connecting, failing, publishing and price
changes are owed by nobody. `SimClient`: time passes, a poll that has begun goes
on, and each order without a verdict is polled again and again; strong fairness,
since the poller is one task and the poll of another order disables it.
`PriceTicks`: `price_feed_task` and settlement's tick arm are run when they can and
a sleep ends (one fairness condition for the former's three steps, of which it is always
at one); nothing of the source, of the lifecycle arm or of the rotation.
`DecisionCenter` and the rotation itself are checked for safety only.

## The proofs

Every `Invariant` below is proved as `Init => I`, `I /\ [Next]_vars => I'` and then
`I =>` the property. What a theorem assumes beyond the named assumptions on constants
is written in its statement. None of them needs a bound: they hold for every number
of rounds, positions, restarts, ticks and errors, every capacity and, unless it is
said otherwise, every set of failures.

| module | theorems | assuming |
|---|---|---|
| `OrderPathProofs` | `TypeCorrect`, `FillsBookedOnce` (`FillBookedOnce`), `ImplementsLifecycle` (refinement of `PositionLifecycle`) | - |
| | `OneOrderInPlay` (`OneOrderPerReset`), `RowsMatchExchange` (`StoreMatchesExchange`) | no lost reply |
| | `StoreAndBankrollAgree` (`BooksAgree`) | no failed write, no lag, no restart |
| `SettlementProofs` | `TypeCorrect`, `PriceOfItsMarket` (`PriceIsOfMarket`) | - |
| | `RedeemedOnce` (`RedeemOnce`), `StoreAgreesWithChain` (`StoreMatchesChain`) | no run of the tool |
| | `BooksMatch` (`BooksMatchChain`) | no run of the tool, no restart, `Survivable` |
| `MarketRotationProofs` | `ToldInOrder` (`ResolvedInOrder`), `CutoffThenResolved` (`CutoffIsResolvedNext`), `ImplementsMarketWatch` (`RotationIsMarketWatch`) | - |
| `PriceTicksProofs` | `TicksRunRotation`, `RotationBesideTicks`, `TicksTypeCorrect`, `JudgedByLastPrice` (`PriceIsLast`) | - |
| `MarketDataProofs` | `TypeCorrect`, `CacheOfOneMarket`, `CacheForward` (`CacheMovesForward`), `MisfiledInTheGap` | - |
| `SimClientProofs` | `TypeCorrect`, `FillsAreCrossed`, `PanicsNeedCancels`, `ImplementsExchange`, `FillsCostNothing`, `ReservationsAreRestingOrders` (`ReservationsAddUp`) | - |
| `DecisionCenterProofs` | `TypeCorrect`, `V1Mirrors`, `FlatNeverEntered` (`NeverEntersFlat`), `QuantEntersOnMoves` (`QuantNeedsVolatility`), `CandlesAreOfTicks` (`CandlesMatchTicks`), `UpAndDownAlike` (`SidesAlike`) | - |
| | `LimitsCoverAsks` (`LimitCoversAsk`) | `TickDividesOne` |

### Orders

*Why an inductive invariant.* That a fill is booked once does not follow from
the state of the books: the poller may have sent a verdict that is still in a
queue. `IInv` says where a position's only verdict can be. A position is
`Unjudged` while no verdict on it is in a queue or in the books.

- `RowsInv`: rows exist exactly for the ids handed out.
- `ExecutorInv`: while the executor is placing or recording an order, its row is
  submitted, has no order id and is unjudged: nobody else touches it.
- `SlotInv`: a slot value the poller has not seen yet is a fresh position.
- `AwaitingInv`: what is awaiting is not tracked and unjudged; if its row was
  rejected it never got an order id, so `open_positions` will never yield it.
- `TrackedInv`: what is tracked has its order id, is submitted and is unjudged.
- `QueueInv`: each queue holds at most one verdict per position, one that
  persistence has yet to write, and a fill only of a matched order.

So a verdict is sent once, by the tick that stops tracking the position; and
every write to the status column finds the row in the state the table wants.
That is all the refinement needs, and it survives lost messages, failed
writes and restarts, since they only ever take verdicts away. The restart is the
case that needs `exchange`: the queues are emptied, the table is kept. The proof has
a lemma for each operation on a queue (`TailLemma`, `AppendLemma`, `PushLemma`,
`BroadcastLemma`, `ReceiveLemma`) and frame lemmas for the actions that leave the
invariant's variables alone.

`AgreeInv` adds what ties the slot to the exchange: of all the positions claimed
since the slot was last reset, only the one it names is in play or being placed; a
verdict under way is what the exchange would say now; and an order whose placing
failed is none the exchange has. The last is false when a reply is lost, and then
the row says rejected beside an order that is live. `BooksInv` follows a fill along
its two ways: it is in the store or in the queue to it exactly when it is in the
bankroll or in the queue to that. A lagging receiver, a failed write or a restart
breaks one way and not the other.

### Settlement

`TypeCorrect` needs `WorkInv` beside the types: a run of settlement that is not idle
has rows to go, and the redeem poller confirms one of those it tracks.

`LifecycleInv` is what the lifecycle channel may hold: events of markets in order
(`InOrder`, `UpTo`), every cutoff followed by its own market's resolution (`Paired`),
and at the end of the channel or in settlement's captured price only a cutoff whose
resolution the rotation still owes (`LastIsAwaited`, `PriceIsAwaited`). So the price
that judges a market is its own.

`RedeemInv` says of every position who may still redeem it. Its market's resolution
is still to come (`Upcoming`), or the bot's run has the row in its batch, or neither.
In the first two cases no redemption has been submitted, until the run submits one
(`Unsettled`, `TakenUp`); and the status, the news to persistence and the chain
agree (`ChainAgrees`). A market is resolved once, which is `LifecycleInv`'s order, and
so no row is taken up twice, restarts included: a restart loses the batch together
with the event. *The tool is excluded because the statement is false with it*: while
the bot is between taking a row up and submitting, the tool reads the same row and
submits too. TLC finds this with one run of the tool (`MaxToolRuns = 1`). Nothing in
the code keeps the tool from running beside the bot; it is there for markets "that
missed live settlement" (`recover_settlements.rs:3-4`).

`BooksInv` places every position in the bankroll's three amounts. A fill, a
settlement and a payout each pass through a sequence of places (watched, in a queue,
in the books; in the batch, in the news, in the books; submitted, in `pendingQ`,
tracked, in `redeemedQ`, in the books), and are in one of them at a time
(`FillInv`, `TellInv`, `WayInv`, `QueuesInv`). `MoneyInv` then counts: what the
bankroll holds is a linear combination of the cardinalities of the sets of positions
each of whose messages has been booked. A step of `bankroll_task` moves one position
into one of those sets, every other step leaves them (`SameMoney`, `OneMore`).
`Survivable` excludes a failed write to the store, a redemption whose receipt is lost
and one that answers without a transaction id: each of them leaves the bankroll with
an amount that no message will ever move, as the code does.

### Rotation and ticks

`RotationInv` says which windows a round may be of: one that has opened (`Reached`),
no earlier than the last one (`SlugOrder`), its successor prefetched for a later one
(`PrefetchAhead`), the last one closed (`Closed`), and that an event waiting for room
holds up only the steps that send one (`Blocked`). `Followed` reads the channel with
that event behind it, so that the moment it finds room changes nothing. The refinement
mapping to `MarketWatch` is the identity on the watch and drops clock, prefetch and
events; `BeginsRound`, `Advances`, `EndsRound` and `WatchStutters` say which action of
the abstract module each step is. Every module that extends `MarketWatch` rests on it.

`TicksRunRotation` shows that every behaviour of `PriceTicks` is one of
`MarketRotation`: the theorems about the rotation then hold beside the ticks
(`RotationBesideTicks`). `TicksInv` orders the ticks from the source to the cache
(`TicksInOrder`), accounts for each (`Accounted`: under way, cached, lost to lag, or
pushed out) and says that the cache keeps the newest of those given (`Kept`). The
resolution price, the last cached tick stamped up to the close, is read off the cache by
unit (`DueIs`, `PriceByUnit`): in milliseconds it is the newest one given up to the close,
unless newer ones have pushed it out; in seconds it is the newest one given. The second
case needs that the model's clock starts as far from 1970 as it runs (`MaxTime <= Epoch`),
so that a time in seconds is less than any close in milliseconds.

### Books of the exchange, simulated orders

`SimInv` of `SimClient`:

- `CounterInv`: the counter is what was minted, so an id is new when it is handed
  out;
- `FateInv`: a placed order rests, is filled or is cancelled, exactly one of the
  three, and what the poller was told agrees with it;
- `CrossedInv`: what could be filled now is in the history of what could;
- `PollInv`: the order between the two holds of the lock was placed, has passed its
  latency and has no verdict, and a price that was read and meets the limit has been
  met. This is what connects a fill to a moment of the past: at the fill itself the
  price may be gone.

`ReservedInv` says that `reserved` is the sum of the reservations of the resting
orders, whatever a fill does to the balance. The sum is a fold over a set, defined by `CHOOSE`; that it exists, is unique
and grows by an element's weight when that element is added (`TotalAdds`) is proved by
taking a smallest set on which it would fail (`SmallestMember`).

`DataInv` of `MarketData`:

- `LinkInv`: the feed the task reads was subscribed to the ids it remembers, and
  these are the watch's market unless a publish is unread;
- `OwnBooks(f)`: all a feed task has on its wire, in its hands and in its channel
  is of its subscription, for let-go tasks too;
- `InOrder(f)`: and it is sorted by the exchange's clock, from the channel back to
  the wire;
- `CacheInOrder`: nothing cached is newer than what the task's feed has under way.

So the next book taken is of the right market and no older; a reconnection
empties the wire and starts it again at the clock's present, which is after all
that went before. Type correctness needs that the best price of a side that is
quoted exists, an assumption on `Quotes` that any finite book meets.

### Strategies

These properties are about the whole history of ticks, and each has an invariant that
relates the strategy's state to that history:

- `StillInv`: while every price was the strike, the candles have no body, the averages
  are at the strike, and the RSI has no change: no signal but acceleration's and the
  RSI's own sides is left, and those two are short of the gate.
- `VolInv`: the estimator has counted every tick and every sample, keeps the price of
  one of them, and calls the price moved only if two of them differ.
- `CandleInv`: the aggregator's candles are those cut out of the ticks at the places
  where the bucket changes. The lemmas (`StartsOfMore`, `StartStays`, `NextStart`,
  `ClosedOfMore`, `HistoryKept`) say what one more tick does to those places.
- `SidesInv`: the state is `Opposed` to the one after the mirrored ticks: prices are
  mirrored, gains are losses. One tick and its mirror image keep it so
  (`CompositesOpposed`), by an identity of fractions for the averages; and in opposed
  states each of the six signals has the opposite sign (`WindowOpposed` to
  `TrendOpposed`), except where `TakesASide`. `After` is a recursive function, whose
  existence is shown by the least tick at which it would not be defined
  (`RunsExist`).

`LimitsCoverAsks` is for a tick that divides 1 and is at most 0.05
(`TickDividesOne`, as the exchange's are), where rounding half to even of a number
half a tick off the grid is the case that matters.

### What proof attempts corrected

- The bound of `MarketRotation`'s `wake` in `TypeOK` held on the instance and not in
  general: a sleep may end an interval or a poll's delay after `MaxTime`.
- `seen` of `DecisionCenter` had every tick the strategy was asked about; the
  statements about candles and volatility are true of those it takes in, and false once
  a price that did not parse is among them.
- `SidesAlike` excluded two places where the code takes a side. The third one, the
  trend's threshold, shows only at prices where a share of one price and the same
  share of its mirror image fall on different sides of a move; the run now has such
  prices.
- `RedeemOnce` and `StoreMatchesChain` do not hold beside a run of the tool.

### Only model-checked

Liveness, which TLAPS does not do: `VerdictReachesStore`, `AwaitingIsTracked`,
`SettlingIsJudged`, `TicksArrive`, `CacheCatchesUp`, `PublishRebuilds` and
`CrossedIsFilled`; and that nothing deadlocks, which is about `ENABLED`. `Catalog` is
constant operators, whose range `MarketWatchProofs` and `MarketRotationProofs` use.

## Not modelled, and why

- Signing, EIP-712 encoding, HTTP, SQL text, JSON parsing, logging: I/O and data
  the properties do not tell apart.
- Floating point: indicators are exact over integers, and the quantitative model's
  probabilities are signs. Rounding errors of f64 are out of TLC's reach, and so is
  the edge's comparison with `min_edge`, which is left open.
- Confidence, which the decision center only logs (and which, for `QuantStrategy`,
  is the probability of Up even when it enters Down).
- The order-book imbalance of the quantitative model and the order book feeds:
  wired to nothing. Kelly and fixed-amount sizing: likewise.
- Reconnection delays, keep-alive frames and timeouts inside a connection: a
  connection may fail at any moment instead.
- The catalog's HTTP retries and the parsing of answers; that the clock passes the
  close between the two looks `resolve` takes at it.
- A source that changes the unit of its stamps while it runs.
- Ticks whose times go back: the sources deliver them in order, and neither the
  candle aggregator nor settlement would notice if one did not.
- Recording of ticks and markets: rows nothing reads back.
- `size_matched` against `shares`: a fill is a whole fill. The code drops the
  matched size when it writes a fill and pays `shares` at redemption, so
  `BooksMatchChain` speaks of orders matched in full.
- The settled broadcast (16 messages) does not lag in `Settlement`: it would take
  more than sixteen positions settled in one batch.
- Cancellation on shutdown: every task is dropped at an await, which is the
  restart of the models without its loss of memory being repaired.

## Plan

1. The recovery tool over several markets, and beside another run of itself; what
   `RedeemOnce` becomes if the bot is stopped while the tool runs.
2. `BooksMatchChain` with a restart: what `main` reconstructs of the bankroll.
3. Safety facts the liveness properties rest on, as lemmas: that what is awaiting or
   tracked is never forgotten without a restart.
