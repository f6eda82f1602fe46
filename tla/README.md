# A formal model of veloci-buy

veloci-buy is a Solana trading bot: it discovers fresh tokens, audits and
scores them, buys, watches the open positions and sells. It is one Node process
(`src/src`), a worker thread that writes SQLite, an optional validator plugin
that pushes account updates (`src/geyser-plugin`), a native numeric library
(`src/rust-ml-core`) and a website that shows the state (`src/website`).

The bot is single threaded and asynchronous. Code between two `await`s is
atomic; everything that is read before an `await` may be stale after it. Most
of what can go wrong here is of that kind: several loops, streams and timers
share mutable maps and objects, and the guards that keep them apart are flags
and counters maintained by hand. The modules model that: **an action is the
code from one await to the next**, awaited answers arrive in any order, late or
with an error, and time-outs fire when they may.

## Inventory

| component | state | operations | hard behaviour |
|---|---|---|---|
| State store and persistence (`core/state`) | in-memory maps; the worker's queue, retry counter, flush requests; SQLite | every store write, `flush`, `requestShutdown` | batches requeued on locks, one-by-one replay, death of the worker, crash |
| Process (`index.ts`, `core/migrate.ts`, `scripts/start-all.ts`, reloads of `api.service.ts`) | the stages of boot and shutdown, the JSON state and its flag, two child processes | boot, import, stop, reload, signals, forced kill | boots cut short, two processes that see one Ctrl+C, writes posted while it ends |
| Orchestrator (`core/bot.ts`) | timers, busy flags, the scan chain, account streams, cooldown timers | discovery, trending, swing and monitor ticks; stream events; shutdown | overlapping loops, a watchdog that cannot stop what it gave up on, streams that outlive their position |
| Discovery (`services/discovery`) | subscriptions and their heartbeat, dedupe maps, pending signals, a socket | subscribe, rotate, watchdog restart, debounced flush, reconnect | silent stalls, signals arriving during a flush, calls that outlive the one that replaced them |
| Scanner and buys (`services/scanner`, `services/buy.ts`, `utils/pool.ts`) | rechecks, processed mints, per-scan reservations, positions, paper balance | collect, cheap audit, final audit, buy | check-then-await-then-act on balance, caps and positions |
| Engine, audit, market data (`services/engine`, `services/audit`, `market-data.ts`, `services/burst`) | snapshots, signals, drawdown windows, momentum samples | price, look up, judge, recheck | verdicts over facts that arrive late, in any order or never |
| Portfolio and breakers (`portfolio.service.ts`, `trade-logger.ts`, `exit-calculator.ts`) | one shared pause, peak balance, loss streak, history, mood latch | evaluate per scan, record per exit | three writers of one pause; a latch over a capped history |
| Monitor and exits (`services/monitor`) | `positions`, two locks per mint, balance caches | tick, stream evaluation, exits, close all | stale balances, objects saved after removal |
| Swing bot (`services/swing`) | watchlist, log listeners, open swing positions | slow loop, fast loop, subscribe, unsubscribe | the two loops overlap; a subscription outlives its owner |
| Swap execution (`services/trading`) | orders, bundles, slippage, cached fees, tips, blockhash and SOL price | quote, sign, send, confirm, retry | an order that landed late after it was retried; a fetch shared by many |
| RPC pool (`core/utils/solana.ts`) | token buckets, queues by priority, endpoint health | acquire, call, fail over | lost or multiplied timers, starvation, health read before it is known |
| Geyser plugin and client (`geyser-plugin`, `services/ingestion`) | bounded channel, frame buffer, socket | publish, frame, reconnect | lost and torn frames |
| Ghost trader and ML (`ml`) | shadow positions, samples, weights with their statistics, gate and breaker, ladder | open, tick, close, train, save, gate, tune | training that fails half-way, ladders replaced under open positions |
| Interfaces, configuration, arithmetic (`website`, `rust-ml-core`, `config.ts`) | a reconnecting socket | - | - |

`PROJECT.json` lists every component with its status and every hazard with its
line and the properties that cover it.

## Modules

### StatePersistence, WriteBehind, StatePersistence_proofs

`WriteBehind` is what the persistence layer promises: writes settle in order,
each once, by being committed or dropped; a flush that resolves covers every
write issued before it; a crash loses a suffix. `StatePersistence` is the
code: `EnqueueWorkerWrite`, `Flush`, `RequestShutdown` and the message handlers
are the main thread; `ReceiveRun`, `ReceiveFlush`, `ReceiveShutdown`,
`TimerTick`, the steps of `flush()` (take the queue, attempt, requeue, replay)
are the worker; the channels are FIFO sequences. A write is its number. Poison
writes fail always, a lock fails an attempt or one statement of a replay, the
worker may die of an error, the process may crash at any step. The
configuration checks that the detailed module implements the abstract one.

### ScanPipeline, ScanPipeline_proofs

The discovery and trending loops request scans; `scanChain` is the promise
chain of `runScanExclusive`, with `Watchdog` advancing it while the body goes
on. A scan collects fresh mints and due rechecks, evaluates the breaker, and
works on the items in two bounded pools; `AuditItem` is `processItem` up to its
first await (limit check, reservation, held check, `canBuy`, age, recheck
limit), the audit's answers are the actions after it, `PlaceBuy` and the fill
actions are `buy.ts`. `Leave` is the `finally` block that gives reservations
back. Store operations (`TrackMint`, `untrack`, rechecks, cooldowns) keep their
side effects on each other. Collecting the items also cancels pullback rechecks
whose price fell, which is their verdict. Items are kept by mint, so a mint that
is due and discovered by the same scan has one, where the code queues two if its
cooldown ends in the price fetch.

### PositionExit, PositionExit_proofs

One position, shared by the monitor tick, the vault streams and the shutdown.
`evaluating` and `processing` are the code's two locks; `seen` is the balance
an actor read before an await; `order` is the exit it asked for. The actors
are suspended at the awaits of `monitorPositions`, `evaluateSinglePosition`,
`executePositionExit` and `closeAllOpenPositions`. Which rule fires depends on
prices, so it is a choice among the kinds of exit the executor distinguishes.
Live, the balance the RPC node answers with (`indexed`) lags behind the chain
(`wallet`). An exit may fail after its swap has settled (`ExitFails`): the tokens
are gone, the record is as before. Sniper positions only: burst and swing exits go through the same
executor but have their own ladders, which are not in the model.

### DrawdownBreaker, MoodBreaker, Breakers, Gates_proofs

`DrawdownBreaker` has the pause shared by the drawdown breaker (asked once per
scan, with the balance awaited in the middle) and by the loss-streak and
expectancy breakers (run by any exit); with the drawdown breaker switched off
(`PassDisabled`) a scan only clears a pause that has elapsed. Times are relative, so no clock grows.
`MoodBreaker` has the win-rate gate with its latch; the history, the pause and
the latch are database rows and `Restart` reloads them, except that releasing
the latch is not written. `Breakers` composes the two: they share the open
positions; a buy passes both gates, an exit is recorded by both, and a restart
hits both.

### SwingLoops, SwingLoops_proofs

The slow and the fast loop over one watchlist, with their busy flags, their
own purchase counters, the limit and the paper wallet, exits and the buys of
`parallelBuys` final audits of the scanner in between, each of which checks the
balance, awaits its quote and then debits (`SniperChecks`, `SniperBuys`), and the
listeners of
`SwingTapeManager`, whose pool lookup is an await of its own.

Nothing depends on the listeners, so they are followed for the mints of
`Followed` only.

### TokenBucket, RateLimiter

Every RPC call first takes a token of its endpoint
(`makePriorityTokenBucket`). `TokenBucket` is that function: `AcquireToken`,
`onAbort`, the timers that `processQueues` leaves behind, and time in units of
one refill. No code runs when a token becomes due; tokens are added in arrears
(`unclaimed`) by whoever calls `processQueues` next. `RateLimiter` is the
promise: a bucket that is refilled on time. The four queues are their lengths,
for within a priority requests leave in the order they came. A request of low
priority may wait for ever while others keep coming; `QueuesDrain` is about
callers that pause.

### Discovery, MCSignals

From a program log to a scan. The sockets fill `pendingMints` and
`pendingSignatures`; a debounce timer (`DebounceFires`) runs `flush()`, whose
awaits are the fetches of the transactions (`Fetched`, `Unanswered`) and the
discovery loop it calls (`CallLoop`); the loop and the trending loop occupy
their busy flags across the scan. `recentSignalMints`, the map of handled mints and the
store's verdict are the dedupe. `MCSignals` extends `ScanPipeline` and puts
`Discovery` beside it, with mints (`LoggedMints`) and a chain (`loopChain`) of
its own, for the other half of the question: a flush returns because the chain
of scans settles (`ScanSettles`), which `Discovery` takes as its step of that
name.

### Subscriptions, Reconnecting, VaultStreams, GeyserStream, MCFeeds, Feeds_proofs

The feeds. `Subscriptions` has the calls of `subscribe()` as processes of their
own: a restart aborts the controller of the last call, but the call returns
later, so several calls of one stream are under way. Its failures are counted
over all streams, three rotate the endpoint, and the heartbeat and the watchdog
restart what is stale. `Reconnecting` is a socket that reopens from its close
event, once for the Helius stream and once for the dashboard's hook.
`VaultStreams` is the account streams of a position from buy to removal, with
the derivation of the token account across an await, and the cached reserves
they keep: a running stream brings the writes it saw (`due`), a quote fills a
side that is unset, and nobody fetches what was written while a stream was down.
`GeyserStream` follows one account from the validator through the plugin's
channel, its thread, the network and the client's buffer to the handler in
`bot.ts`. `MCFeeds` lets a behaviour exercise one of the four, for they share no
state.

### SwapExecution, RpcPool, SharedFetches, MCTrading, Trading_proofs

`SwapExecution` is a live buy: the balance read before, the orders of
`executeSwapOrderWithSmartRetry` with their slippage, each sent through a node,
Jupiter or a Jito bundle, and what is recorded after. The chain is external: a
submitted transaction may settle at any time, so it may land after the code
gave up on it. `RpcPool` is `rpcCall` over endpoints of which some always fail:
callers share the index and the health records, and read them before an await.
`SharedFetches` keeps who awaits what of the cached values and their in-flight
markers, because a promise that rejects unobserved ends the bot; a failed price
answers with an older one or throws, whatever is cached. `MCTrading`
runs them beside `TokenBucket`, and `Trading_proofs` has the proofs about all four.

### Candidacy, TwoWaits, MCCandidacy, Gates_proofs

One mint on its way to a verdict, which ScanPipeline leaves open: the price
from the snapshot or the market, the gates of `evaluateCandidate` in their
order, the score and its adjustments, the lookups of the audit with the ones
that fail, the survival wait with its drawdown window, waitlist, indexing lag
and transient errors. `MCCandidacy` gives the mints: sound ones of every feed,
one with each kind of flaw, and the courses their pools take.

`TwoWaits` is the promise without the prices, gates and lookups: a mint is
bought after the survival wait and the final wait, in this order; putting it off
costs an attempt unless it is too new, and attempts are never given back; an
indexing lag repeats the final wait a bounded number of times; and it is judged
once. `Candidacy` maps to it by the stage, attempts and lag of its pending
entry (`Way`), and `WaysKept` is the refinement.

### GhostTrader, ModelLearning, ModelTraining, MCLearning, Learning_proofs

`GhostTrader` is the paper positions in every candidate that passed the rules,
over prices that jump, vanish and ladders that the tuners replace. A ladder is
any sequence of rungs, as the configuration allows. `ModelLearning` is what their
ends feed: the tables, the gate with its breaker, and the tuners of the ladder
and the score, over any configured ladder: a step that is accepted, one that is
rejected and restored, and the policy. `ModelTraining` is the models: a cycle
reads the last rows, so the subset of a DEX bucket can shrink below what
training needs; it trains bucket by bucket, with the new statistics in force
before the weights arrive; a failure ends it half-way; and the save is one write
per key, each of which the persistence worker may drop or a restart cut off.
Weights and statistics are the number of the training they come from. The `arch`
and `trained` keys, and the file of pre-trained weights that a bot without saved
ones starts from (`ml-service.ts:79`), are left out.

### Lifecycle

The process from boot to exit under the supervisor of `start-all.ts`: `Step`
walks the stages of `main`, the import commits with its flag (a query of the
flag that throws is taken for an absent one, `ImportBlindly`), posted writes
reach the disk through the worker, and `stop`, signals, fatal errors, reloads
from the dashboard, hard exits and the forced kill come at any stage. It runs in
`MCLearning`, and what is proved of it is in `Learning_proofs`.

`MC*` modules hold the definitions a configuration needs (symmetry sets,
settings, the launchpad of each mint) and put together modules of a run.

## Runs

A setting that changes which code runs (paper or live trading, the ladder of a
position, the sector cap) is a variable `config` that keeps the value it starts
with, drawn from the constant `Configs`. One run then covers every setting.

| run | shows |
|---|---|
| StatePersistence_checks | inductive invariant, acknowledged flushes settled, commit order, one fate per write, shutdown complete, the refinement of WriteBehind; awaited flushes and shutdowns return and writes settle, though a lock may never be released |
| ScanPipeline_safety | no scan above the watchdog's minute, so scans exclude each other: one lot per mint, only unheld mints are audited, reservations match the final audits and stay in the caps, rechecks and verdicts exclude each other, no work item is stale; the paper balance and the sector cap are exceeded at most by the other buys under way |
| ScanPipeline_orphan (violation) | a scan past the watchdog buys a mint twice |
| Discovery_checks | a mint is offered to the loop once however it is logged, no signal waits without a timer but for the exceptions named, and flushes, loops and the chain of scans go on whatever hangs |
| Candidacy_checks | what is bought earned it over all its rechecks, the way to it implements TwoWaits, and every mint is bought or dropped |
| Candidacy_newborn (violation) | a mint pushed at its creation is dropped for the buys it could not have had |
| PositionExit_checks | exits and evaluations exclude each other, a rung is sold again only after an exit that failed past its swap, paper sales never exceed the holdings before a shutdown, on paper the runner is spared, every evaluation frees the mint, the shutdown returns |
| Breakers_gates | the peak falls only after a drawdown trip, a mood pause repeats only for news, and no combination of pauses locks the bot out |
| SwingLoops_checks | overlapping loops overshoot the limit at most twofold, and not at all without fast polling; the paper wallet is overdrawn by one entry for the fast loop and one per parallel final audit at most; listeners are owned; the turn of the slow loop ends and clears its flag |
| Feeds_checks | no stream is left behind, doubled or revived; updates arrive intact and in order; every feed comes back, and the reserves catch up with what a running stream saw |
| Trading_checks | the bucket loses no wake-up, honours priorities and implements RateLimiter; a buy lands one swap on the paths that keep to it; dead endpoints are benched; a shared value is fetched once at a time; requests, buys, calls and questions end |
| Learning_checks | the import happens once, orderly ends lose no write, no process is left behind; ghosts are credited with their peak, only a model whose training failed or whose save was cut scores under foreign statistics, nothing gets stricter on ghosts alone, rungs in order stay so; stops end, ghosts end, pauses end |

Runs whose parts share no state are put together in one: the part a behaviour
exercises is drawn in its initial state (`feed`, `part`). The two violations
contradict sentences of comments, quoted in `PROJECT.json` under `findings`.
Runs are few and properties are grouped (`Consistent`, `LimitsBounded`,
`SwapsSound`, `LearningSound`, ...): the parts keep names and comments of their
own in their modules.

### What the properties leave room for

Some properties are weaker than one would wish, because the code is. They state
what does hold, and how far the wish is missed:

* `OverdraftBounded`, `LaunchpadOvershootBounded` (ScanPipeline): `buy.ts:196`
  compares the paper balance before it awaits the quote and debits it after;
  `canBuy` counts open positions and not the buys under way. Parallel final
  audits therefore overdraw the balance and exceed the sector cap, each by what
  is under way.
* `OvershootBounded`, `OverdraftBounded` (SwingLoops): `runSwingLoop` does not
  test `fastSwingLoopBusy`, each loop counts its own purchases, and both may fill
  the last slot. Each buyer of the paper wallet debits after an awaited quote, so it
  may be short of one entry for each of them but the first. The bound counts the
  final audits of one scan; bodies past the watchdog would add theirs.
* `TargetsInOrder` (PositionExit) counts the sales whose exit failed past the swap
  (`exit-executor.ts:292`): the rung is not banked, and the next evaluation sells
  it again. It excludes every other way to sell a rung twice.
* `NoPhantomSale` and `MoonBagExempt` (PositionExit) end at a shutdown, and
  `MoonBagExempt` is for paper trading: `monitor.service.ts:302` stores the
  balance an evaluation was called with, read before an audit of up to 8 s, over
  a smaller one that an exit in between left. Live, the cap of a protected sale
  is then computed from tokens that are gone; on paper, the same happens when
  `closeAllOpenPositions` sold in between.
* `BuyingResumes` says nothing about the length of a pause: `armPause` replaces
  the end of a longer drawdown pause (`trade-logger.ts:39`), and a pause armed
  while the breaker awaits the balance is passed over by that scan.
* `SlowReturns` covers a turn that ends with the TypeError of
  `swing-discovery.ts:217`, which dereferences an item that the other loop
  removed during the price request.
* A batch that met a lock is retried in the same turn (the recursion in the
  `finally` of `flush()`), not on the next tick as a comment says. When the
  retries are used up, or a lock comes during a replay, healthy writes are
  dropped (`state.worker.ts:122`, where a comment says "Drops only the poison").
* `PeakLoweredByTripOnly` does not say that each drawdown trip ends in a fresh
  peak: a loss pause armed during a drawdown pause (`trade-logger.ts:41`) keeps
  the old one, and the breaker trips against it again. `PausesNeedNews` does
  not say that news pauses: at the cap of the history its length stays equal,
  and a new losing outcome counts as none (`exit-calculator.ts:97`).
* After the take-profit that closed a position the evaluation saves it again
  (`monitor.service.ts:889`): a closed trade and an open position for tokens
  that are gone. No property forbids it.
* `OfferedOnce` is about offers: a mint offered while the loop is busy is
  discarded (`bot.ts:386`) although the maps remember it. `SignalsWatched`
  excepts signals that met a running flush, or whose own fetch failed: such a
  flush schedules no other, where docs/dev-onboarding.md:137 says "deferred to
  next tick".
* `Resubscribed` excepts a stream that falls silent again after a watchdog
  restart: its mark is kept as long as the call lives (`discovery.service.ts:171`).
  `StreamsOfHeld` excepts a token account whose derivation was overtaken by
  the removal (`bot.ts:584`). `FramesIntact` excepts frames cut by a broken
  connection: the buffer survives the reconnect (`geyser-client.ts:128`).
  `OneSocket` lets a stopped Helius stream come back (`discovery.service.ts:642`).
* `ReservesCatchUp` speaks of writes that a running stream saw. What is written
  while it is down stays out of the cache until the next write (`bot.ts:648`
  subscribes again and fetches nothing), and a quote may store what it awaited
  over a newer push (`raydium.ts:131`).
* `OneSwapPerBuy` needs Jito or the inline simulation, for otherwise a repeated
  submission can report slippage of a transaction that lands. `PositionBacked`
  excepts a timeout taken for a confirmation (`swap-executor.ts:361`).
* `CallersAnswered` ends at the shutdown that an unhandled rejection causes:
  the derived promise of `fee-manager.ts:220` when a tip fetch fails alone, and
  the early quote of a buy that fails before it is awaited.
* `BuysEarned` counts the flaws that a lookup showed; a failing lookup leaves
  its fact unset, and an unset fact passes.
* `RealFirst` counts real trades that have closed ever: the gate looks at the
  last `10 * gateMinRealTrades` rows, which ghosts can fill (`ml-service.ts:444`).
* `ModelsWhole` lists the models that may score under statistics their weights
  were not trained with: the one in training, one whose training failed, and one
  whose last save lost a write or was cut. A bucket whose training failed and
  that is skipped later, for its rows have become too few, is saved like that.
* `RungsOrdered` is about ladders configured in order: nothing in the
  configuration asks for that, or bounds the rungs (`config.ts:704`). With one
  rung, as in `BURST_PRESET`, a rejected step leaves a second one behind:
  `restoreParams` writes back the 2.1 that `extractCurrentParams` made up
  (`param-optimizer.ts:228`, `518`), where docs/dev-onboarding.md:384 says "the
  update is rejected and reverted".
* `ImportedOnce` allows one more import for a query of the flag that failed
  (`migrate.ts:50`).
* `EndsDurably` is about orderly ends: a reload and a fatal error end the process
  with writes under way. `NoOrphans` is about a supervisor that leaves in
  order: the forced kill ends the npm wrapper and, outside Windows, leaves the
  bot running (`start-all.ts:180`). A bot that exits with 0 after a signal it
  saw first is taken for a reload and started again (`start-all.ts:125`).

### Bounds

Requests, writes, crashes, concurrent scan bodies, lookups in flight, the range
of balances and the lag of a balance read are bounded by named constants. Three
writes are enough for a batch with a poison write between two good ones; two
flushes for one that overtakes a retry; two scans for an overlap and three for
an orphan beside a running and a waiting scan; two mints for competition for a
slot, three for one that is evicted from a history of two; two or three token
units for a partial sale; four for two partial sales and a runner; one slot in
the swing limit is enough for two loops to compete; two tokens and six requests
for a burst, a queue over several priorities and a refill above the cap; two
programs with a heartbeat on two endpoints, one of them dead, for a rotation
that helps and one that does not; two calls of a stream under way for a restart
that overtakes its predecessor; two broken connections and three updates for a
frame torn between them; two coins and two ladders, one of them unordered, for
ghosts that compete for the queue while the ladder is replaced; two rows for a
bucket that loses its only one; three trainings for one that fails between two
that end; two writes under way for a trade that lands during the shutdown.
Deadlock checking is off where the system stops for good: after a shutdown, a
dead worker or a sold position.

### Fairness

A thread that is not blocked goes on: weak fairness on each awaiting actor's
step and on the timers. `setInterval` and the event loop give that. Strong
fairness is used only for receiving a message (the worker's event loop is FIFO,
so a queued message is received although flushes keep disabling the step).
Nothing is assumed about the outside: a lock may never be released, an audit may
never answer and a price may never come, except where the code itself races the
call against a timeout; then the timeout is what is fair. So an awaited quote,
RPC answer, swap or audit of PositionExit ends, a balance read of Breakers ends,
and the requests and swaps of SwingLoops end: each carries a timeout. Likewise
every await of SwapExecution, RpcPool and SharedFetches ends; a usable endpoint
answers a handshake before it can be called stale (strong fairness in
`Subscriptions`, where restarts interrupt it); reconnect timers fire; the
ghosts' tick is an interval and the candidates the gate is asked about keep
coming; the watchdogs of a shutdown are timers of 10 s and 25 s. In Discovery
scans may hang, and only the chain's watchdog is fair. In TokenBucket time
passes, and an armed timer runs after a token is due.

## Proofs

The runs check small instances; the theorems hold for every value of the
constants that the named assumptions admit. An assumption says of what kind a
constant is (a limit is a natural number, a set of mints is finite) and, where
the code depends on it, how two of them compare. TLC evaluates each on the runs.
The theorems state the properties of the runs by name: every invariant of a
passing run, the three refinements, and the action properties
`HigherFirst`, `MoonBagExempt`, `PeakLoweredByTripOnly` and `PausesNeedNews`.

None of these invariants is inductive as it stands. Each module therefore names
the strengthening it proves, with one lemma per action or group of actions. A
theorem about a module that runs beside others is stated for the specification
of the composition (`RunSpec`, `TradingSpec`, `Spec` of `MCFeeds`): a step of
one part leaves the variables of the others as they are.

### StatePersistence_proofs

For every number of writes, requests, retries and crashes (`BoundsAssumption`,
`SwitchesAssumption`): `TypeCorrect`, `Invariance` (`Spec => []IInv`), the four
safety properties of the run (`AcknowledgedFlushesAreSettled`, `CommitsInOrder`,
`WritesHaveOneFate`, `ShutdownIsComplete`) and the refinement
`ImplementsWriteBehind` (`Spec => AbstractSpec`).

That an acknowledged flush is settled depends on the place each flush request
is in. `IInv` says that the committed part, the batch, the queue and the channel
hold consecutive writes (`QueuesInOrder`, `ChannelInOrder`), where the batch is
empty (`FlushPhases`), which promise a flush request carries through the
channel, the worker's list and the answer (`FlushesTracked`), and that nothing
follows a shutdown request (`ShutdownLast`). The refinement uses the same
invariant: a commit is a `Settle` because the batch continues the settled
writes, and a resolved flush is an `Ack` because its promise was carried along.
The variables of the abstract store are among those of the detailed one, so
`INSTANCE` maps each to itself.

### ScanPipeline_proofs

About scans that end within the watchdog's minute (`TimelySpec`); past it the
claims are false, as the run ScanPipeline_orphan shows. For any finite set of
mints, any scans, limits, pool sizes and settings (`LimitsAssumption`,
`SetsAssumption`, `ConfigsAssumption`): `PipelineIsConsistent`,
`MintsAreBoughtOnce`, `SlotsAreReserved`, `OverrunsAreBounded`.

`CInv` is the control: the head of the chain is the only scan whose body runs
(`Chained`), what a scan holds of a mint fits its phase, and nothing under work
has a verdict or is held (`WorkSound`), and the queue of verdicts names a mint
once, so that evicting one forgets no other (`VerdictsOnce`). `LInv` is the
limits: a pool has at most `HeavyConcurrency` workers (`PoolsBounded`), each
ordered buy has its funds but for those (`Funded`), and open positions and
pool of a launchpad together keep to the cap but for those (`SectorsBounded`).

`SignalsReachTheLoopOnce` is about `Discovery` in the composition (`RunSpec`,
`SignalsAssumption`). `SInv` adds to the types that a loop is in the chain once
(`LoopTypes`) and that what was offered is still remembered (`Remembered`).

### PositionExit_proofs

For any set of streams, amount, ladder and reserve (`ConfigsAssumption`,
`StreamsAssumption`): `ExitsAndEvaluationsExclude`, `LadderIsClimbedInOrder`,
`NothingIsSoldTwice` and the action property `RunnerStays`. An actor between two
awaits acts on what it read, so `IInv` relates what each one holds to what is
there: where an actor can be and with what (`PlacesSound`), that a sale under way
is of no more than was seen, less the runner (`OrdersSound`), and that the wallet
covers what the record and the actors of the tick have in mind until a shutdown
sells beside them (`Covered`). That the ladder is climbed in order
(`LadderIsClimbedInOrder`) compares two counts: the take-profit sales that landed,
and the rungs on record with the sales that failed after landing and the one that
still has to be booked. Each step under the lock of exits moves both alike, and no
other step moves either (`BookStep`).

### Gates_proofs

What stands between a mint and a buy: the breakers, and the candidacy itself.

For every limit, window, cooldown and number of restarts (`BreakersAssumption`):
`BreakersAreTyped`, `LossPausesKeepThePeak`, `MoodPausesNeedNews`. The two
action properties follow from invariants about the past: a pause that is not a
loss pause was set by a drawdown trip (`PausesExplained`), and without a new
outcome the latch covers the history in memory and in the database, from which a
restart reads it back (`LatchesCover`). Pause times are relative and an absent
one is the number `None`, which the assumption keeps below every time.

For any set of mints with any finite course of their pools, any settings, limits
and numbers of retries (`CandidacyAssumption`): `CandidacyIsSound` and the
refinement `CandidacyKeepsTheWay`. That a bought mint earned it (`BuysEarned`)
speaks of looks taken at different times, so `CandidateInv` says
what each earlier look left behind: how far the pool may have fallen while a
recheck is pending, one limit of the drawdown for the survival wait and one more
for each indexing lag, which repeats the final wait (`LooksBounded`); and what a
work item has shown once it is past the final audit (`AuditPassed`). The
refinement rests on the gates: the only mint put off for nothing is one that no
gate objects to but its age (`young`).

### SwingLoops_proofs

For any finite set of mints, limit, balance and setting (`SwingAssumption`):
`SwingIsConsistent` and `SwingLimitsAreKept`. The limit is overshot because each
loop counts for itself. `PositionsShared` gives every open position to a loop
that answers for it (`Share`: while it buys, what it counted or bought; between
turns, as many as a turn may leave); `BalanceKept` counts the buys under way as
paid, those of the sniper between check and debit included, and leaves one entry
for fast polling and one for each parallel final audit (`OtherBuyers`).

### Trading_proofs

The token bucket, for every rate and any number of requests
(`BucketAssumption`): `TypeCorrect`, `WaitersAreWatched`, `PrioritiesRespected`
and the refinement `ImplementsLimiter`. All rest on `ServedCorrect`, what the
loop of `processQueues` takes from the queues, and `ProcessQueuesCorrect`, what
one run of it does to the bucket. The credit of the abstract bucket is the
tokens plus the unclaimed intervals, cut off at the rate; a run of
`processQueues` is one grant or a stutter. `TradesArePaced` says that the parts
that run beside the bucket leave it alone, so the four hold of `TradingSpec`.

The rest of the run (`TradingAssumption`: assumptions of `SwapExecution`,
`RpcPool` and `SharedFetches`):

* `RetriesBuyOnce`. `SwapInv` numbers the orders of a call (`Numbered`,
  `Fetched`), says which path an order is on (`OnPath`), that a replaced order
  can no longer land (`Superseded`), and that a swap taken for done was seen to
  land unless its confirmation timed out (`Seen`).
* `SharingIsSound`, two claims. `RpcInv`: the errors of an endpoint and the
  requests to it that are still under way stay together within what benches it
  and one for each caller (`ErrorsBudgeted`), since a failed endpoint is passed
  over only by callers that read its health after the failure. `ValuesInv`:
  whoever waits for a fetch has asked for it (`WaitersAsked`).

### Feeds_proofs

For any set of programs, endpoints, sockets, controllers and updates
(`FeedsAssumption`): `FeedsHaveOwners` and `FramesArriveWhole`. `LogsInv`: the
watchdog waits for no call that is over, and owners exist only while the service
is started. `ClientsInv`: a connection that is up or coming up is the one its
client holds. `VaultsInv`: a derivation that nothing overtook is the only one, of
a position still open (`Undisturbed`). `GeyserInv`: the bytes in the buffer and
on the wire are whole frames until a connection broke inside one (`Whole`), and
what was handed over, what is on its way and what waits in the channel are in the
order of the validator (`HandedInOrder`, `Ordered`, `Queued`).

### Learning_proofs

`LifecycleIsSound` (`PendingAssumption`). Its three parts say what is true at an
end, so `IInv` says what is true before it: the flag is there whenever the trades
are (`Imported`), the count of exits matches the children that are gone
(`Counted`), what was asked of a process is forgotten with it (`AskedOfIt`), and a
closed worker has nothing left (`Closed`). `ExitKeeps` covers every way the
bot's process may end.

`LearningIsSound` (`LearningAssumptions`), about the ghosts, the gate with the
tuners, and the training, each with an invariant of its own. The assumptions
admit every ladder with a rung, in order or not, and every base score.

* `GhostInv`: each ghost has every rung its peak climbed to on the ladder in force
  when the peak was set, and none that no ladder it saw has below its peak
  (`PeakCredited`, inductive with the types; `HigherReaches`: what a price reaches,
  a higher one does).
* `LearnInv`: while fewer real trades have closed than the gate asks for, no more
  than those are among the recent ones (`TablesSound`); an active gate and a
  raised score have seen those real trades (`GateSound`, `ScoreSound`); and a
  gradient step, its rejection and any action of the policy leave rungs in order
  that were in order (`LadderSound`), for which the bounds of the second rung must
  lie above those of the first (as in `PARAM_SPECS`).
* `TrainInv`: a model in memory has the statistics of its weights unless it is the
  one in training or lame from a failed training (`MemorySound`), and each key of
  the last save that is settled holds what was to be saved unless its bucket is
  torn (`SaveSound`); a restart loads these keys.

### Only model-checked

* Liveness, which is out of the prover's reach like ENABLED: `Progress`,
  `ExitsReturn`, `SlowReturns`, `BuyingResumes`, `TradesEnd`, `QueuesDrain`,
  `FeedsRecover`, `LoopsGoOn`, `Decided`, `NothingHangs`, `ScanSettles`.
* Scans past the watchdog, where the claims about scans fail.

## Not modelled

Quote and fee arithmetic, indicators, gradients and inference, instruction
encoding, parsing, the status the bot publishes and the views that show it, and
the configuration: their results are choices in the modules above. The exits of
burst and swing positions, pyramiding and time decay are arithmetic over the
executor PositionExit has. The offline scripts read files and print. The
native library is called synchronously and keeps no state between calls that
the bot depends on but the weights, which `ModelTraining` has. The website
is a view but for its socket. `fetch.ts` is a call that answers or fails: its
retry of a request that was executed matters for swaps only, whose
submissions SwapExecution repeats.

One detail of the persistence layer is only stated here: a flush requested
after the worker died is never answered (`_worker` keeps the dead thread), so
`performShutdown` would wait for ever; the liveness properties therefore speak
of requests made before the death is known.

## Plan

What further work would add, in order:

1. Which writes belong to one exit, composed with the crash of
   StatePersistence: a balance credited for a position that is still open.
2. The burst and swing ladders as configurations of PositionExit.
3. The backpressure of scans, and the priority of work items over slots.
