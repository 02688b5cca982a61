# A formal model of PUNKLABZ TERMINAL

TLA+ modules, TLC configurations and TLAPS proofs about the server in this
repository. Paths below are relative to `src/`; `live/` means
`server/src/live/`.

    tlc -workers 2 -config OrderCrash.cfg OrderExecution   # one run
    tlapm OrderExecutionProofs.tla                         # one proof module

`PROJECT.json` lists the runs, the source lines behind every definition, the
hazards, the findings and the theorems.

## 1. Inventory

The server is one Node process (Fastify, better-sqlite3, viem). JavaScript runs
one task at a time and switches tasks only at an `await`; database calls are
synchronous. So the code between two awaits is atomic, and everything hard
comes from what is read before an await and used after it, from timers and
request handlers that interleave at awaits, from a crash between two steps, and
from requests to the chain, the signer, Stripe, X or the model provider whose
answers are lost or late.

| Component | State | Operations | What is hard | What makes it correct |
|---|---|---|---|---|
| Transaction coordinator (`live/transactionCoordinator.ts`) | `execution_transactions`, `execution_leases`, the in-memory `walletQueues` | `submit`, `recover` | two RPC awaits between check and INSERT; re-signing and re-sending after a crash; `recover` beside `submit`; the lease | one transaction per key, one unresolved per wallet, bytes stored before sent, terminal states only from receipts |
| Order execution (`live/liveNetwork.ts`, `live/adapters/zeroXRobinhood.ts`, `live/settlement.ts`) | `live_orders`, `live_ledger`, `execution_asset_ledger` | `mirrorTrade`, `placeOrder`, `getOrderStatus`, `settleConfirmedOrder` | approvals before swaps, deadline on a quote, lost answers | one fill and one ledger posting per intent, no fill lost in silence |
| Supervisor and reconciler (`live/supervisor.ts`, `live/reconciler.ts`, `live/preflight.ts`) | `live_config`, `reconciliation_runs` | `boot`, `arm`, `armShadow`, `promoteStage`, `enableCanaryAutonomy`, `pollPendingOrders`, `recoverPendingOrders`, `reconcileAll` | recovery at run time beside trading; gates that check, await, then act | ambiguity halts; a halt is lifted only on fresh evidence |
| Risk engine (`live/riskEngine.ts`, `live/botCapital.ts`, `live/edge.ts`) | `live_config`, commitments read from `live_orders` | `evaluateIntent`, `haltNetwork`, `setLiveMode`, `setCapitalStage`, `enableCanaryAutonomy` | caps checked against in-flight orders; evidence that goes stale | real orders only when armed; commitments stay under the caps |
| Canary experiment (`live/canaryExperiment.ts`) | `canary_experiment_runs` | `start`, `advance` | a timer that advances a run across crashes; two starts at once | at most one open run, exactly one buy and one exit per run |
| Full market (`live/pairScanner.ts`, `live/tradingCouncil.ts`, `live/fullMarketController.ts`, `live/fullMarketAutonomy.ts`, `live/swapIntent.ts`) | sweeps, council sessions, directed orders | `runSweep`, `runTradingCouncil`, `runFullMarketCycle`, `placeSwapIntent` | a council given up as stale that still spends; approvals, quote and signature of a swap each await a world that moves | the month's budget, exact allowances, a signature on what is still true |
| Scanners (`live/opportunityEngine.ts`, `live/edge.ts`, `feeds/candles.ts`, `feeds/memeFeed.ts`) | opportunities, predictions, the memory of emitted keys, bars | a pass, a minute, a poll, boot's backfill | a memory that is full or dies; a minute that comes late, in part or never, a backfill that stores the bar still forming | an idea is said once, of a bar that is over; when that bar may not be whole |
| Signing and custody (`live/signing/*`, `ops/mainnetExperiment.ts`, `ops/sweepToOperator.ts`) | the wallet's policies at the service, the operator's files, funding receipts | provision, isolate, fund, fund-usdg, top-up-gas, sweep; the server's signature | a ceremony killed between swapping a policy and putting it back, then run again | one payment, the policy restored, nothing leaves for a stranger |
| Delegation (`live/delegation/*`) | `delegation_grants`, usage rows, the revocation cache | create, activate, revoke, reserve, settle | a revocation racing a reservation; usage limits over windows | a revoked grant signs nothing; usage stays inside its limits |
| Billing (`billing/*`) | subscriptions, payment intents, ledger entries, webhook events | checkout, webhook, USDG submit/verify, reminders, expiry | duplicated and reordered webhooks; one payment claimed twice; periods that overlap | one credit per payment, access exactly while paid |
| Manager payouts (`manager/*`) | epochs, payouts | `runEpoch`, queue, distribution | shares rounded down, whose dust stays with the platform, carry-over, retries | nothing paid twice, paid plus carried equals earned |
| Paper engine (`engine/*`, `execution/*`) | positions, trades, `ledger` | tick, open, close, fees | one position per bot and symbol; integer money | the books balance |
| Intern publisher (`intern/*`) | posts, publish attempts | draft, approve, publish, retry | the POST that succeeded and timed out; daily caps; claims across restarts | at most one publication per post |
| Research window (`research/*`) | windows, predictions, budget rows | start, tick, reserve, settle, score | the window's end racing a model call; a reserved budget never released | spend under the cap, predictions scored once |
| Robinhood registry (`robinhood/*`) | snapshots, multipliers, freezes | refresh, apply, freeze | a multiplier that takes effect later; a stale snapshot | no trade on a frozen or stale instrument |
| Accounts (`auth/*`) | users, wallets, Privy links, sessions | sign up, log in, link, unlink, merge | every hash, signature check and answer of Privy gives other requests a turn | one account per email, wallet and cookie; a way in; one signup credit |
| Desk (`toolkit/forum.ts`, `research/discussion.ts`, `research/budget.ts`) | budget rows, cooldowns, threads | answers, heartbeat, remarks, sessions | the budget is read before a request and written after it; nothing but a cooldown keeps two answers or two sessions apart | overspending is bounded by the jobs in flight |
| Seasons (`social/*`) | seasons, results, XP | close, award, start | a crash between the commits of one close | an owner is paid once per season, one season is open |
| Feeds (`feeds/*`) | sockets, timers, the engine's stale flag | connect, watchdog, reconnect | a connection that stays open and says nothing | it is open again in the end |

How they interact. A strategy trade in the paper engine is mirrored by
`LiveNetwork.mirrorTrade`, which asks the risk engine, then the adapter; the
adapter hands calldata to the coordinator, which signs, stores and sends. The
poll, the boot sequence and the arming gate each ask the adapter about orders
and settle them. Any of them may halt the network, which the risk engine reads
at the next intent. The canary, the full-market controller and delegation are
other callers of the same path.

Components that are not modelled, and why, are listed in `PROJECT.json`
under `components`.

## 2. Plan

Order of work, the most important behaviour first:

1. `Chain`, `Coordinator`, `CoordinatorSpec`: money leaves the wallet only here. *(done)*
2. `OrderExecution` over `Coordinator`, refining `Fills`. *(done)*
3. Proofs about 1 and 2, with one server process for what needs it. *(done,
   section 6)*
4. `LiveControl`: `live_config`, the halt, the ceremonies of the supervisor and
   of the full-market launch, reconciliation, boot and the canary round trip.
   *(done, every property of its run proved)*
5. `Delegation`: the life of a grant, the revocation cache, the two gates of a
   delegated buy. *(done, every safety property of its run proved)* The caps, the
   account's ceiling and the usage ledger are left: only tests call
   `reserveSpend`, `settleSpend` and `releaseSpend` so far.
6. The members' side: `Membership`, `Webhooks`, `Reminders`, `Identities`,
   `Payouts`. *(done)*
7. What the bots say and learn: `Publisher`, `Desk`, `Windows`, `Claims`,
   `Seasons`, `Scanner`. *(done)*
8. The markets' side: `Exposure`, `FullMarket`, `Swap`, `Universe`, `PaperBook`,
   `Feeds`. *(done)*
9. Custody: `Enclave`, `Custody`. *(done)*
10. Theorems about 6 to 9: every safety property of `Services` and `Markets`, for
    each part and for the composition. *(done)*
11. The usage ledger of delegation, once a caller exists. *(left)*

One run with several properties per module is the aim, and few runs in all:
the modules of 6 to 9 share a process and little else, so `Services` and
`Markets` compose them and check all of them in two runs. No module uses a
RECURSIVE operator.

## 3. Modules

| Module | Models | How state and actions correspond |
|---|---|---|
| `Chain` | the RPC endpoints, the pool, the chain (external) | `wire` holds bytes on their way; a timeout does not recall them; `Arrive`, `Evict`, `Mine`, `Finalize` |
| `Coordinator` | `TransactionCoordinator` | `row` is `execution_transactions` by idempotency key, `queue` is `walletQueues`, `lease` the lease's owner, `task` where each caller and each `recover()` stands between two awaits, `scan` the rows `recover()` selected |
| `CoordinatorSpec` | the coordinator under arbitrary callers | callers may resubmit a key; crashes, restarts, run-time recovery |
| `MCCoordinator` | `CoordinatorSpec` on a small instance | the symmetry of processes and signatures |
| `OrderExecution` | `mirrorTrade`, `placeOrder`, `getOrderStatus`, settlement, poll, boot, gate | `job` is where `placeOrder` stands, `order` the `live_orders` row, `ledger` the count of ledger rows, `halted` the config flag, `poll` and `redo` the snapshots the loops work from |
| `Fills` | what execution promises | one execution and one posting per order |
| `LiveControl` | `live_config`, its writers, the ceremonies, `boot`, the round trip | `cfg` is the `live_config` row, `recon` the newest reconciliation row and whose pass it is, `run` and `order` the rows of each round trip, `adv` where `advance()` stands, `op` where each admin request stands, `boot` where `boot()` stands |
| `MCLiveControl` | `LiveControl` on a small instance | the symmetry of runs |
| `Delegation` | `grants.ts`, `revocationCache.ts`, the routes of `delegation.ts`, the gates of a buy | `grant` is the `delegation_grants` row with what its provider account adds, `recon` the account's newest reconciliation row and whose pass it is, `refused` and `hydrated` the cache, `op` where each request stands, `spend` a buy between `evaluateDelegation` and the router |
| `Membership` | `usdgMembership.ts` | `intent`, `receipt`, `bought` are the three tables, `claim` where each confirm request stands, `audit` what the hourly audit has yet to look at, `onChain` what the chain says (external) |
| `Webhooks` | `stripeProvider.ts`, the webhook route | `stripe` is what Stripe made, `journal` the `billing_events` row of each event, `member` and `payment` the two rows they write, `lookup` refunds whose invoice is asked for |
| `Reminders` | `reminders.ts` | `notice` is one `billing_notifications` row, `mails` the requests to Resend without an answer, `delivered` its memory of the idempotency key |
| `Identities` | `auth.ts`, `privyIdentity.ts`, their routes | `user`, `link`, `privy`, `nonce`, `session` are the tables, `request` where each browser's request stands |
| `Payouts` | `managerAgent.ts`, `payoutMath.ts`, `payoutQueue.ts` | `epoch` and `item` are the tables, `sends` counts calls of the signer, `payRun` is where each run, approval or distribution stands |
| `Publisher` | `intern.ts`, `apiXAdapter.ts`, their routes and the article script | `post` is `intern_posts`, `slots` the quota's rows, `taken` and `posts` count slots and calls of X ever made, `caller` is where each caller stands |
| `Desk` | `forum.ts`, `discussion.ts`, `budget.ts` | `spent` is the month's budget, `cooldown` the rate limits that refuse, `job` the answers, remarks and sessions under way, any number together, `crowd` the most there were (ghost) |
| `Windows` | `window.ts` | `limits` is `limits_json`, `window` the rows, `base` the limits last in force with no window |
| `Claims` | `predictions.ts`, `scoring.ts` | `claims`, `scores`, `weights` are the tables |
| `Seasons` | `seasons.ts`, `xp.ts`, `badges.ts` | `season`, `standing`, `finish`, `tradeXp` are the tables; the standings are free |
| `Scanner` | `opportunityEngine.ts`, `edge.ts`, `candles.ts`, `memeFeed.ts` | `minutes` and `bars` are the stored candles of the minute and of the interval, `heard` and `boot` how far feed and backfill are, `trending` and `seen` memory of the process, `ideas` and `staked` what a pass wrote |
| `Enclave` | `live/signing/` and the service (external) | `vault` is the wallet's owner, its policies, and how the server's key is attached to it and with which policy of its own; `asking` and `stray` are the server's own signer |
| `Custody` | the operator's commands over `Enclave` | `run` is where the command stands, `file` what it left on disk, `sent` and `held` the chain, `booked` the funding receipts |
| `Exposure` | `evaluateIntent`, `snapshotPortfolio`, the swap's intent, allocations, stages, the launch | `book` is `live_orders`, with the reserve a swap was judged by (ghost), `cash` the custody ledger's USDG, `auth` the capital authorised at the launch, `alloc` the allocations |
| `FullMarket` | sweeps, councils, the cycle | `sweeps`, `councils`, `swaps` are the tables, `cycle`, `pairScan`, `panel` what is at work in memory, `enabling` a launch under way |
| `Swap` | `placeSwapIntent`, the reference price, the cycle's failure path, what the bots' `placeOrder` sends over the same allowance | `job` is where it stands, `grant` the allowance on the chain, `txs` the wallet's transactions, `ref` the newest reference price, `sent` the swap that was broadcast as it was then |
| `Universe` | `assetRegistry.ts`, `corporateActions.ts`, `universe.ts`, `universePolicy.ts` | `registry`, `corporate`, `pinned`, `policy` are the tables, `refresh` each refresh under way, `privy` what the service enforces, `readBack` a request that awaits it |
| `PaperBook` | `engine.ts`, `accounting.ts`, `paperExecutor.ts`, the strategies, the bots' routes, `backtester.ts` | `account` is the bot's cash, position and sums, `botRow` and `loaded` its status in the table and in memory, `replay` the backtester's account over the same bars |
| `Feeds` | `feed.ts` and the three sockets | `socket` is the connection, `due` the reconnect timer, `told` what the engine was told |
| `Services`, `Markets` | the composition of the modules above | `part` is which of them moves |
| `Sums` | nothing of the code | lemmas about the community modules' sums over finite sets |
| `CoordinatorProofs`, `CoordinatorSpecProofs`, `OrderExecutionProofs`, `LiveControlProofs`, `DelegationProofs`, `ServicesProofs`, `MarketsProofs` | theorems | section 6 |

An action is the code between two awaits, whole: a refused request in
`OrderExecution` includes the order update and the halt its caller makes,
because promise continuations run before any other task. Actions named
`...Reply` and `...Error` are the two ends of an awaited request. Definitions
whose comment says *mutant of* are the plausible bugs the properties must
catch; no specification uses them.

Abstractions of the execution modules. Amounts, prices, gas, fee rows and texts
are left out; a transaction is identified by its key, its nonce and the version
of its signature. Time is three facts: a quote has `expired`, a row is `aged`
(15 minutes), a lease has lapsed. `recover()` and the recovery of orders take
their rows in any order. A task's first step, after its turn in the queue comes,
is an action of its own, so other tasks may run in between: more behaviours
than the event loop has, never fewer. A process runs one poll and one recovery
at a time. Chain reorganisations deeper than twelve blocks are excluded;
shallower ones are not modelled, since the code acts only on a receipt's
status and on twelve confirmations.

Abstractions of `LiveControl`. The path of an order to the chain is
`OrderExecution`'s: here a query about an order answers anything the adapter may
say (`Answers`), and a pass over the orders is one step. The signer's identity
is fixed and the checks of preflight that read the signer, the RPC, balances,
gas and versions are `GiveUp`, a ceremony that ends at any step. The capital
stages are `0 .. TopStage`, the last being the one live mode asks for. Orders
that belong to no round trip are left out; what they do to the configuration,
halting it, is `HaltNetwork`. A run of an older version, left with a sale
refused for its size, may be there from the start, since no code that still
exists writes one.

Abstractions of `Delegation`. What the owner's session, the provider, the
sanctions screen and the decoded transaction say is `GiveUp`, or an action that
is not taken; each provider question is one await. The policy that activation
applies follows without another task in between, so it belongs to that step.
The timer's pass over the listed accounts is a `Reconcile` like the owner's.
Exits pass both gates and are left out, as are the wallet's state for display,
the usage ledger (section 2) and venue cancels: no adapter has
`cancelOrder`. Of `evaluateDelegation` the status, the expiry and the signer are kept;
its caps are left out. No
caller hands the router a grant yet; the gates are modelled as
`evaluateIntent` and `execute` accept one.

The composition. The modules of `Services` and `Markets` write none of each
other's tables, but in ways each models itself (a tax is a debit of credits, a
halt a flag). A product of all their states would show nothing that each alone
does not, so a behaviour of the composition is one of a single part and the
others rest in an initial state: every part's whole state space is searched, and
no product of two.

Abstractions of the parts, beyond what each module's head says:

* Money is small integers, so that shares, reserves, averages and rounding are
  computed by the code's own formula (`Payouts`' floors, `Exposure`'s
  percentages, `PaperBook`'s average cost, `Claims`' Brier score, `Swap`'s basis
  points). Where the code goes through floating point, the model is exact, but for
  `PaperBook`'s average price, which is rounded to the unit of money.
* What an outside party decides is free: the standings of a season, a filter's
  verdict, a model's vote or answer and its cost, a price, a rank, what the API
  lists, whether a request fails.
* A request to an outside party has up to three ends: done and answered, done and
  the answer lost, not done. `Custody`, `Payouts`, `Publisher` and `Reminders` use
  all three.
* `Enclave` and `Custody`: addresses are parties, calldata is which asset goes to
  whom and how much at most. The service takes a request as the owner's when it
  comes with the owner's signature; the server signs as itself. Synchronous
  database sections of a command are atomic; nonces, gas amounts and fee
  arithmetic are left out. A withdrawal policy's cap is all that was held.
* `Swap` starts where `FullMarket` has an approved intent. The bots' orders are what
  they may do to the allowance at any time, an approval or a sale of any amount,
  each taking the wallet as the coordinator grants it. What becomes of the
  coordinator's rows is `Coordinator`'s; here a transaction is mined, or not, at
  any time after it was sent. Time counts quote lives, and the two `Price` gates,
  before and after the approvals, compare against it.
* `Scanner`: one major, one scanner and the interval that a backfill stores too
  stand for all of them, since keys hold the symbol; a minute's row is whole, in
  part or absent. A pump.fun token makes an idea per launch, a trending one per
  bucket. Rows are written in the order of their times, so those older than a day
  are the first.
* `Desk`: money is counted in the reserve of one request. The sessions' kinds share
  one budget and have a cooldown each; a place of the model is a job under way.
* `Exposure`: what the chain says of an order is free, and one whose outcome nobody
  can say is `unknown`, be its row reconciling or its transaction unresolved.
* `Publisher`: whether the content filter lets a draft pass is one free bit.
* `Universe`: a value is right when it is the chain's. The symbol and the
  decimals are kept apart, since an upsert replaces one without the other.

## 4. Runs and bounds

| Run | Question | Bounds |
|---|---|---|
| `Coordinator` | Are bytes stored before they are sent, never replaced, and is a row ended only by its receipt, whoever calls? | one order (two keys), two processes, one caller in each, two signatures, one nonce, one crash, one run-time recovery |
| `OrderCrash` | Are fills neither lost nor doubled when the process dies? | two orders, one crash, two nonces |
| `OrderGate` | Does the ledger follow the chain beside run-time recovery, an approval and odd receipts? | one order and its approval, two signatures, two nonces, one gate |
| `OrderLiveness` | Is a pending order resolved, does every placement end? | two orders, one crash |
| `LiveControl` | Do halts, ceremonies, passes, round trips and a restart in any order keep the rules? | two round trips, one admin request, two stages, one crash |
| `Delegation` | Does a grant that was stopped stay stopped, in the row, in the cache and at the router? | one grant, three overlapping requests, one crash |
| `Services` | Do the members', the bots' and the custody components keep their promises when requests, crons, crashes and lost answers interleave? | two intents, transactions and claims; two holders, runs and epochs; two publishers, three posts; three windows; two users, two wallets and one email, two browsers; one person who posts, two kinds of session of two turns, two jobs together and a budget of one; three claims; three bots, two seasons' ends; three runs of a command; one launch, one trending token, bars of two minutes, three minutes, two boots |
| `Markets` | Do the entry limits, the paper book, the registry, Stripe's rows, the mails, the feeds and a directed swap stay right when what they read moves? | two pairs and roles, two sweeps; two bots and a council, two orders, three stages; one token, two overlapping refreshes, two snapshots and policies; five fills at two prices; three events of Stripe, two refund handlers; three attempts of a mail, two passes; two swaps and a transaction of the bots over two ticks |
| `OrderRefilled`, `OrderLostFill`, `LaunchMoved`, `RevokedReturns` | section 7 | the smallest that show it |

Why these are enough. Two keys of one order are what the rule of one
unresolved transaction needs to be broken; two processes contend for the lease
and the nonce; two signatures let a re-signed row differ from the first; the
crash may fall at every await. Two orders give a queue with a waiter. In
`LiveControl` a ceremony overlaps with the timer's pass, the round trip's own
pass, the sentinel and the orders' polls; two ceremonies at once add no write
that one and those do not make, and the theorems hold for any number. A second
run is what the rules about runs speak of: another that is open, another whose
position is left over. One completed run, then a crash, reaches every branch
of boot. In `Delegation` no action reads two grants, so one is enough; of its
three requests two can be passes whose rows close out of order while the third
activates. In `Services`, two of each actor is what an overlap needs: two claims of one
transfer and one transfer for two intents, two browsers that merge one account,
two runs over one period, a command killed twice and run to its end. A window
may open over an elapsed one and again over both. `Full = 3` and `Keep = 2` let
the scanner's memory overflow (4000 and 2000 in the code) within two buckets of
time; a bar of two minutes is judged before and after it is over, and its first
or its last minute may be missing or late. Two jobs of a desk overlap in each way
two can, chat with chat and sessions of two kinds on one budget. In `Markets`,
two swaps let the second find what the first left: an allowance, a pending
approval, a halt; the amounts lie at and above the policy's cap, and a
quote may be too low for the slippage or for the price. Two refreshes and two
policies are the overlap and the change of mind. Three events of Stripe are a
state, a newer one and one that comes late. Two orders of
`Exposure` are open together with a reserve of nine tenths, so that one fill moves
what the other may spend, and a promotion may come between two swaps.

The bounds of `Services` and `Markets` keep each run within minutes. Apart, the
same modules were checked over larger ones without an error: `Desk` (1.3 million
states), `Scanner` over four minutes (1.3 million), `Exposure` with other
allocations (0.9 million), `Swap` with two prices, three ticks and a slower quote
(2.4 million).

The symmetry sets (`Alike`) permute values that no action tells apart,
and no property of those runs is a liveness property.

Deadlock is checked in `Coordinator`, `LiveControl` and `Delegation`. In `Services`
and `Markets` a part stops when its bounds are used up. In the order runs the
system really stops when every order is over and the bounds are used up.

## 5. Fairness

Three runs need it. In `OrderLiveness` the event loop runs what is ready, and each
request to the RPC or the signer is answered or times out (`chain/rhChain.ts`
sets 12 s and two retries), so the steps of a placement and of `recover()` are
weakly fair. Nothing is assumed about the pool: a transaction may never be
mined. The poll is a 30-second timer; that an order is resolved also needs that
a receipt, once final, is in the end read as such: each poll may read a stale
block, so that step is strongly fair. Clocks advance.

In `Delegation` expiry is an hourly cron and the service is started again when
it dies (`Restart=always`), so `Expire` and `Boot` are weakly fair; no request of
the owner's is.

In `Markets` each liveness property has the fairness of its own module. Feeds:
silence grows old, the watchdog is a 10-second interval, a socket that was ended
reports its close, the reconnect timer fires, a dial ends (all weakly fair); and
an exchange that is dialed again and again answers at last, so `Opens` is
strongly fair. Webhooks: Stripe delivers an event again until it is
acknowledged, and a claim older than its lease is taken over (weakly fair); the
request for a refund's invoice may fail, but not for ever (strongly fair).
Reminders: the pass is an hourly cron, a request ends, an hour and a quarter of
an hour go by (weakly fair); that Resend ever accepts is not assumed, so a mail
may end as failed.

## 6. Proofs

`CoordinatorProofs` holds the lemmas about single steps of the coordinator, `Sums`
those about sums over finite sets; `CoordinatorSpecProofs`, `OrderExecutionProofs`,
`LiveControlProofs`, `DelegationProofs`, `ServicesProofs` and `MarketsProofs` hold the
theorems. Every safety invariant and action property of a passing run is one of
them, or part of one.

Assumptions are the named ASSUMEs of the modules the theorems are about, and
nothing else. Bounds are naturals; null values are no members; tasks, people and
crons are disjoint; the sets that are counted or summed over (transactions,
holders, callers, bots, people, tokens) are finite. Where the arithmetic needs
it: prices and amounts are positive, a day's trade earns something, percentages
are at most a hundred, stage 1 exists and a higher stage has no smaller capital
(`CAPITAL_STAGES`), the scanner keeps a key at least and no more than it may hold
(2000 of 4000), and Privy's identity has an email or a wallet. Orders, processes,
signatures, nonces, runs, grants, requests, events, windows, bots, stages and
crashes are arbitrary.

Each theorem has an inductive invariant, and a lemma per action that keeps it.
What it adds to the property is what the code relies on without saying so:

**The execution path**, for any callers, processes and run-time recovery.

* `TypeCorrect` (four specifications): the state is well typed.
* `DurableFirst` (both execution specifications): what an endpoint may have seen
  is what the row holds, the class comment's promise of `TransactionCoordinator`.
  `DurableBeforeSent` is not inductive: a send in progress, a stored signature and
  the snapshot of `recover()` each carry a transaction that may be put on the
  wire later. The invariant adds that a row's transaction is of its own key and
  nonce (`RowShape`), that a snapshot's bytes are the row's (`SnapShape`), that a
  task's `tx` is its row's (`SendShape`) and that the program counters fit their
  keys (`PcShape`).
* `BytesStay`: once stored, signed bytes are never replaced. From the same
  invariant: `Stored` writes only over a `prepared` row, which has none.
* `TerminalTheorem`: a row ends only by its own receipt. The invariant is the one
  above; with it, a step that ends a row goes by the receipt of the row's own
  transaction (`SettledRows`), and receipts stay (`ReceiptsStay`).
* `LedgerSound`: a posting is for a final, successful swap of that order, once.
  Adds `ChainInv` (what is mined was sent, one receipt per nonce, final implies
  mined) and the references that orders, polls and recoveries hold: they name
  transactions of that order's swap.
* `FillsAtMostOnce`: `OrderExecution` implements `Fills`. Init maps to Init; of the
  steps, only `Mine` of a successful swap maps to `Execute` and only `Settle` to
  `Post`, all others stutter. One execution per order follows from
  `DurableBeforeSent`: there is only one transaction per key to be mined.

**The execution path with one server** (`OneUnresolvedTheorem`, `FilledTheorem`,
`NoSilentFillTheorem`, `AmbiguityTheorem`). Their hypothesis is `Alone`: one server
process, and `recover()` at boot only, as `server/src/index.ts` runs it. It is
there because it is needed: with a gate, recovery beside placements, the runs
`OrderRefilled` and `OrderLostFill` find the properties violated (section 7). The
invariant `Steady` says where everything stands between two steps: how far an
order's row, job and task have come together (`Stages`, `JobTask`), that the queue
serves one placement (`Turns`), that one row at most is open and boot has resolved
it before another is (`OneOpen`, `Stopped`, `Clear`), that what recovery and the
polls selected is still so (`Scans`, `Snapshots`), that a fill is in the ledger
exactly when the order says so (`Filed`), what a row tells of the chain (`Told`,
`Refs`), and that a process that serves beside an order in doubt is halted
(`Halting`). TLC checked the same formula on one order with two crashes and two
orders with one.

**Live control and delegation.**

* `HaltTheorem`, `ProofTheorem`, `OneRunTheorem`, `SoldOnceTheorem`,
  `ProofExactTheorem`, `BootTheorem`: every property of the `LiveControl` run. None
  is inductive alone. `Inv` adds what each handler still relies on when an await
  ends: an enable request under way has a completed run behind it, which no
  step takes back (`OpInv`); the run that `advance()` has in hand is open, in the
  state it was left in, and its order has been sent (`AdvInv`); an exit's row exists
  only beside a sale refused for its size, and a run that is neither bought nor
  open has no sale (`OneSale`); while boot runs no ceremony does, so a halt that
  boot found is still there when it judges (`BootInv`). The same formula was
  checked by TLC on the bounds above.
* `CacheTheorem`, `FitTheorem`, `SpendTheorem`, `FinalTheorem`: every safety property
  of the `Delegation` run. `CacheCovers` alone is inductive but says nothing of a
  buy already approved; the invariant adds that such a buy's grant had its signer
  and has been active (`ApprovedBound`), so that what the cache lets through is
  active still, that a signer is only ever bound to a funded wallet
  (`SignerFunded`, which resumption relies on), and that no request and no approval
  outlives the process (`Quiet`).

**Services.** `ServicesTheorem`: the nine properties of the run hold of the composition. A
step of `Services` is a step of one part or leaves it alone (`ServicesSteps`), so
each part's own theorem carries over.

* `MembershipTheorem`: each payment buys a period. Adds that what is recorded was
  bought by a receipt of its own (`PeriodsRecorded`) and how periods lie one after
  the other when some were taken back (`Laid`).
* `PayoutTheorem`, `PaidOnceTheorem`: shares add up to no more than the profit. By
  the lemmas of `Sums`, quotients rounded down sum to no more than the whole; what
  was cut off stays with the platform (`payoutMath.ts:32-35`). `PaidOnce`, an action property,
  adds that one run holds an item (`OnePayer`) and that nobody is called more than
  three times (`SentThrice`).
* `PublisherTheorem`: a post had its slot. The slots that callers have taken and not
  yet used (`Owed`) are added up: posts and those together are no more than were
  taken.
* `LimitsTheorem`: with no window left, the limits are those there were before.
  `LimitsReturn` says nothing while a window is open; the invariant adds that the
  oldest window not closed remembers those limits (`Remembers`) and that rows are
  used in order (`InOrder`), so that one opened over another is never the oldest.
* `IdentityTheorem`: accounts keep a way in. Adds that the signup credits are given
  where the account is made (`SeedsOnce`), that two accounts share no email and no
  wallet (`Apart`), that links and sessions lead to accounts that exist (`Present`),
  which each have a password, a wallet of theirs or Privy's email (`Keyed`), that a
  request under way has the email or the wallet it asks for (`RequestsAbout`), and
  that what is merged away is empty (`Blank`).
* `OverspendTheorem`: what may be spent beyond the month's budget, by how many jobs
  were at most under way together. Adds that a request was made only while there
  was budget and that a session has no more than its turns to go (`Paid`), that
  the most counted is no less than those under way now (`Noticed`), and what has
  been spent for each number of those (`ChatBound`, `SessionBound`).
* `StandingsTheorem`: a season pays an owner once and for the best of his bots,
  weights are earned. Adds that seasons are closed in turn, whatever boot and the
  timer repeat (`InTurn`), that an owner was paid for his best place in a season that is
  closed (`PaidForBest`), and by how much a day may pass the cap (`Capped`); for claims, that the weights are
  the evidence of the resolved claims, unless a death left them behind.
* `CustodyTheorem`: an operator's command leaves custody as it says. Adds
  which steps a command has (`Ceremony`), that a top-up keeps the policies it found
  in its file and the other commands in memory (`FoundInFile`), that a wallet found
  without a policy never wears the standing one, but by `provision` (`Guards`), that
  each leg of a payment is signed once (`SignsOnce`) and booked when it arrived
  (`Books`), and that gas leaves when all else has (`Empties`). TLC checked it with three runs of a command.
* `IdeasTheorem`, the third part of `StandingsSound`: what the scanners say, they say
  once and of bars that are over by the clock. Such a bar is whole, or has a gap,
  or a backfill stored it while it was forming and its last minute has not come:
  `candles.ts` rolls up whatever minutes there are, and a pass goes by the clock.
  Adds that a row of this process is remembered or followed by as many rows as the
  process keeps keys (`Memory`), and what each stored bar is (`BarsClosed`). A pass
  is a recursive function over a list; a smallest step at which the invariant fails
  does not exist.

**Markets.** `MarketsTheorem`: the six safety properties of the run hold of the
composition, by
the same argument (`MarketsSteps`).

* `ReserveTheorem`: a cash reserve stays in the wallet. Of the bots' orders alone it is
  the stage's; of the council's swaps alone the one the newest was judged by, which
  is lower than the stage's after a promotion, since the authorised capital stays as
  the launch set it and `promotionEvidence` does not count a swap that is only
  approved. `Solvent` counts buys in doubt with the open ones (`Unsettled`):
  `snapshotPortfolio` stops counting such a buy, but it may still take its cash.
  While the network runs nothing is in doubt, because doubt halts; a launch that
  lifts such a halt is excepted (`blind`), and so is the case in which bots and the
  council both buy (section 7).
* `CouncilTheorem`: a month's councils cost no more than the budget and a call per
  run. Each row claims its ceiling while it runs, its cost less the last call when
  it is closed, and nothing once it is stale; the claims together fit the budget
  (`ClaimsFit`), and panels at work have rows of their own, below the ceiling
  (`Panels`).
* `UniverseTheorem`: what may trade was verified by the chain. Adds that a verified
  row has the chain's decimals (`VerifiedByChain`), that a refresh only asks about
  tokens that were listed (`DueIsListed`) and that what was observed was read back
  (`ObservedWasRead`).
* `PaperTheorem`: the books of a bot balance and its replay books the same, for any
  positive prices. Adds that what is missing is what the averages were rounded by,
  less than a unit a fill (`Missing`), and that a bot that could not pay may run
  again only when it was started or the process died (`UnpaidSoFar`).
* `NewestTheorem`: a membership's rows say what the newest event processed said. Adds
  that a row says what the event it is stamped with said (`MemberNamed`,
  `PaymentNamed`), that it is no older than any event processed (`EventsFresh`), and
  that what is journalled or looked up was made, and is a refund in the second case
  (`Delivered`).
* `SwapTheorem`: what is signed is priced in time and covered, and the wallet grants no
  more than is sold, or than a bots' approval named that was mined after the swap
  last knew the allowance. Adds that one swap is placed at a time (`OnePlacing`), how
  old a price may be at each await (`PriceAges`), that the quote in hand passed its
  checks (`QuotePasses`), that what was granted only shrinks but for what the bots
  approve (`GrantedExactly`), and what was booked (`GasBooked`).

Model-checked only: `PendingResolves`, `PlacementEnds`, `DueStops`, `FeedRecovers`,
`RefundIsBooked` and `MailEnds`, which are liveness properties and out of the
prover's reach. No theorem rests on induction over data: sums and the scanner's
fold are reasoned about by a smallest counterexample. The type invariants of the
specifications with a theorem about them are proved and not run again.

## 7. Findings and observations

Four findings are runs that must end in a counterexample; `PROJECT.json`
quotes the lines.

* `OrderRefilled`: run-time `recover()` writes a filled order back to pending
  for good.
* `OrderLostFill`: a confirmed swap is taken for a confirmed approval and the
  order is written off without a halt.
* `LaunchMoved`: the full-market launch reads mode and stage before its awaits
  and writes autonomy after them, so it may open in simulation.
* `RevokedReturns`: activation reads the grant's status before it asks the
  provider about the signer and not again, so a grant revoked meanwhile comes
  back active.

The first two need `recover()` at run time, that is, an admin call that passes
through `safetyGate` or `armShadow` while an order is in flight. Met while
modelling, and true of the models, but not kept as runs:

* The lease is not renewed: two processes can each open a transaction of one
  wallet (`OneUnresolved` fails in `CoordinatorSpec` with two processes).
* "transaction was not sent" may be reported of a transaction that an endpoint
  received before it answered.
* A late broadcast answer turns a transaction that `recover()` confirmed back
  into an unresolved one (`MaxGate = 1`).
* `arm()` and the market launch lift a halt that was raised after their checks
  (`AmbiguityHalts` fails in `OrderCrash` with `MaxGate = 1`).
* A demotion to stage 0 during a round trip fails its exit, and as the reason is
  not the size of the sale, no recovery opens it again.
* An order left `submitting` by a crash before anything was signed has no venue
  id; every later gate finds it unresolved.
* The allocations that `promoteStage` and `enableCanaryAutonomy` make are outside
  the transaction of the stage or the phase; reconciliation reads balances
  before its await and the ledger after, so a fill between them is drift.
* A restart drops pending grants from the revocation cache: `hydrate` reads only
  the paused and the final ones (`evaluateDelegation` refuses them still).
* A grant made without the provider can be paused while pending and resumed to
  active with no signer; `evaluateDelegation` refuses it.
* The wallet route writes its state after awaits too, over a wallet row that was
  activated or revoked meanwhile; the withdrawal check may answer "ready" of a
  grant resumed during its reconciliation.
* The router asks the cache before `placeOrder` queues: a revocation that comes
  while the order waits is not seen.

Orders, swaps and the full market:

* A second swap may read the allowance of an earlier one still pending, skip its
  own approval, and be broadcast after that one spent it: it reverts and costs
  gas. The universe and the halt are not read again after the approvals' awaits;
  `recordWethReference` dates a mark `now` however old the exchange's price is.
* Gas of an approval whose receipt was waited for in vain is never booked; the
  order halts the network (`GasKnown` says exactly this much).
* The council's reserve check counts only its own USDG swaps and the bots' check
  only the bots' buys: together they may go below the reserve, which is why
  `ReserveKept` speaks of each path alone. `setBotAllocation` compares with the
  other bots' old allocations.
* `setCapitalStage` says a promotion wants "no unresolved orders", but
  `promotionEvidence` (`live/riskEngine.ts:524-528`) does not count `risk_approved`
  ones, as `live/canaryExperiment.ts:90` and `live/botCapital.ts:57` do: a stage may
  be promoted over a swap that is still to be sent, or that was left so for good.
  The authorised capital, which the swaps' reserve is a part of, stays at what the
  launch recorded, so that after a promotion they keep less than the stage's.
* The launch (`live/fullMarketController.ts:48-51, 104-107`) looks at unresolved
  transactions and not at reconciling orders, and lifts the halt of one of those.
* The bots' `placeOrder` (`live/adapters/zeroXRobinhood.ts:906-949`) approves the same
  token to the same spender for an amount of its own: mined between a directed swap's
  approval and its broadcast, it leaves more granted than the swap sells
  (`NoLargerGrant` says how much more), though line 734 reduces "a stale larger
  allowance".
* A sweep left `running` by a crash blocks every later sweep; an order stored
  before the return for a missing ETH price stays `risk_approved`.
* `placeSwapIntent` does not look at the halt; the cycle before it does.

Registry: `recordMultiplier` stores the old multiplier under the future
effective time, and its INSERT OR IGNORE then drops the new one; a corporate
action that disappears from the API blocks for good; the reference bars use
the snapshot's pinned multiplier.

Scanners: after a restart the same bar's idea is staked again, as the memory is
in the process, and launches evict the keys of an hour's bar when it is full
(`IdeasSound` counts one life and the keys kept); boot's backfill stores the bar
that still forms, and a pass after that bar's end by the clock and before its last
minute has come judges the half of it, remembers its key and never judges the whole;
bars are rolled up and judged with minutes missing;
the cost of a pump.fun idea equals the most it can be expected to win, so none
is ever viable.

Custody: the header of `sweepToOperator.ts` says the policy is restored by
`finally`, but what is to be restored is assigned only after the policy was
swapped, so a lost answer or a kill leaves the withdrawal policy, and the next run
takes it for the one to restore (`astray` in `PutsBack`); a stored but unsent
transaction of `fund` is never sent again; a killed top-up that was mined cannot
be booked by a rerun.

Money: the reorganisation audit marks every USDG subscription of the member
unpaid, not only the orphaned one's; of two Stripe events of one second the last
delivered wins; a payout whose answer was lost is sent again; two runs over one
period count its profit twice (`WithinProfit` is of one epoch); a crash within a
distribution strands the rest of the epoch.

Publisher and desk: a thread under way goes on after a halt; an overlapping cycle
takes a healthy `publishing` row for an ambiguous one and halts; the "rolling"
quota is a fixed window; sessions check the budget once, though `budget.ts:63`
says before every request, and sessions of different kinds overlap on one budget.

Accounts and seasons: `linkWallet` writes the user's address before the link may
be refused; a link after a concurrent merge updates nothing and answers ok. A crash
after a season is closed loses the awards that were due (the comment says a
crashed pass can rerun), so `SeasonsPayOnce` says at most once.

Paper: a start after a tax pause leaves the bot paused in memory; the stale flag
holds up exits as well as entries; a buy of all the cash goes negative by the
fee.

Feeds: the pump.fun feed has no watchdog, and `fillGap` is never called.

## 8. Not modelled

* Numeric signals (strategies, indicators, regime, risk-reward, the DSL's
  rules): functions of one input with no state; what they say is free where it
  is used.
* Texts: drafts, filters, personas, prompts, moderation, mails.
* The web interface, request parsing, queries, the WebSocket fan-out: they keep no
  state the server relies on.
* Delegation's usage ledger and caps (section 2, item 11), venue cancels, badges
  other than a season's and the number of trades, follows, the activity feed.
* Key generation, configuration, migrations other than the states they leave.
