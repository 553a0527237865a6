# Deadcat verification project

TLA+ models of Deadcat (a Liquid prediction-market desktop application and its
SDK), TLC runs on small instances and TLAPS proofs. `PROJECT.json` holds the
machine-readable inventory: components, runs, mutants, the map from definitions
to source lines, hazards, findings and theorems.

Paths below are relative to `src/src-tauri/`; `sdk/` abbreviates
`crates/deadcat-sdk/src/`, `contract/` abbreviates `crates/deadcat-sdk/contract/`.

## The system

Deadcat lets users create binary prediction markets on the Liquid network, issue
and redeem YES/NO tokens against collateral, and trade tokens through LMSR pools
and limit (maker) orders. On-chain rules are Simplicity covenants; the SDK scans
the chain, builds transactions that satisfy them and broadcasts; a desktop shell
(Tauri) keeps the wallet, a local store and the connection to Nostr relays.

| Component | State | Operations | Hard behaviour |
|---|---|---|---|
| Prediction-market covenant (`contract/prediction_market.simf`) | eight slot scripts, one UTXO per live slot | 17 spending paths | amounts at the edges (zero change, last pair, u64), pairing of inputs in one transaction |
| Market builders and assembly (`sdk/prediction_market/`) | none | 8 PSET builders, blinding, witness attachment | must agree with the covenant on every amount and layout |
| Market operations (`sdk/sdk.rs`) | the client's wallet | create, issue, cancel, resolve, redeem, redeem_expired | scan then assemble then broadcast: the market moves in between; two-transaction redeem_expired |
| Canonical market scan (`sdk/prediction_market_scan.rs`) | bundle in hand | walk spenders, recheck | one network query at a time against a moving chain |
| Maker orders (`contract/maker_order.simf`, `sdk/maker_order/`) | order UTXO at an address | create, announce, fill (partly), cancel | partial fills racing each other and cancellation, indivisible remainders |
| LMSR pool (`contract/lmsr_pool.simf`, `sdk/lmsr_pool/`) | three reserves and a state index | create, swap, adjust, close | index and reserves move together; table lookups at the ends; rounding of the fee |
| LMSR pool scan (`sdk/sdk.rs`, `sdk/node.rs`) | pool row, price history | walk from the bootstrap, repair from announcements, persist | one query at a time; blocks are replaced; several writers of one row |
| Trade router (`sdk/trade/`) | none | quote and execute across pool and orders | stale quotes; output positions and rounding over several legs |
| Store (`crates/deadcat-sdk/deadcat-store/`) | candidates, markets, orders, pools, UTXOs | ingest, promote, purge, sync | out-of-order announcements, lookups without the lock, sync as one transaction |
| Discovery (`sdk/discovery/`) | none | publish, fetch, subscribe | duplicated and reordered announcements |
| Node (`sdk/node.rs`) | SDK handle, store, discovery | combined operations, sync loop | locks between async steps, partly failing loops |
| Wallet session (`src/lib.rs`, `src/state.rs`, `src/wallet/persister.rs`) | wallet file, cached phrase, unlocked flag, node SDK | create, restore, unlock, lock, delete, auto-lock | two mutexes, no command holds both |
| Payments (`src/payments/`, `src/lib.rs`) | swap records in `deadcat_state.json` | create and refresh Boltz swaps | remote creation before local record, lost answers, torn file, network switched meanwhile |
| Commands, application state, front end | snapshot and revision | forward to the above | order of emitted snapshots |

What makes each part correct:

* market: collateral always equals what tokens can claim; an outcome is final and
  justified; every request built from a fresh scan is accepted; holders can exit;
* scan: it returns what is live, neither skips nor invents a transition, ends, and
  fails only when the market moved under it;
* orders: the maker receives the price for every lot that leaves the order, in
  any number of partial fills, and keeps the right to the rest;
* wallet session: the flag tells the truth about the node, the phrase in memory is
  the stored wallet's, and an idle wallet is locked;
* store: after a sync the status of an order tells whether it can still be filled,
  and a partly filled order is one whose maker was paid; a market is stored only when
  its creation cannot be reverted, is never lost to an expiry, and offers the outputs
  of its present state only;
* pool: no swap pays out more than the cost function allows, reserves and index
  never drift apart, and what the SDK builds the covenant accepts;
* pool scan: recorded prices are final and complete, a row is one state of this pool;
* trades: a trade lands as the user confirmed it or not at all, every maker is paid,
  and the pool moves only as a pool may;
* payments: a swap shown to the user stays in the list and tells what the service has.

## Modules

| Module | Models | Kind |
|---|---|---|
| `MarketLifecycle` | what a market promises: state, collateral, two supplies | abstract specification |
| `MarketLifecycleProofs` | theorems about it, which `PredictionMarketProofs` uses again | proofs |
| `PredictionMarketCovenant` | `prediction_market.simf`, as predicates on transactions | operators |
| `PredictionMarketTx` | the PSET builders, blinding and assembly | operators |
| `PredictionMarket` | chain, clients, oracle, height; composes the two above and implements `MarketLifecycle` | state machine |
| `PredictionMarketProofs` | invariants of the market on the chain, that it implements the lifecycle, that fresh requests land | proofs |
| `SumTheorems` | sums of a function over a finite set, for balances and supplies | lemmas |
| `MarketScanner` | the canonical scan against a moving chain; uses the covenant and the builders | state machine |
| `MarketScanProofs` | theorems about it; uses the market's lemmas on what the builders make | proofs |
| `MakerOrder` | one limit order: covenant, builders, maker and racing takers | state machine |
| `MakerOrderProofs` | theorems about it and about `OrderStore` | proofs |
| `OrderStore` | announcement, ingestion and store sync of an order; composes with `MakerOrder` | state machine |
| `WalletSession` | wallet commands, node, auto-lock timer | state machine |
| `LmsrTable` | table, quotes, spot price, Merkle proofs of an LMSR pool | operators |
| `LmsrPool` | pool covenant, builders, wallets that swap, administrator | state machine; what `TradeExecution` implements |
| `LmsrPoolProofs` | table commitment, pool invariants, that trades implement the pool, and `LmsrPoolSync` | proofs |
| `PoolAnnouncement` | pool ids and announcements, and what parsing and ingestion refuse | operators |
| `LmsrPoolSync` | the walk of the pool and the store's row and prices; composes `LmsrPool` and `PoolAnnouncement` | state machine |
| `TradeRouter` | routing of an exact input over orders and pool | operators |
| `TradeExecution` | trades in one transaction; composes `LmsrPool`, `TradeRouter` and the covenant of `MakerOrder` | state machine |
| `MarketStore` | candidates, promotion, purge and sync of markets | state machine |
| `MarketStoreProofs` | theorems about it | proofs |
| `Payments` | swaps at the service and their local record | state machine |
| `AppProofs` | theorems about `WalletSession` and `Payments` | proofs |
| `MC*` | instances for TLC | |

### MarketLifecycle

`state`, `collateral`, `yesSupply`, `noSupply`; one action per kind of market
transaction. It is the specification `PredictionMarket` is proved to implement,
and the invariants proved of it are the market's. Prices are `2 * CollateralPerToken` per pair
and per winning token, half of that per token after expiry.

### PredictionMarketCovenant and PredictionMarketTx

The covenant is seventeen predicates over a transaction `[ins, outs, lock]` and a
witness, named like the contract's functions, plus the dispatch `main`. Amounts
are integers with explicit `Fits` guards where the contract does checked u64
arithmetic. A confidential output is abstracted to `conf = TRUE` with the asset
and amount its commitment opens to; an oracle signature is abstracted to the
outcome that was signed. Builders produce the same records, output by output in
the code's order; `Assembled` adds the witness of each covenant input. A builder's
output is judged by the covenant's predicates, nothing assumes that they agree.

### PredictionMarket

`utxos` are the unspent outputs at the market's scripts, `holdings` the tokens of
each client. A request (`IssueTokens`, `CancelTokens`, `ResolveMarket`,
`RedeemTokens`, `RedeemExpired` with its finalisation) reads the chain, assembles
and checks a transaction and keeps it in `request[c]`; `BroadcastAccepted` or
`BroadcastRejected` follows later, so any number of other steps may lie between.
An SDK instance serves one request at a time because its methods take `&mut self`.
`NetworkAccepts` (unspent inputs, lock time, positive amounts, balance per asset,
covenants) is the Liquid network, external to the repository.
`broadcast_and_sync` may report an error after the transaction is on chain; the
request then ends, and the caller may try again. Requests that fail before
broadcast change nothing and are not taken.

A request works from what the scan returns. `severed` records that the history is
one the scan cannot follow (see the finding below): from then on no request is
possible, which is what the code does.

### MarketScanner

`chain` is the list of transactions, `lineage[t]` what the market really owned
after transaction `t` (the ground truth, invisible to the scan), `scan` the scan in
progress. `Resolve` and `Recheck` make one `spending_txid` query per step; the last
query of a round applies the transition rules. Chain steps (`Confirm...`) are the transactions
the builders make from the live outputs, and third-party deposits to slot
addresses. Anchors that are not a market's creation are among the initial states.
Amounts in the scan's environment are exact (no change) because the scan does not
read amounts.

### MakerOrder

An order lives at an address of its own, because its nonce is random; `order` is
the one UTXO there, which every partial fill replaces. `FillLimitOrder` and
`CancelLimitOrder` look at the order, build, run the covenant on the witness and
keep the transaction in `request[c]`; it is broadcast in a later step, so requests
go stale. `ForeignFill` is a taker with other software, in the same layout, whom
only the covenant judges. A transaction keeps the positions of its outputs, since
the covenant reads the maker's payment at its own index and the remainder at the
next, and which outputs `fill_limit_order` blinds depends on positions too.
`received` and `refunded` are history: what the maker got. The SDK fills one order
per transaction, so batches of the builder are not modelled; the cosigner exists
in the covenant but the SDK always creates orders without one. Creation is one
step: it spends only the maker's own coins and nobody can interfere before the
order is on the chain.

### OrderStore

`details` is where the order's parameters and nonce are held: in the running
creation, in an announcement, or nowhere. `rows` and `status` are the store's
tables, `sync` the transaction of a sync in progress with the rows it has not
committed. A sync holds the store's lock but asks the chain one query at a time;
`SyncFails` stands for a failing query and for a market whose scan fails, both of
which roll back everything. `update_order_status` is called by nothing but tests
and is left out; so is `sdk/recovery.rs`, which no module of the crate declares.

### WalletSession

`file`, `cached_mnemonic`, `wallet_unlocked` and `idle` live under the manager's
mutex, `sdk` under the node's. A command is the sequence of its critical sections;
`command[c]` is its next one, and up to three commands overlap. `SaveWallet` is creation
or restoration, which replaces a file that exists and leaves cache and node as they are;
`SaveTorn` is a crash during the write, which leaves a file that decrypts with no
password, in place of a good one if there was one. Passwords are
abstracted: a wrong one changes nothing. `Restart` is a crash or exit at any point.

Commands that overlap can leave the flag, the cache and the node in disagreement.
`mixed` records that this may have happened; it ends when a lock, a deletion, a
change of identity or the timer runs from start to end with nothing beside it
(`alone`) or when the process restarts. The properties are stated outside of it, so
what they add for overlapping commands is that the disagreement never outlives the
first such command. `replaced` likewise records that a wallet was written while the cache
or the node held a phrase, and ends the same way: `SessionIsStoredWallet` says that nothing
else parts the session from the file.

### LmsrTable and LmsrPool

`LmsrTable` has the cost function as a constant table, its Merkle root and proofs over
free constructors, the quote between two indices in both directions with its fee and
rounding (`Quote`), the search for the best index of an exact input
(`quote_exact_input`), and the spot price. `LmsrPool` is one
pool: `bundle` numbers the live triple of reserve outputs, `sIndex` and `reserves` are
what it holds, `pending[w]` is the transaction a wallet has in hand, from quote
(`QuoteSwap`) over building (`BuildSwap`, `BuildAdjust`, `close_lmsr_pool`) to
`broadcast_and_sync`. `Accepts` is the covenant: `SwapPath` and `AdminPath` as the
contract writes them, with the table proofs of the leg. Creation has all of its
checks (pool of this market, table of this root).

### PoolAnnouncement and LmsrPoolSync

An announcement is a record of what it claims; a pool's id is a constructor over
network, parameters and creation anchors. Relays may hold the true event and ones with
a wrong table, other parameters, another pool's id or another network; the run leaves
out two that are never stored (an old version, an index beyond the table) and the one
without a table, since scans already make rows that have none. `made` are all transitions ever broadcast, `chain` those that count,
`height` their blocks; `Mine` and `Reorg` move blocks, and a transition of a removed
block may return to the mempool or vanish. `walk` is the sync of the pool: best height,
one spender per step (`FindSpender`), one height per step (`ReadHeight`), then the
row (`SyncPersist`) and the prices (`SyncRecord`). Writers of `row` besides the sync
are `Announced`, `quote_trade`, `create_lmsr_pool` and `adjust_lmsr_pool`; each writes
the columns the code writes, with the code's precedence. The scans of other commands
are steps of their own (`scan_lmsr_pool`, `scan_for_adjust`).

### TradeRouter and TradeExecution

`build_execution_plan` consumes orders that are at least as good as the pool's spot price in price
order, then the pool, with the minimum fill, the minimum remainder and the dust rules of
the code; prices are compared as fractions where the code uses floats. A trade is shown
(`ShowQuote`), quoted again when the user confirms (`QuoteTrade`, which refuses when the
quote differs), built (`ExecuteTradePlan`) and broadcast (`BroadcastTrade`). The
transaction keeps positions: every order's covenant reads its payment and remainder at
its index, the pool reads its window. Each order's script is judged by `MakerOrder`'s
covenant, instantiated. Makers cancel and the administrator adjusts meanwhile.

What the router sees are announcements (`ScannedOrders`), each looked up at its order's address.
A fetch (`Fetches`) may return an order twice or with a wrong nonce, and a
second fetch something else than the first; an order may be quoted in a foreign asset or
require a cosigner. Nothing between the relay and the broadcast looks at any of this, so
such orders become legs: the maker's payment then goes to the address that the announced
nonce gives, or one output is spent by two inputs, and the ledger (`SpendsOnce`) or the
covenant refuses.

### MarketStore

`cands`, `rows` and `utxos` are the tables `market_candidates`, `markets` and `utxos`;
`block`, `path`, `moves` and `tip` are the chain. A `sync_wallet` is: list under the
lock (`SyncList`), ask the height and every creation without it (`SyncHeight`,
`SyncCheck`), take the lock again, promote one candidate per database transaction
(`SyncPromote`) and purge (`SyncPurge`), then scan each market, look up its outputs and the
spent ones in one database transaction (`SyncScan`, `SyncTag`, `SyncSpent`, `SyncCommit`).
A query may fail, or the process stop, at any of these steps (`SyncFails`): promotions made
before it stay, the transaction in progress does not. Two such calls
overlap. `MarketDiscovered` is an announcement, with or without an opening that
matches its anchors. A market's outputs are one bundle per transition.

### Payments

`service` is Boltz, as the code uses it: it creates a swap, or refuses, and its answer
may be lost. `swaps` is the list in memory, `state_file` what is on disk. A command reads key
and network (`ReadKeyAndNetwork`), asks (`CreateSwap`, `Refused`, `AnswerLost`) and
records (`RecordSwap`); a refresh does likewise (`RefreshNetwork`, `get_swap_status`,
`UpdateSwap`). Every write of the file may be torn, and `RestartApp` reads what is there.
The four kinds of swap differ in their checks: an amount in thousandths of a satoshi is
rounded up, limits are checked where the code checks them. `shown`, `written` and
`excused` are history.

## Runs

| Run | Checks | Shows |
|---|---|---|
| `lifecycle` | `TypeOK`, `FullyBacked`, `TokensPaired`, `OutcomeFinal` | the abstract market is solvent and final |
| `market_races` | `LiveSetCanonical`, `OutcomeJustified`, `ImplementsLifecycle` | two clients racing stale transactions cannot corrupt a market; each landed transaction is one lifecycle step |
| `market_requests` | `FreshRequestsLand`, `HoldersCanExit` | builders and covenant agree at every edge; nobody is stranded |
| `market_scan` | `BundleOnHistory`, `ErrorOnlyIfRaced`, `FreshAtReturn`, `ScanTerminates` | the scan is right while the market moves |
| `market_scan_walk` | `WalkDerivesState` (violated) | the finding below |
| `maker_order` | `MakerPaid`, `FreshFillsLand`, `MakerCanCancel` | races of fills and cancellation never cost the maker; builders and covenant agree; the maker can always take the rest back |
| `order_store` | `PartialMeansPaid`, `StatusFollowsChain` | what the store says after a sync is right, with failing syncs and fills between queries |
| `wallet_session` | `FlagTellsNode`, `SessionIsStoredWallet`, `AutoLocks` | overlapping commands, failures, torn files, restarts and the timer |
| `pool_sync` | `RecordedPricesFinal`, `CanonicalRowIsBundle`, `RowIsThisPool`, `WalkErrorsExplained`, `SyncIsComplete` | recorded prices are final and none is skipped; whatever writes the row, it is one state of this pool; a walk fails only for the two reasons the code has |
| `trade` | `MakersPaid`, `ReservesFollowIndex`, `FreshLegsLand`, `FreshTradesLand`, `SwapsNeverCostPool`, `TradingImplementsPool`, `TradeAsConfirmed` | trades over several orders and the pool pay everyone, agree with the covenants, land as confirmed, and are pool steps |
| `market_store` | `MarketKeepsCandidate`, `PromotedIsIrreversible`, `TagsMatchState`, `ConfirmedNotPurged`, `SyncedFromChain` | two overlapping syncs, expiry and replaced blocks neither lose a market nor store one that can vanish |
| `payments` | `NoSwapForgotten`, `RecordMatchesService` | overlapping commands, lost answers, torn files and restarts |

A module's type invariant is a conjunct of its main invariant (`LiveSetCanonical`,
`BundleOnHistory`, `PartialMeansPaid`, `SessionIsStoredWallet`, `CanonicalRowIsBundle`,
`MakersPaid`, `MarketKeepsCandidate`, `RecordMatchesService`); that of `MakerOrder` is
proved on its own.

Two refinements are checked, and proved: `ImplementsLifecycle`, the market of scripts and
transactions implements `MarketLifecycle` (its state and collateral are read off the
live outputs); and `TradingImplementsPool`, a trade's transaction with its orders, change
and fees is one step of `LmsrPool`, so that `SwapsNeverCostPool` speaks of trades too.

The properties allow for what the code does not promise. `FreshLegsLand` and
`FreshTradesLand` except requests that break a covenant rule no builder looks at (reserve
floors, a swap that pays nothing in, an unpaired or unbalanced adjustment, dust in an
order's leg), and `FreshTradesLand` routes with one order in two legs or with an order that
is announced with a wrong nonce, quoted in another asset or cosigned.
`SessionIsStoredWallet` excepts a wallet written over one in use, until a lock.
`SyncIsComplete` speaks of walks with a good table: without one no price is recorded.
`RecordMatchesService` asks for a status the service gave, not for the last one.
`WalkErrorsExplained` names a lost block and the limit of steps.
`ConfirmedNotPurged` excepts a candidate whose lookup failed. `NoSwapForgotten` excepts a
file whose last write was torn. Each is in the list of observations below.

Bounds. `market_races` has two interchangeable clients, one pair per request and
five transactions on chain: enough for issue, issue, cancel or resolve, and
redemptions of both clients, with a stale request of each in flight. Its `U64Max`
admits two pairs, so a third issuance overflows. `market_requests` has one client,
amounts up to two and wallets with and without change; `U64Max = 13` makes the
fourth pair overflow, and five transactions drain a market completely.
`market_scan` has five transactions with the creation: issue, partial cancellation,
issue again, resolve, plus a deposit instead of any of them. `MaxAmount = 2` is what
a partial cancellation needs. `maker_order` has two takers and the maker, prices two
and three (and zero, which creation must refuse), orders up to five units and three
transactions after the creation: two partial fills and a full fill or cancellation, with
stale requests of everyone; `U64Max = 12` lets whole-order prices overflow. `order_store`
has one taker and orders up to six units, so that an order can be partly filled twice and
emptied between two syncs. The session has three commands at once, the least that a race
with a bystander needs, and two phrases, so that a deleted wallet's phrase differs from
its successor's and one that is overwritten from the phrase in use.

The pool of `pool_sync` and `trade` has four indices with costs 8, 6, 6, 8 (a convex
function with a flat middle, where a quote is zero), a fee of 30 percent so that rounding
is visible in small numbers, and floors of one. `pool_sync` has two transitions, two
blocks and a walk of three bundles: an irreversible block, a removed one and a walk at
its limit all happen. `trade` has two wallets, two transactions and three order books:
sellers at two prices, a buyer beside a seller with a cosigner, and a buyer whose amount is
no multiple of the price beside a seller who wants a foreign asset. A fetch returns both
orders, or one of them twice around the other with a wrong nonce, so that quote and
execution may differ too; wallets pay exactly or with change. `market_store` has two creations that claim
one market, two overlapping syncs, candidates that live one tick, two blocks and one
transition. `payments` has two commands, two swaps, two networks, one restart and one change
of status; amounts lie below, within and beyond the limits.

Deadlock is not checked where a bound (transactions on chain, blocks) ends the behaviours.

Fairness. A scan is a loop on the caller's thread: each of its steps is weakly
fair; the chain is not fair at all, and `ScanTerminates` rests on the bound on
transactions as the real scan rests on blocks being slower than queries. In the
session Tokio runs spawned tasks to their end (weak fairness of `Continue` and
`AutoLockNode`); the timer ticks every few seconds and waits only for a mutex, so
it cannot be excluded for ever by a series of commands (strong fairness).

## Proofs

`MarketLifecycleProofs` proves, for every `CollateralPerToken > 0` and every
`U64Max`:

* `TypeCorrect`: no operation underflows;
* `Solvency`: collateral equals outstanding claims (`FullyBacked`);
* `Pairing`: supplies are equal until there is an outcome (`TokensPaired`);
* `Finality`: an outcome never changes and nothing is minted after it.

The inductive invariant is `Inv == TypeOK /\ FullyBacked /\ TokensPaired`.
`FullyBacked` alone is not inductive: a resolution to NO prices the NO supply where
the collateral had priced the YES supply, so the supplies must be known to be
equal; conversely `TokensPaired` needs solvency to know that the collateral reaches
zero exactly when the last pair is burned. There is one lemma per action; the price
lemmas (linearity, zero, half price) are stated once. Both constants' assumptions
are evaluated by TLC in the run `lifecycle`.

`MakerOrderProofs` proves, for every set of prices, every minimum, amount width and
number of takers:

* `MakerIsPaid`: the maker has received the price of every lot that left the order,
  and the rest is in the order or was refunded (`MakerPaid`), with its type
  invariant `TypeCorrect`;
* `FreshFillsAccepted` and `CancelsAccepted`: what `fill_limit_order` and
  `cancel_limit_order` build from the order as it stands is balanced, positive and accepted
  by the covenant (`FreshFillsLand`, `MakerCanCancel`).

`MakerPaid` is not inductive: a request prepared from an older look at the order may
land later. The invariant adds `RequestsOK`: a request in flight spends an outpoint
that is gone, or leaves no more in the order than there is, has its payment and
remainder where the bookkeeping reads them, and a cancellation leaves nothing.
`SellBaseFillPays` and `SellQuoteFillPays` are the heart: they say of any
transaction, whoever built it, that the covenant's fill path makes it pay.
`FillShape` and `CancelShape` say where the builders put their outputs, and that blinding
leaves those the covenant reads explicit. `FillPays` adds up the outputs, whichever of
remainder and change exist; `FillDivides` gets from the builder's checks that what the taker
receives and the remainder are the whole order, for which a price has to be cancelled.
Only the assumptions on the constants (`OrderAssumption`) are used. `TradeExecution` uses the same
covenant operators, by `INSTANCE`.

The same module proves of `OrderStore`, the order together with announcements and syncs:

* `PartialFillsArePaid` (`PartialMeansPaid`), `StoredMakerIsPaid` (`MakerPaid` under the
  larger specification) and the action property `StatusIsTrue` (`StatusFollowsChain`).

`StoreInv` adds to the order's invariant what the rows and a sync in progress know: rows
are of transactions on the chain, one marked spent is not live, one of a later transaction
than the creation means that the maker was paid; and a sync under which no transaction
landed (`since = txs`) has every live output and the right answer for each it took off its
list.

`PredictionMarketProofs` proves, for every price, expiry, fee, finite set of clients and
set of wallet surpluses:

* `LiveSetStaysCanonical`: the live outputs are a canonical set of the state
  (`LiveSetCanonical`), whatever stale transactions race;
* `OutcomesAreJustified`: resolved only as the oracle signed, expired only from the expiry
  height on (`OutcomeJustified`);
* `MarketImplements`: the market of scripts and transactions implements `MarketLifecycle`
  (`ImplementsLifecycle`), with `MarketIsSolvent` and `OutcomesAreFinal`: `FullyBacked` and
  `OutcomeFinal` hold of the market on the chain;
* `RequestsLand` (`FreshRequestsLand`) and `HoldersExit` (`HoldersCanExit`): every request
  assembled from the live outputs that passes the SDK's own checks is accepted, and a
  holder can redeem a whole balance whatever others redeemed before.

`LiveSetCanonical` says nothing of transactions in clients' hands, so it is not inductive.
`Inv` adds `RequestsOK`: such a transaction has one of six effects (initial and subsequent
issuance, partial and full cancellation, conclusion, redemption), fixed outputs at market
scripts, inputs that were outputs of the market with the amounts it recorded, and tokens
its wallet still has. It says nothing of whether the inputs are still there: that is the
network's check, and each `Land*` lemma derives from it and from the shape of the live
outputs that the transaction finds the market in a state in which its effect is a step of
the lifecycle. One lemma per builder shows that what it builds is of this kind, one per
effect that it lands as a lifecycle step, one per action that the invariant survives.
`ResolutionSigned` gets the oracle's signature from the covenant's own check. The
lifecycle's invariant is a conjunct and comes from `MarketLifecycleProofs`, instantiated.
Supplies are sums over clients; `SumTheorems` has the facts (removing and changing one
value, bounds, sums up to n), proved by induction over cardinalities in the
form of a least counterexample, since the library's induction rules cannot be instantiated.

`RequestsLand` and `HoldersExit` follow from `Inv`, transaction by transaction. For each
builder one lemma adds up what its outputs carry of every asset (`*Pays`: change appears or
not with the wallet's surplus, so the sum is built by appending), one evaluates the covenant
paths its witnesses name (`*Spends`), and one compares with the inputs and what they mint
and concludes that the network accepts (`*Lands`). Three facts about the market are needed
besides: the collateral of a terminal market covers what is outstanding (`CollateralLeft`,
from the lifecycle's `FullyBacked`), whoever can cancel all pairs holds exactly all tokens,
so that a full cancellation has no change to place (`HoldsAll`), and an expired market is
past the lock time its redemptions carry (`Justified`).
Used: `CovenantAssumption`, `FeeAssumption`, `MarketAssumption`.

`MarketScanProofs` proves, for every price, expiry, fee, set of slots that receive deposits
and a chain of any length:

* `ScanFollows` (`BundleOnHistory`): the bundle in hand is exactly what the market owned
  after the bundle's last transaction, whatever lands while the scan runs;
* `ScanErrs` (`ErrorOnlyIfRaced`): the scan reports an inconsistency only when a transaction
  landed during its round of queries, or on the history of the finding below;
* `ScanFresh` (`FreshAtReturn`): in the step in which the scan succeeds, its bundle is what
  the market owns at that moment.

The invariant `ScanInv` has two halves. `HistoryOK` is about the chain: each transaction
moves all that the market owns, or its collateral only, or nothing (`MovesAll`,
`MovesCollateral`, `MovesNothing`), and what the market owns always has one of four shapes
(`Shaped`) with both reissuance tokens from one transaction. So an output is spent once, and
`AnswerIs` says which transaction a `spending_txid` query names. `ScanOn` is about the scan:
its bundle is what the market owned at some moment, its answers are transactions that spend
those outputs later, and the answers of a round under which nothing landed are all still
right. `ChainGrows` shows that each transaction the builders make extends the history in
this way; it uses the lemmas of `PredictionMarketProofs` on what a builder makes.
Used: `CovenantAssumption`, `FeeAssumption`, `ScannerAssumption`.

`LmsrPoolProofs` proves, for every table of depth up to 63, every fee below 100 percent,
every number of wallets:

* `TableBinds` and `TableOpens`: an index opens to the table's value only, whatever proof
  is brought, and the proof `proof_at` makes does open it. Hashes are free constructors,
  so this is about indices, directions and levels of the tree;
* `ReservesTrackIndex` (`ReservesFollowIndex`), `SwapsPayThePool` (`SwapsNeverCostPool`)
  and `FreshLegsAccepted` (`FreshLegsLand`), from `PoolInv`: each leg in hand was built as
  the builder builds it, for a bundle that existed, and as long as that bundle is live its
  old index and reserves are the pool's;
* `TradesImplementPool` (`TradingImplementsPool`): every step of `TradeExecution` is a
  step of `LmsrPool` or leaves it alone; from it `TradesTrackIndex`, `TradesPayThePool`
  and `TradeLegsAccepted`.

Used: `ParamsValid`, `PoolAssumption`, and for trades `TradeAssumption`.

Of `LmsrPoolSync` the same module proves, for every pool, every limit of a walk, every chain height and set
of announcements: `PricesAreFinal`, `CanonicalRows`, `RowsAreThisPools`, `WalkErrors` and the action
property `SyncsAreComplete`. The invariant `SyncInv` has the chain as a path of spends, and follows
the walk: while its position is on the chain it has visited exactly the transitions before
it, it leaves the chain only if a block was lost under it (`raced`), what it has seen of
blocks below its best height is still so, and before it persists it has seen every
transition of those blocks. Prices rest on `settled`, the best height there ever was, of
which the chain loses at most one block.

`MarketStoreProofs` proves, for every set of creations and markets they claim, candidate
lifetime and number of overlapping `sync_wallet` calls:

* `CandidatesKept` (`MarketKeepsCandidate`), `PromotionsAreFinal` (`PromotedIsIrreversible`)
  and `TagsAreTrue` (`TagsMatchState`);
* the action properties `ConfirmedAreKept` (`ConfirmedNotPurged`) and `CommitsWereSeen`
  (`SyncedFromChain`).

None of them is inductive, because a call looks up candidates without the lock and promotes
with it. `IInv` (theorem `StoreInvariant`) has four parts. `ChainOK`: the chain loses at most
the last of the best blocks there ever were, so a creation two blocks deep stays where it is;
`StoreOK`: the committed tables agree with each other and with the chain; `OneLock`: at most
one call is past the lookups; `CallsOK`: what each call has in hand is still true. For a call
without the lock that means that an id it listed is of the same creation or of none (ids are
never used again), that what it found irreversible is still in that block, and that it missed
nothing unless a query failed. For the call with the lock it means that its
uncommitted tables satisfy what the committed ones do, have the same candidates and markets
(nobody else can write them), and give each scanned market a state of a bundle that it saw.
Used: `StoreAssumption`.

`AppProofs` proves `FlagIsTrue` (`FlagTellsNode`) and `SessionIsStored`
(`SessionIsStoredWallet`) for any finite set of callers and any bound on those in flight.
The properties speak of a session at rest, so they are not inductive: the invariant says,
for each step a caller may be at, what flag, cache and node are when nothing overlaps it
(`Alone`), and what else when no earlier overlap left a disagreement (`Unmixed`) and no
wallet was written over one in use (`Agreed`).
`SessionInvariant` includes that the bound on callers holds.

The same module proves `SwapsRemembered` (`NoSwapForgotten`) and `RecordsMatch`
(`RecordMatchesService`) for any set of commands, networks and any number of swaps. The
invariant says that whatever a command carries between its steps names a swap of the
service with its kind and network and a status it once had, and that the file, when its last write
completed, loads as the list in memory.

Only model-checked:

* `AutoLocks`, `ScanTerminates`: liveness under fairness is out of the prover's reach;
* `MakersPaid`, `TradeAsConfirmed`, `FreshTradesLand`: they rest on what sorting,
  filtering and summing a sequence of orders computes, an induction over data.

## Findings

*The scan cannot follow a partial cancellation* (`sdk/prediction_market_scan.rs:572`).
A partial cancellation moves only the collateral. After the next transaction that
moves the whole bundle, a scan from the anchor asks for the spenders of the first
unresolved bundle, gets two different transactions and reports a split bundle.
Every later scan does the same, so the market can no longer be operated through
the SDK. `ErrorOnlyIfRaced` states that this is the only such history.

## Observations

What the models show of the code, and the properties allow for.

Market and orders
* A failed announcement loses the order (`sdk/node.rs:451`, against the comment at 414):
  its random nonce exists only in the result the node drops when the relay fails.
* A cancelled order is derived as fully filled
  (`crates/deadcat-sdk/deadcat-store/src/store.rs:2222`, against the comment at 2214):
  nothing sets the status that would exclude it.
* A sell-quote order whose amount is no multiple of the price can be filled down to a
  remainder of more than one lot's price and less than two, which no further fill can
  take because of the minimum remainder; `MakerCanCancel` says that the maker can.
* A partial fill that lands between two queries of one sync is stored as fully filled
  until the next sync; `StatusFollowsChain` speaks of syncs during which the order did
  not move.
* Order outputs marked spent stay so when the spending transaction is dropped
  (`store.rs:2271`); market outputs are reset.
* A lookup that fails lets an expired candidate be purged although its creation is
  confirmed.

Pool and trades
* An adjustment in the policy asset that takes out less collateral than the network fee
  does not balance; an exactly funded one whose fee leaves change reports a missing
  change destination.
* Router and creation ignore the reserve floors; a swap quoted at zero is refused by the
  covenant.
* `close_lmsr_pool` lands only when the reserves are as unequal as the floors.
* A full fill of a sell-quote order with dust is refused by its covenant, and a route that
  goes on after a partial fill reduced for the minimum remainder is refused by the builder.
* Orders are not deduplicated as pools are, and neither the quote asset nor the nonce nor
  the cosigner of an announcement is checked (`sdk/discovery/service.rs:203`,
  `sdk/node.rs:639`): one bad or repeated announcement that the router prefers makes every
  quote over it one that cannot land.
* `quote_trade`, `fill_limit_order` and `cancel_limit_order` take the first output found at
  an order's address.
* The walk gives up after 512 transitions.
* Transitions of one block are ordered by transaction id in the price history.
* An announcement's table replaces the stored one without a check against the root; quotes
  and the sync then fail until a good one arrives, and a pool whose sync fails ends the
  sync of the pools after it (`sdk/node.rs:1596`).
* A late sync may write an older state over a newer one; the row is still one state.

Wallet, payments, shell
* `create_wallet` and `restore_wallet` overwrite a wallet file that exists without a check
  (`src/lib.rs:182`, `src/wallet/persister.rs:114`), while node and cache keep the old
  phrase; an unlock prefers the cached one. The front end offers them with a file present
  after a restore whose later steps failed and when there is no Nostr identity.
* A lock that overlaps an unlock may leave the flag false while the node is unlocked
  (`src/lib.rs:320`, against the comment at `src/state.rs:103`), and the timer does not
  fire until a lock runs by itself.
* Reading a recovery word of a locked wallet caches the whole phrase
  (`src/wallet/persister.rs:129`, against the comments at 38 and 118).
* `deadcat_state.json` is rewritten in place, errors are ignored, and a file that does not
  parse counts as empty.
* The preimage of a reverse or chain swap is not kept, so the code cannot claim it; a swap
  whose answer is lost, or whose command is cut off before the record, is unrecorded.
* Overlapping refreshes may store the older status; a refresh asks the service of the
  selected network, not the swap's; `set_network` leaves the node on the old one.
* The auto-lock emits its snapshot after releasing the mutex (`src/lib.rs:1176`), and the
  front end does not compare revisions.

## Not modelled, and why

* Reorganisations in the market scan: the code treats a transaction as final once
  seen. Pool sync and market store have them.
* In the scan's environment, third-party transactions that satisfy the covenant but
  that the SDK would not build (extra market-script outputs, mixed spend kinds).
* Deposits of third parties at an order's address: an order there is one output. They would
  hide the order from a quote, fill or cancellation that finds them first (see the observations), and
  add rows to the store that its status counts.
* Blinding, keys, signatures, Simplicity encoding, taproot: abstracted to what they
  prove. Fee estimation: a constant fee. Coin selection: the inputs a wallet may have.
* LMSR table generation: floating point.
* The loop over several pools, the background subscription of the node, relay
  connections, encryption of backups, Electrum transport: input and output around what is
  modelled.
* The front end, and the order of events it receives.
* Commands that only read; `adjust_lmsr_pool` and `close_lmsr_pool` as commands of the
  shell, which return an error; `src/payment_commands.rs` and `sdk/recovery.rs`, which are
  part of no module of their crates; setters of the store without a caller outside tests.
* `sdk/testing.rs` and test code.

## Plan

1. Done: market lifecycle, covenant, builders, requests, scan; maker orders and their
   store status; wallet session; LMSR pool, quotes, announcements and sync; router and
   trades; market store; payments; proofs of the lifecycle, the market, its scan, orders and their
   store, the pool, its sync, trades on the pool, the market store, the session and payments.
2. The loop over several pools, with failing ones.
