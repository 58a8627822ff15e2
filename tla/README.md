# Verification of ufama

TLA+ models of the ufama exchange (Soroban contracts, the RFQ desk, the keepers,
the routing engine, the server's build routes and the swap form), the TLC
configurations that check them on small instances, and proofs of the most
important safety properties for every instance. Paths are relative to the
repository's `src/`.

## 1. The system

ufama trades tokens on Stellar in four ways, each with a contract of its own,
and a Node backend that quotes, builds, keeps and relays.

| part | state it keeps | operations | talks to |
|---|---|---|---|
| **SwapBook** `contracts/swap-book` | orders, pair index, per-maker counters, pooled escrow, fee, dust floors, router | place, fill, partial fill, match_and_place, cancel, expire, claim_expired_timer, settings | token contracts, FeeVault, Router, SEP-40 oracles |
| **price oracle** (inside SwapBook) | oracle admin, pushed prices, SEP-40 feeds, max age | push, register/remove feed, read a price | external SEP-40 oracles |
| **Router** `contracts/router` | venues, fee, surplus share | execute_path, execute_route(_partner), swap, route_expired_order | SwapBook, adapters, FeeVault |
| **adapters** `contracts/adapters/*` | pool pins | quote, swap | venue contracts |
| **TwapBook** `contracts/twap-book` | orders with a schedule, active index, pooled escrow | place_twap, execute_slice, cancel, expire | adapters, SwapBook's oracle |
| **RfqSettle** `contracts/rfq` | replay records, fee, price source | settle_quote, cancel_nonce | SwapBook's oracle |
| **FeeVault** `contracts/fee-vault` | admin | withdraw | token contracts |
| **RFQ desk** `backend/src/rfq` | requests and their quotes, in memory | create, cancel, accept, settled, prepare, submit quote, sweep | RPC, makers, takers |
| **maker bot, restocker** `backend/src/rfq` | which requests were quoted; pending orders | quote; restock tick | desk, issuer |
| **keepers** `backend/src/services` | rotation, per-tick caches | TWAP tick, timer sweep, oracle push | contracts through RPC |
| **engine, pathfinder, curve cache** `backend/src/router`, `services` | points of quote curves | split an amount, find chains of pools | venue simulations |
| **discovery** `backend/src/services` | discovered tokens, pools, decimals | three sweeps, the list served | Aqua, Sushi, Curve |
| **server** `backend/src/server.ts`, `stellar/client.ts` | endpoint health | quote, build, relay | all of the above |
| **frontend** `frontend/src` | one form, one panel, one page | quote, build, sign, submit | server, wallet |

A contract call is atomic: the host runs one at a time and undoes all of a
failing one. What is hard in the contracts is therefore not interleaving
inside a call but *sequences* of calls by parties that do not trust each
other, competing for one order around a timer or an expiry; rounding that
accumulates over many small calls; indexes, counters and pooled balances that
must agree through every way in and out; prices and records that age; and
calls made of several steps of which one fails. What is hard in the backend and
the frontend is that handlers stop at every `await` and resume on state they checked
before it, that calls fail or answer late or were carried out although they
failed, and that everything they know of the chain is old. PROJECT.json's
`hazards` lists these by line.

What makes each part correct:

* SwapBook: escrow is exactly what the orders have left; makers net their
  limit whatever the fills and the fee; an order leaves only by a door its
  maker opened; indexes and caps count the open orders and nothing else;
  match_and_place is all or nothing; what is quoted and planned off chain is
  what the contract will do.
* oracle: cross rates compose whatever the decimals; nothing acts on a stale
  price; the pusher brings every pair to the market.
* RfqSettle: a nonce once used settles nothing that was admissible then; a
  banded quote settles only near a live price.
* RFQ desk and its clients: one live quote per maker; a closing is announced
  once; one acceptance; the bot misses no request; the panel shows what it is on.
* restocker: one order per asset, none paid twice.
* TwapBook: never ahead of the pace, never below the limit asked for; escrow and
  index exact; the keeper gets round to every order, once no more
  are placed, and never submits what is refused.
* Router: nothing rests in it between calls; the user's floor is
  net of every fee; a timed order is settled above its floor or stays open; the
  sweep settles what is due.
* engine, pathfinder, cache: no answer promises more than a pool would have given; a
  split loses to the best venue alone no more than whole basis points can hide.
* server and form: a plan is one the Router accepts; what the user is told is
  what happened; a submission is answered, and never falsely.
* discovery: the list served comes to be what the venues list.

## 2. Modules

A module beginning with `MC` gives the constants of the module it extends their
values for TLC; a module ending in `Proofs` holds theorems about the module it
extends. Definitions whose comment begins with "Faulty" are slips the properties
are tested against, one for each property; no behaviour of a specification
uses them. PROJECT.json maps every other definition to the lines it stands for.
The hierarchy (`EXTENDS`, indented below what it extends):

    FixedPoint
      PriceOracle
        SwapBook
          FillQuote
            PeerSwap
          RouterContract            (also extends RouterTerms)
            TimerSweep
        RfqSettle
        OraclePusher
        TwapBook
          TwapKeeper
            TwapBuild
      Routing
        Quoting
        SwapBuild                   (also extends RouterTerms)
          SwapWidget
    RfqService
      RfqDesk
    Restock
    Submission                      (refined by StellarClient)
    Discovery

A contract call is one action, because the host runs calls one at a time.
Where a call has steps that can each fail (the fills of `match_and_place`, the
legs of a Router path) the steps are actions of their own under a lock, the
state before the call is saved, and an action for the host's rollback restores
it; nothing else runs in between. `require_auth` is taken from the host, so any
account may be the caller of a call that needs only its own consent. The ledger
is `seq`, advanced by `CloseLedger`. In the backend and the frontend a step is
what runs between two awaits.

**FixedPoint** has the mul-div with either rounding, the fee and gross-for-net
of the contracts' private helpers. The contracts multiply in 256 bits; a result
that leaves i128 fails the call, which the model's unbounded integers leave
out: a failed call changes nothing.

**PriceOracle** is the price side of `swap-book/src/lib.rs`: `read_oracle` with
the precedence of feeds over pushed prices, `sep40_price` (`Sep40Answers`: age,
clock unit, future skew, positive price), the cross rate with both tokens' and
both feeds' decimals, the step bound of `update_oracle_price`, and the admin's
setters. What the external oracles report is the variable `reports`, which may
change or vanish at any moment.

**SwapBook** is the order book. The variable `book` holds `orders` (a sequence,
as ids are consecutive), `index` (`PairOrders`), `count` (the maker's open
orders per pair), and every holder's token `balance`; `history` is a ghost that
records where each order's escrow went. `cfg` is the admin's settings, `call`
the `match_and_place` under way. `PlaceOrder`, `PartialFill`, `FillOrder`,
`CancelOrder`, `ExpireOrder`, `ClaimExpiredTimer`, `SetFee`, `SetMinOrder` and
`SetRouter` are the entry points of those names; `MatchBegin`, `MatchFill`,
`MatchPlace`, `MatchConsumed` and `MatchRevert` are the steps of
`match_and_place`. The helpers keep the code's names (`PlaceInner`,
`FillInner`, `CloseOrderIndexes`, `RequiredPayment`).

**FillQuote** is the read-only `quote_fill` with `max_affordable_fill` and
`required_gross_payment`: the orders of the pair in the order they were placed,
each as far as the budget left affords. **PeerSwap** is the server's Peer Swap:
it plans a `match_and_place` from the book as read, repeating the contract's
arithmetic off chain (`PlanOrder` is one pass of its loop).

**RouterTerms** and **RouterContract** compose the Router with the SwapBook:
`ExecutePath`, `ExecuteRoute`, `ExecuteRoutePartner`, `SwapOne` (`swap`) and
`RouteExpiredOrder` begin a trip; `SwapLeg` is one leg of `execute_segments` or
of a path's hop, through an adapter that gives anything from nothing up
(`Delivered` is the check that adapters and Router both make); `Settle` takes
the fees and pays out, `Fail` is the host's rollback. `RouteExpiredOrder` is
SwapBook's `ClaimExpiredTimer` in the same step. Everything else others do with
the SwapBook is `BookCall`, between trips. **TimerSweep** is the backend's sweep
over both: pair by pair, order by order, with reads that fail and
submissions that are lost, fail or land after the sweep stopped waiting.

**RfqSettle** is the settlement contract: `settle_quote`, `cancel_nonce`, the
record of used nonces with the ledger it lives until (`used`), the NAV band,
`set_fee` and `set_swap_book`. A record past its ledger is as good as absent,
which is what the host makes of an entry in temporary storage. Any signed quote
may be presented any number of times. `log` is a ghost: every use of a nonce.

**OraclePusher** is the price service over PriceOracle: overlapping updates that
each fetch, cache and push pair after pair, with refused pushes passed over.

**TwapBook** is the schedule contract: `PlaceTwap`, `ExecuteSlice`, `CancelTwap`,
`ExpireTwap`, the admin's fee and venues. A slice is executed by anybody, by any
route, and the venues give anything; `refunded` is a ghost. **TwapKeeper** adds
the keeper's tick, each await a step (index, ledger, rotation, order, sizing, submission).
**TwapBuild** adds the server's build of an order from a request in display units
and seconds, the wallet's signature some ledgers later, and the orders page
that lists and cancels; `asked` is a ghost of the price the maker asked for.

**RfqService** is the desk, `rfq/service.ts` with `rfq/store.ts`. A handler is a
task in a slot: `CreateRequest`/`InsertRequest`, `Accept`/`AcceptLedger`/
`HostAccepts`/`AcceptBuilt`, `SubmitQuote`/`SubmitLedger`/`HostAccepts`/
`SubmitVerified` are the pieces of one handler between its awaits, `Fail` the
throw out of an RPC call; `Get`, `Cancel`, `MarkSettled` and the store's `Sweep`
await nothing and are one action each. `request` keeps every request object
ever made, `stored` the ids the store's map still has: a handler goes on holding
a request the store has dropped. One tick of `now` is a ledger. **RfqDesk** adds
the maker bot on its stream and the taker's panel in the browser.

**Restock** is the bot's restocker: overlapping ticks over the targets, the issuer's
orders, funding with its retry, and calls that throw whether or not they were carried out.

**Routing** is the engine's split of an amount over the venues' ladders of quotes
and the pathfinder's search, as operators. **Quoting** is what the engine is told
and when: the curve cache's points and chords, single flight, the memo of
reachable venues, and pools that trade in between.

**SwapBuild** is the server's choice between the direct route, the classic book, a
blend and chains of pools, and the transactions it builds; **SwapWidget** is the
form: quotes in two stages with late replies, tabs, and the execution of a plan
of one or several transactions against a wallet, a market and an account that
is also used elsewhere.

**StellarClient** is the relay, the submission with its polling, and the failover
between RPC endpoints, for the transactions of one account. **Submission** is what
it promises, and `SubmissionsKeepTheirPromise` is the refinement.

**Discovery** is the sweeps of Aqua, Sushi and Curve, begun at an interval that does
not look at the sweep before, the map they are merged into, and `getTokens`.

## 3. Runs

Denominators are small (basis points of 10, fees in quarters) so that rounding
happens at amounts TLC can enumerate: a fee of 1/4 on a payment of 1, 2 or 3
rounds differently each time, where the deployed 1/100000 would always give 1.
The results about rounding do not depend on the denominator; where they are
theorems (section 4) this is proved. A run with several scenarios chooses one at
the start of a behaviour, each with bounds of its own, given in the MC module.

| run | asks | bounds |
|---|---|---|
| `book` | Fixed, matched and pegged orders through every way in and out: indexes, counters and caps exact (`BookIndexesExact`), pooled escrow exact (`BookEscrowBacked`) and accounted for (`BookLifeAccounted`), the maker's limit net of rounding and fees (`BookMakerFloor`), exits only as allowed (`ExitsAllowed`), `match_and_place` costs its budget or nothing (`MatchCostsItsBudget`), a pegged fill within a unit of the moment's price less its tolerance (`PeggedFloorWithinAUnit`). What is quoted is fillable (`QuotesAreFillable`); the server's plan is accepted, affordable and uses up what it can (`PeerPlansFit`). | two fixed orders of three accounts (a 3:2 price, a timer, an exclusion, three refused terms) over 3 ledgers; or three of two accounts, matched, caps of 3 and 2; or one pegged order, four prices and a feed |
| `desk` | Handlers that overlap on one request: one live quote a maker (`OneLivePerMaker`), the end announced once (`ClosingAnnouncedOnce`), acceptance and status agree (`AcceptedReadsAccepted`). With its clients: no request missed (`NoRequestMissed`), the panel current (`PanelIsCurrent`). The restocker: no order paid twice (`NoOrderPaidTwice`). | two slots, a maker's two quotes, three requests in a store of two, `MaxTime` 2; two reads of the panel in flight; one lost connection, or a second request and a settlement, or typing; two bonds, two ticks, one throw |
| `twap` | One order sliced by anybody in any way: never ahead of the pace (`PaceKept`), never below what its maker asked (`AskedPriceKept`) nor far from the oracle (`SlicesNearOracle`). Orders that sell to each other's token share the contract: escrow exact (`EscrowBacked`), index, statuses, refunds exact (`IndexExact`). What the keeper submits fits (`SubmissionsFit`), and it closes every eligible order once no more are placed (`KeeperCloses`). | one order of up to 3 in slices of 1 or 2 while prices step; or two orders of 3 and 2, a cap of 2, one a tick; or one order asked of the server with an exact, a rounded, a vanishing limit |
| `router_trips` | Nothing rests in the Router (`NothingRests`); a trip is an exchange at or above the floor net of all fees, or nothing (`TripsAreExchanges`); surplus capture leaves the estimate (`EstimateKept`); a timed order is settled at its maker's price or stays (`TimersSettleAtTheFloor`); the sweep does not starve one (`DueOrdersAreRouted`). | two-hop paths with a 5:5 split of 3, a round trip, routes of one and two legs; or two orders of a pair, one that no venue fills, one lost or failing call |
| `quotes` | The cache never over-quotes (`NeverOverQuotes`), no part of a route is priced better than its venue's smallest answer (`NoPhantomRate`), a split falls short of the best venue by less than two bps and a unit (`SplitNearSingle`). | three venues, five pools, levels of 10, 12 and 18 with a bp of a tenth, one trade, one failure, two requests |
| `relay` | A submission is a `Submission` (`SubmissionsKeepTheirPromise`). The list of tokens comes to be right (`UniverseSettles`). | two transactions, two endpoints, one poll, two failures; or two overlapping rounds of sweeps over four pools and five tokens, one of them of no decimals, one change of listings, one failed request |
| `swap` | A quote that had time to arrive is for what the form says (`QuoteSettles`); every plan is one the Router accepts (`PlansAcceptable`); the second of several transactions never spends what the user had of the token between (`SecondPartCovered`); what the user is told happened (`HonestOutcome`). | two markets, plans of one transaction, a blend and two hops, one surprise (late or failed reply, refusal, foreign use of the account) |
| `prices` | Cross rates are ratios of values (`CrossRateIsValueRatio`); the pusher follows the market (`PairsFollowTheMarket`); a nonce used or cancelled settles nothing admissible then (`NoReplay`); a banded quote settles near a live price (`SettlesWithinBand`). | 3 tokens of 0, 1, 2 decimals, feeds in seconds and milliseconds; or two pairs, two overlapping updates; or six quotes of one nonce over 6 ledgers, past two lifetimes of the record |
| `desk_twoaccepts`, `twap_price`, `swap_blend`, `restock_overlap` | violations, see below | as above |

`MaxLedger` reaches past the last expiry an order or quote can have, so
everything that can lapse does; amounts lie on both sides of every rounded floor.
Every property of a passing run is known to fail for a plausible slip in the
code (PROJECT.json `mutants`), which is evidence that the bounds are large
enough to matter. The bounds on counters are the constants beginning with
`Max`, and `Slots`, `Polls`, `Ticks`, `Updates`, `Sweeps`; clocks and counters that end
are why runs turn deadlock checking off. The desk's slots are interchangeable.

**Liveness and fairness.**

* `KeeperCloses`: weak fairness of the keeper's steps and of ledgers closing, strong
  fairness of a ledger read that does not throw, of finding an order expired and of getting
  its expiry in: the interval is only cleared by `stop`, every await has a timeout, and the
  expiry is tried at every turn. Its hypothesis `PlacingEnds` is that no more orders come;
  the run's bounds imply it, nothing in the code does.
* `DueOrdersAreRouted`: strong fairness of the sweep's and the network's steps, and that
  venues asked again and again some time give as much as they ever do; failures are bounded.
* `PairsFollowTheMarket`: weak fairness of the updates, strong of a push the contract would
  take. It speaks of markets within the contract's step bound of the last price (`WithinReach`).
* `SubmissionsKeepTheirPromise`: weak fairness of the handler of a submission alone.
* `UniverseSettles`: weak fairness of the interval and of each round's steps; failures and
  changes of listings are bounded.
* The desk, the form and the contracts have no liveness: no caller is assumed to come back.

**What the runs found** (PROJECT.json `findings`).

* `desk_twoaccepts`: `accept` checks the status before two awaits and not after, so two
  overlapping accepts both succeed.
* `twap_price`: the server turns a price floor into a fraction without the tokens' decimals.
* `swap_blend`: both transactions of a blend carry the same sequence number.
* `restock_overlap`: two ticks that overlap order the same bond twice.

**Met while modelling**, without a run of their own:

* `createRequest` checks the cap on open requests before an await and inserts after it.
  An acceptance that resumes after `markSettled` turns a settled request back to accepted.
  The bot marks a request quoted before it tries. The panel polls on after a 404, may show a
  request created before a reset under the new pair's labels, and cannot accept again
  after the wallet declined.
* `required_payment` says it rounds up, yet an oracle-priced order's fair value is
  floored first; `quote_fill` may quote such a fill at a payment of 0, which is refused.
  The record of an RFQ nonce outlives only quotes whose expiry was admissible
  when it was written (`contracts/rfq/src/lib.rs:11-17` says "any quote").
* Peer Swap: the minimum a taker gives is applied only to what is left for its own order
  (server.ts:616, 1507), and the planner uses a compile-time fee cap; an expired
  order that nobody closed fails the build. A token asked for itself, an expiry beyond
  the contract's 90 days or a timer past the expiry is left to the contract to refuse
  (`Askable`); `PeerPlansFit` says nothing of these.
* TWAP: the shortest window the server accepts has ended by the contract's reckoning when
  it is placed; a tiny limit price rounds to a numerator of 0 and is refused; a failed
  listing shows an empty page though `orders/page.tsx:79-88` says it keeps the last. The
  rotation is an offset counted modulo a list that changes from tick to tick
  (twap-keeper.ts:144-145): while orders come and go without end it may pass over one for ever.
* Prices: a market that moved beyond the step bound is refused at every push, and the
  contract's price goes stale until an admin sets it.
* Engine: what no tranche took goes to the largest venue even if that one failed at the whole
  amount, at an output the code calls approximate (engine.ts:392-400), so a part of a route
  need not be obtainable. Tranches are ordered by whole basis points of raw units
  (engine.ts:305-308): a split can lose to the best venue by up to two, and where the token
  given has four decimals more than the token got, every tranche ranks alike and the venues are
  filled one after another rather than "from cheapest marginal price".
* The sweep goes on trying orders past their expiry, which only `expire_order` closes.
* Server and form: classic and blend are chosen before chains are compared
  (server.ts:1184-1251), and the chains may be of a market up to 15 s older (the memo of
  their search; `SwapPlan` takes both markets). The blend's estimate has a fee of its own
  (server.ts:844, `BLEND_FEE`), whatever fee the engine is configured with; legs that are rebuilt on the way have floors of new quotes, so
  "never a worse price than quoted" (SwapWidget.tsx:1116) does not hold for them. Of three
  hops the third is sized to the floor the second was quoted with at first ("the amount guaranteed
  to exist", server.ts:1413), not to that of the second as rebuilt: when the market turns
  between them it sells what the user held of that token before. `SecondPartCovered` therefore
  stops at the second transaction, and `HonestOutcome` counts what was sold to the unit where there
  were no more than two, since a rebuilt hop may come back through the token sold; after a
  partial execution nothing refetches; a fast reply that comes after a failed full one is still
  shown; a leg below one unit of weight is refused by the Router though pathfinder.ts:248 calls
  the plan executable.
* Relay: DUPLICATE after a failover is reported as not accepted (client.ts:548-553) though it is
  queued; an unconfirmed submission may still be applied. Failed simulations are memoised
  like answers (aqua.ts:187, curve.ts:174, quote-curve-cache.ts:99).
* Discovery: a source keeps its snapshot on failure, says `refresh`, but a failed simulation is
  `null` and blanks the Curve pools until the next sweep. A token that Aqua delists is gone until
  the next Sushi sweep although Sushi lists it. Decimals are recorded only from 1 to 30
  (token-discovery.ts:500), so a token of none is asked for them at every sweep and served
  with 7 for ever (`Believed`); `UniverseSettles` is about what the code will believe. What Sushi or Curve listed once is never
  dropped, and a token first seen at Sushi has no issuer, so it does not fill a curated entry.
* Restock: an order is forgotten when the call after `order()` throws; one throw ends the tick.
  Whether a bad sequence number is retried hangs on the wording of an error
  (restock.ts:120), so the model allows either.

## 4. Proofs

The theorems hold for every value of the constants: any accounts, tokens,
prices, terms, denominators and bounds. They assume what the modules declare
with ASSUME, and TLC evaluates each of those on the runs: sets of the kind the
declarations say, positive denominators, a fee cap not above its denominator,
`None` and the contracts' own addresses apart from everything else
(`CallAssumption` and `TripAssumption`: `None` is no call and no trip under
way; `RequestAssumption` likewise), the curves of `SizesAssumption` and `CurvesAssumption`
(below), `Rotations` positive. One theorem has a hypothesis of its own, `AskedPriceSafe` (below).

| module | theorems |
|---|---|
| `PriceOracleProofs` | `GrossForNetExact`, `CrossRateSafe`; lemmas on floors, ceilings, sums, units |
| `SwapBookProofs` | `TypesSafe`, `IndexesSafe`, `EscrowSafe`, `LifeSafe`, `FloorSafe`; `QuotesSettle`, `PlansFit`; about steps `ExitsSafe`, `MatchCostSafe`, `PeggedSafe` |
| `RfqSettleProofs` | `ReplaySafe`, `BandSafe` |
| `TwapProofs` | `PaceSafe`, `PoolSafe`, `IndexSafe`, `OraclePriceSafe`; with the keeper `SubmissionsSafe`, `KeptBookSafe`; with the server `AskedPriceSafe` |
| `RouterProofs` | `NothingRestsSafe`, `BookUnderRouter`; about steps `TripsSafe`, `EstimateSafe`, `TimersSafe`; with the sweep `SweepIsRouter` |
| `StellarClientProofs` | `SubmissionsNeverLie` |
| `QuotingProofs` | `QuotesSafe`, and of the form `ScreenSafe` |
| `DeskProofs` | `LiveQuotesSafe`, `ClosingSafe`, `AcceptanceSafe`; with the clients `BotSafe`, `PanelSafe`, `DrivenDeskSafe`; `RestockSafe` |

**Arithmetic.** `gross_for_net` is exact: what it answers leaves the net after
the fee and one unit less does not. Floors and ceilings enter every other proof
only through their bounds (`q * d <= n < (q + 1) * d`).
A pool is stated as the cardinality of a set of *units*, pairs of an
order and a number up to what it has left: taking from one order then changes
the set by a set difference, and no sum over a set of orders needs an induction.
**Induction over data** is done by least counterexample where it is
needed (powers of ten, sums, the index in its order): a property that
fails for some number or finite set fails for a least one, and the step refutes it.

**Price oracle.** A cross rate multiplies four powers of ten in and out of two
feeds; `CrossRateSafe` is that whatever exponents cancel, the fraction is the
ratio of the two values.

**SwapBook.** One inductive invariant, `Inv`, carries the five state theorems.
Its `BookInv(b)` says of a book that it has the declared types; that the balance
of the contract in each token is *exactly* the units left in the orders selling
it (with "at least", a refund could not be shown to leave enough for the
others); that an order is open exactly when it has something left; that the
index and the counters name the open orders (the code's saturating decrement is
exact only because of this); that history and order agree on where each unit
went; and that payments cover the floor. `Inv` requires the same of the book saved by a
`match_and_place`, since `MatchRevert` brings it back. Two lemmas carry the
actions: `UpdatedKeepsBook` for everything that takes from an order,
`PlaceKeepsBook` for what adds one. The theorems about steps need in addition
`CallInv`, which relates the book in the middle of a call to the saved one (`Underway`:
same terms, orders only shrunk, and paid for out of what the caller has spent).
`QuotesSettle` computes nothing: the steps of the quote and the book after each of its fills
are two recursive functions, and by induction on the orders quoted (`QuoteGrows`) the fills so
far were accepted, moved what was quoted and left a sound book (`Reached`) in which the
orders to come stand as they did. Of `max_affordable_fill` it needs only that it answers a
fill within the order and within the budget (`AffordableTyped`), which needs that no order
asks for nothing or gives everything away (`Sensible`, kept by every call); of the pool, that
it covers each order (`EscrowCovers`). `PlansFit` is the same induction over the server's plan
(`PlanGrows`), whose payments cover the floor at every fee up to the cap because a lower fee
leaves more (`FeeGrows`). That no more could be bought is that the estimate is never short
(`BudgetBuys`: ceilings and floors are adjoint) and that later orders only spend; that organic
makers come first is that the list is one ascending list after another (`ReverseIds`). Each
fill of the plan is traced to the one order it was taken of (`Traced`). `PeerAssumption` is what
the server checks of a request before it plans.

**Router.** `RouterInv` joins the SwapBook's `Inv` to what is known between two
legs. `Carries`: of each token the Router holds exactly what of the hop's input
no leg has taken and what the legs have returned, and none of any other token.
`Untouched`: every account has what it had in the saved book, less the input for
the user. `Claimed`: one order is routed, all others are as saved, and the trip's
floor is that order's required payment at its terms before the claim and at the
price of the moment, which cannot change under the lock. `TripOK` has what the
calls check before they move anything, hop by hop: no hop swaps a token for
itself, a route's legs sum to what is left of its amount, and a path's last leg takes
what is left, so that rounding rests nowhere. The sums over legs are of the sequence that
shrinks (`TotalTail`). That a trip's end is a `Settle` or a `Fail` and nothing else
(`TripEnds`) turns the theorems about steps into arithmetic of one settlement.
`EstimateSafe` compares a ceiling with a floor: the flat fee
on the excess, rounded up, and the share of it, rounded down, together never
exceed the excess (`FeesOfSurplus`), and a ceiling is subadditive (`CeilAdds`). It
needs that the two caps, as fractions, add up to no more than one, which
`RouterAssumption` states and the code's caps (a share of at most half, a fee
far below) satisfy. `Owes`, the floors by order, is a parameter of the invariant's
parts, so that a step of a leg, which leaves the oracle alone, need
not look into it. `SweepIsRouter` is a refinement: `SweepInv` says that what the keeper has in
flight is a route it found, hence each of its landings is a step of `RouterSpec`
and the five theorems hold with the sweep at work. Its liveness stays with TLC.

**RfqSettle.** `ReplaySafe`: the invariant is that the record of a nonce lives at
least as long as any quote of it that was admissible when the record was
written. `BandSafe`: the two roundings of the NAV band cost the maker nothing and the taker
less than a unit.

**TwapBook.** `Sound` says of an order that it is not ahead of its schedule,
that it got its limit on all it filled, and where the rest of it went; `BookOK`
adds the pool, as units, and the exact index. That a slice keeps the pace is the
comparison of two different floors, the contract's check and the exact fraction.
`AnyCall` covers every call by anybody, so the keeper's proofs only
look at its own state: `KeeperInv` says what it knows when it submits, a
slice that was within the schedule at some past ledger (`Sized`), and the
schedule's floor never falls as ledgers close. `BuildInv` relates the server's
transaction and the page to the request (`Promises`: the fraction built is the
asked price up to its rounding). `AskedPriceSafe` assumes `SameDecimals`: without it
the statement is false, as the run `twap_price` shows.

**StellarClient.** The refinement of `Submission`, initial states and steps; its
liveness half stays with TLC. `ClientInv` says that a transaction that was
never in doubt and not accepted is neither queued nor on its way, and that
what was told to have settled or failed is what the ledger did; it needs that a
sequence number is used once.

**Quote curve cache.** `CacheInv` says that a point young enough to be used is a zero or
what its pool gave in a state that `recent` remembers (`Given`), and that whatever simulation
is under way a request waits for (else a landing would have nobody to tell). The rest is
arithmetic: a chord of points from two states lies under the chord of the better state
(`ChordUnder`), and the unit's worth that `readOff` takes off an average rate is just what
the rounding of a fee can make of it (`ScaledUnder`). It rests on `CurvesAssumption`, the
comment at quote-curve-cache.ts:30-37 made precise: the curves are concave up to rounding,
and a trade makes a pool better or worse for every amount alike. The second half is not in the
comment and the code needs it: were liquidity to be added while the price moves, all within a
time to live, two states' curves could cross, and a chord from one to the other rise above both.

**The quote on screen.** `FormInv` says that what may still change a shown quote is the reply
to the last fetch, and that this fetch was for what the form says, unless the pause before the next
one runs or the form asks for nothing. It is inductive because every change of the form
either starts the pause or leaves the form asking for nothing, and the pause ends
with a fetch of a new number (`EditKeeps`, `FetchKeeps`); a tab left and come back to counts as a change.

**Desk.** `ServiceInv` is about handlers asleep at an await: the request each
holds is one that was made, the quote it goes on to accept is still among its
quotes, and nothing a handler does on waking opens what was closed. From it follow one live
quote a maker, one closing and the agreement of acceptance and status. `BotInv`:
every open request is in what the bot quoted or in a frame not read yet (`Hears`),
across lost connections. `PanelInv`: quotes on show are a subset
of those of the request on show, hence the quote a taker accepts exists;
`PreviewInv` is the same for what is typed. The theorems about the driven desk need all four at once,
since the panel's click is a call of the service. `RestockInv`: a tick that is
funding holds an order of its own that is not paid, however many ticks overlap
(`restock_overlap` shows what they do not exclude: two orders).

TLC was given each of these invariants as well (in `RouterInv`, with membership of
`Owes`, an infinite set, written out).

**Only model-checked.** Liveness (`KeeperCloses`, `DueOrdersAreRouted`,
`PairsFollowTheMarket`, `UniverseSettles` and the liveness of
`SubmissionsKeepTheirPromise`) and anything about ENABLED are out of the prover's reach.
`SplitNearSingle`, `NoPhantomRate`, `PlansAcceptable`, `SecondPartCovered` and
`HonestOutcome` are about what an optimisation or a fold over the venues or a path amounts
to, which TLC finds by computing it. `PlansAcceptable` does not hold for every value of the
constants, since a leg may be below one unit of weight (above). `SplitNearSingle` is about venues
whose answers fall off with the amount (`FallsOff`): mixed answers of two pools need not.

## 5. Not modelled

* Storage lifetimes (`bump_ttl` and the extensions on writes) and archived
  entries; the two-step admin rotation of every contract; `FeeVault`.
* 128-bit overflow: it fails the call. Authentication and signatures: the host's.
* The venue contracts, tokens and SEP-40 oracles are external and give any
  answer of a small set. Tokens with transfer fees or hooks are not considered.
  Which pool an adapter takes by its reserves is a choice.
* The build of a transaction is one step; the limit on concurrent simulations and the
  cache of inclusion fees are left out. Peer Swap's older path of separate transactions,
  the recommended TWAP window, the first API version, health, balances, assets,
  trustlines, volumes and the best Sushi pool of a pair are left out.
* Screening (it only refuses), the quote codec (stateless), price clients, the SDK, the
  database schema and the scripts: input and output around the modelled parts.

## 6. Plan

Modelled: the contracts that hold funds, then the desk, the keepers, the engine,
and the server and form over them. What is left, in the order of what it would show:
storage lifetimes against order lifetimes; an abstract `Exchange` that a Router trip
implements; adapter pool choice against a reference; the admin rotation;
screening's cached verdicts.
