# x402-gno: a verification project

This directory holds TLA+ models of the repository, the TLC configurations that
check them on small instances, and proofs that TLAPS checks for every value of
the constants. It is written from the source: each definition names, in
`PROJECT.json`, the lines it stands for.

Modelled, checked and proved: settling a payment, verifying one with the rules a
seller, a payer and a facilitator each state, a Go client's purchase, the
facilitator's rate limiter, its HTTP layer and its process, the sale of a reading
from a click or a terminal to the chain and back, the seller's visit book and
backstop. Every safety property a passing run checks is a theorem, five of them under
a hypothesis that is stated with it: `RefusedIsNotCharged` and `OnePaymentPerReading`
for one process that does not restart, `SettledOnceEver` and `OneReadingPerPayment`
for processes behind one node, `NotBroadcastAgain` where nothing panics. What is left
out is listed at the end.

## The system

A buyer signs a gno bank send and hands it to a seller, who verifies it, serves,
and settles it through a facilitator. The facilitator holds no key: it checks the
signed transaction against the chain, broadcasts it, and waits for a block.

| Component | Where | State it keeps | Operations |
|---|---|---|---|
| Settlement record | `facilitator/exact/settlements.go` | a map from transaction hash to (state, payer, hash, time), one per process, under a mutex | `claim`, `release`, `markSettled`, `markPending` |
| Settling | `facilitator/exact/facilitator.go`, `node.go` | none beyond the record; a request's progress is a goroutine's | `Settle` -> `settle` / `delivery` -> `record`; node calls `SignerAccount`, `Simulate`, `Broadcast`, `AwaitDelivery` |
| Verification pipeline | `facilitator/exact/verify.go`, `account.go`, `facilitator.go` | none | `checkOffline`, `verifyStatic`, `verifyAccountChecks`, `verifySignature` |
| HTTP server | `facilitator/facilitator.go` | none | `/verify`, `/settle`, `/supported`; outcomes to 200, 400, 429, 503 |
| Rate limiter | `facilitator/ratelimit.go` | a capped table of token buckets, the time of the last sweep | `allow`, `sweepFull` |
| Process | `cmd/gnofacilitator/main.go` | the server | chain-id watchdog at start, answer timeout (25 s), drain (30 s) |
| Seller scheme | `server/exact/scheme.go` | none | `ParsePrice`, `EnhancePaymentRequirements` |
| Go client | `client/exact/` | none | `Prepare`, `SignBytes`, `Payload`, `CreatePaymentPayload` |
| TypeScript client | `client/src/` | none | `createPaymentPayload`, `readChain` |
| Weather seller | `examples/weather/*.go` | visit book, rate limit, facilitator support | `record`, `lookup`, `keepSyncing`, `syncOnce`, `allow`, the middleware's hooks |
| Paywall page | `examples/weather/paywall.js` | outcome shown, button, watch timer | click Pay, `ask`, `watch` |
| Command-line payers | `buy.mjs`, `x402-gno/` | none | read, sign, send once |
| Chain and nodes | external | blocks; per node a view of them and a mempool | CheckTx, blocks, gossip |
| Upstream x402 SDK | external | registrations | engine dispatch; middleware: verify, serve, settle, settle once more when pending |

How they interact. The middleware calls `/verify`, runs the resource, then calls
`/settle`; a `settlement_pending` with a hash is settled once more. Each HTTP
request runs in a goroutine of its own behind `http.TimeoutHandler`, which can
answer 503 and leave the handler running. Concurrent settles share the record,
nothing else, and two processes share nothing at all. Every node call may reach
another node than the last one when the RPC endpoint is balanced.

What is hard, and what must hold:

- *Settling.* Concurrent copies of a payment; nodes that lag and admit what a
  block already executed; broadcasts whose answer is lost; payments that fall
  out of every mempool; a 503 with the handler still running; restarts; panics.
  Each payment must be settled by one settle at a time, reported settled at
  most once while the record covers it, reported as the chain executed it,
  never forgotten while admitted, and never stuck.
- *Verification.* Many rules in one order, with one reason each; an account
  read that separates a spent sequence from a forged signature. What verifies
  must be what settles, and a failed read must never become a refusal.
- *Rate limiter.* A table at its ceiling, a clock that steps back, a sweep that
  forgets. Forgetting must never grant, and no peer may exceed its rate.
- *HTTP layer.* Three kinds of answer, accepted, refused and not checked, and a
  hash that an answer about an admitted payment must not lose.
- *Process.* A late chain-id answer; a drain ending behind answered requests.
- *Clients.* Reads retried before a signature, no signature for a caller that
  has gone, several payments over one sequence.
- *Seller and page.* One payment per reading, while a terminal and the wallet
  may both pay; a full visit book; a facilitator that is down at start.

`PROJECT.json` lists the hazards one by one, at their lines, with the properties
that would catch each.

## Modules

| Module | Models | Role |
|---|---|---|
| `SignedPayments` | a signed payment: its hash, and the account sequence it spends | shared constants |
| `Chain` | the chain and its nodes (external) | component |
| `Settlements` | `settlements.go`: the record and its methods | component, as operators on a record |
| `Facilitator` | `facilitator.go`, `node.go`, the answer timeout and restarts, over `Chain` and `Settlements` | composition, properties |
| `SettlementPromise` | what settling promises, with no record, request, node or mempool | abstract specification |
| `MCFacilitator` | the instances for TLC | model checking |
| `RateLimiter` | `ratelimit.go`: the table of buckets, its sweep and its clock | component, properties |
| `RatePromise` | what throttling promises, with no table, sweep or clock | abstract specification |
| `MCRateLimiter` | the instance for TLC | model checking |
| `ExactScheme` | the rules of an offer, as `server/exact`, `client/exact` and `facilitator/exact` state them | operators |
| `Verification` | `facilitator.go`'s `check`, `account.go`, over the accounts of the chain | component, properties |
| `MCVerification` | the offers and payments for TLC | model checking |
| `Purchase` | `client/exact/scheme.go` from `Prepare` to `Payload`, composed with `Verification` | component, properties |
| `MCPurchase` | the instance for TLC | model checking |
| `Endpoints` | `facilitator/facilitator.go`: a request's way from its body to the words of its answer | component, properties |
| `Process` | `cmd/gnofacilitator/main.go`: the chain-id check, the listener, a request's timers, the drain | component, properties |
| `Sale` | `paywall.js`, `buy.mjs`, `x402-gno/`, the seller's paid route and the SDK's middleware (external), over `Facilitator` and `VisitBook` | composition, properties |
| `VisitBook` | `visits.go`: the book and its methods | component, as operators on a book |
| `Visits` | the book under any order of payments, and a clock | component, properties |
| `SellerRate` | the seller's `ratelimit.go`, and what it lets through to the facilitator; refines `RatePromise` | component, proved about, not run |
| `MCEndpoints`, `MCProcess`, `MCSale`, `MCVisits` | their instances for TLC | model checking |
| `FacilitatorProofs` | theorems: types, claims, success once, what the record knows of admitted payments, the refinement | proofs |
| `SaleProofs` | theorems: types, readings sold, shown and paid for once, what a refusal means | proofs |
| `PurchaseProofs` | theorems on `Verification`: types, what is accepted, named, refused as spent, payable; and on `Purchase`: types, what a client signs, at what fee, over which account, and what it is told | proofs |
| `EndpointsProofs` | theorems: what an answer establishes, and the hash it reports | proofs |
| `RateLimiterProofs` | theorems: types, the table's bound, the rate, the refinement | proofs |
| `ProcessProofs` | theorems: types, the chain-id check, the drain | proofs |
| `VisitsProofs` | theorems: types, the book's bound, what a page finds and loses | proofs |
| `SellerRateProofs` | theorems: types, the refinement, when the facilitator admits what the seller does | proofs |

`Sale` EXTENDS `Facilitator`, which EXTENDS `Chain` and uses `Settlements`: a
handler's call to `/settle` is a request of `Facilitator`, with its claim, node
calls, timeouts and restarts, so a property of `Sale` ranges over the page, the
seller, the facilitator and the chain at once.

### State and actions

A *payment* is a signed transaction named by its hash; two payments signed over
one account sequence are *rivals*, of which the chain executes at most one. The
record of a process is a function from payments to entries; a key the map does
not hold is an `"unclaimed"` entry. `record[f]`, `phase[r]`, `pay[r]` and
`ended[r]` are the process's record, where request `r`'s goroutine is, what it
settles, and whether its context is done. `answer` is what `Settle` returned in
the last step. `paid`, `sent` and `everPaid` are history: when success was last
returned for a payment, when a node last admitted it, and every payment ever
reported settled. No action's guard reads them.

| Action | Code |
|---|---|
| `Claim`, `RefuseDuplicate` | `Settle` up to the choice between `delivery` and `settle` (`facilitator.go:153-177`), with the sweep `claim` begins with |
| `ReadAccount`, `Simulate` | `checkOnChain` (`:369-397`), and the look at the context after it (`:220`) |
| `StartBroadcast` | the call at `:223` begins; nothing looks at the context again |
| `Admitted`, `RefusedByNode`, `Unanswered` | what `Broadcast` returns (`node.go:128-140`) and what `settle` makes of it |
| `Delivered`, `NotDelivered` | how `AwaitDelivery` ends, the answer and the record that follow |
| `Panic` | a panic in a settle, which `net/http` recovers, and the deferred release |
| `End` | the answer timeout, or the caller going away |
| `RestartProcess` | a stop at any point and a start with an empty record |
| `Tick` | the clock, over every time recorded |
| `ChainStep` | gossip, blocks, lagging nodes catching up, nodes restarting |

Each call to a node is a step of its own, so anything may happen between two of
them. The deferred `record` or `release` is part of the step that decides the
outcome: between them nothing of the goroutine touches what another can see.
`Settlements` is written as operators because every method holds the mutex from
its first line to its last.

The rate limiter stands alone: it runs before a request is read, and nothing it
keeps is seen by a settle. `now` is the clock `cfg.Now` gives, `buckets` the
map, `lastSweep` the field of that name. `allow` holds the mutex throughout, so a
request is one step: it sweeps if a sweep is due (`Due`, `Kept`), measures the
peer's bucket (`Tokens`), and is granted, refused, or turned away from a full
table (`Grant`, `Refuse`, `TurnAway`). `Tick` and `StepBack` move the clock.
`granted`, `elapsed` and `steady` are history.

`Verification` follows one check of one payment, which `/verify` and `/settle`
share: `CheckOffline` is every rule that needs no chain, in the code's order;
`ReadSigner` the account read and what `verifySignature` makes of it; `Simulate`
the simulation; `CallFails` a call that reached no node. `check` is the
`paymentCheck` being put together, with what it is of. The mechanism keeps
nothing from one check to the next, so a behaviour has one, at any point of the
accounts' lives. `sequence[a]` is the sequence of account `a`, `NoAccount`
while the chain holds none; `Open` and `Spend` move it between any two calls. A
node that answers may be at an earlier block, and may not hold an account, which
also stands for a session revoked (`Answers`).

`Purchase` puts the Go client before it. `Ask` is `Prepare` up to its first call
(`readTerms`, `withinCap`); `ReadChainID`, `ReadGasPrice` and `ReadAccount` are
the calls, in order; `ReadFails` is an error of any of them; `Look` is the look at the
context, `Sign` and `SignatureFails` the signer and `Payload`; `Pay` presents
the payment. `Leave` is the caller giving up, at any step. The client keeps
nothing between payments, so the payer's others are among what `Spend` is.

`Sale` follows paid requests. `Click`, `Decline` and `WalletPays` are the page's
click handler up to the request it sends; `TerminalPays` a buyer run from a
terminal; `Resend` a browser's transport, which sends a request again when its
connection breaks. `Verify`, `CallSettle`, `Answer` and `Record` are a handler of
the seller: the middleware's verify and settle, the settle of a pending payment
again (`After`), the answer, and `recordSettled` behind it. `SettleMoves`,
`SettleUnheard` and `FacilitatorRestarts` are `Facilitator`'s steps, with what a
handler hears of them; `LoseAnswer` is a connection that breaks for good.
`PageHears` is what the page makes of its answer (`OutcomeOf`, `mayStillSettle`),
`Ask`, `AnswerLookup`, `LookupFails` and `HearLookup` the lookup of a payment made
from a terminal, which a click may overtake, and `Reload` the visitor. `waits`,
`heard` and `page` are what each side knows; `loads` and `readings` are history.

`Process` follows one process. `query` is the goroutine that asks for the chain
id (`QueryAnswered`, `QueryFails`, `QueryAgain`), `main` the goroutine that waits for
it (`Hear`, `Watchdog`), listens, and drains (`Listen`, `Signal`, `ServeFails`,
`Stop`). A request is its timers: `"new"` while net/http reads its headers,
`"open"` while its handler runs, `"behind"` once it was answered for and its
handler runs on.

`SellerRate` is the seller's bucket (`Allow`, `Refuse`, `Tick`) and the calls that a
request let through makes at the facilitator's bucket for the seller: its verify at
once, its settle, and the settle of a payment left pending, up to `Delay` ticks later
(`Settle`), unless they are not to be made (`Drop`). `owed[a]` counts the settles that
the requests of the last `a` ticks may yet make. `Visits` is `record` and a clock; `lookup` changes nothing, and what
it would answer is `Findable`. `Endpoints` is one request: what it is made of, what
the mechanism concluded, what was answered.

### Abstractions

- Time is an age in ticks, counted up to `TTL + 1`: the code distinguishes only
  ages within `settlementTTL` and past it.
- A hash is a Boolean: the only hash a payment can be recorded under is that of
  its own bytes.
- In `Facilitator`, requests are on payments `checkOffline` accepts. A payment it
  refuses returns before the claim and touches nothing. `Verification` has the rules.
- The strings of an offer are members of small sets. What the chain's coin parse
  makes of an amount and an asset, concatenated, is a constant (`ParsedCoins`)
  of which only one thing is assumed: a plain amount and a denomination make one
  coin of just that, or none. What an address decodes to is a constant too.
- The rules that only look at the structure of a transaction fold into its
  `shape`, by the reason they give; the two keys of `extra` a mechanism must
  support fold into `terms`.
- A signature is who made it and over which chain and sequence. An account's number
  is left out: it is taken to agree wherever the address and the chain do. A client's
  fee is counted in units of the one coin fees are paid in.
- In `Purchase`, a node of another chain than the facilitator's answers any sequence.
- The chain's own reasons to refuse (balance, session limits) are a choice in
  `Simulate` and in a block's outcome.
- An error a node gives for a payment its mempool already holds is no
  `abci.Error`, so it is `Unanswered`.
- The deadlines of calls are not counted: a call may take any number of ticks,
  which includes every duration the code allows.
- Anyone may broadcast a signed payment (`Hear`), which also covers a broadcast
  call that arrives after its caller gave up.
- Tokens are whole units, of which one refills in a tick and a request costs
  `Cost`, where the code has fractions of a token and a rate. The unit is the
  largest that divides both, so no rounding is lost between whole ticks; the
  error of floating point is not modelled.
- A peer is a key `peerAddress` narrows an address to.
- No clock runs in `Sale`: a sale is shorter than `settlementTTL` and `visitTTL`,
  which `Facilitator` and `Visits` let pass. A page asks for a terminal's payment
  for as long as it is open, where the code stops after `VISIT_WATCH_MS`.
- `Sale`'s `Verify` is what `Verification` may conclude: valid only at a node where
  the payment's sequence is unspent, refused or without a verdict at any time. A buyer
  signs over a sequence some node's account stands at (`AtSequence`).
- In `Process` a timer fires when it is due, and a node that does not hang answers
  at once: time does not pass otherwise. Two timers due together fire in either
  order. `ready` counts how long the node has been answering, and is history.
- In `Process`, a connection carries one request; an idle connection is closed at
  once by `Shutdown` and is left out.
- `SellerRate`'s tick is a fifth of a second at the default rates: one token of the
  seller's, `FacilitatorRate` of the facilitator's, two by default. How late a settle
  may come is `Delay`, in ticks.
- `Endpoints` has the shape of a request's parts, not their bytes: absent, no JSON,
  JSON that the engine refuses, or fit.
- `time.Now` is read just before the record is locked; the model reads it in
  the same step.

## Runs

Deadlock is not checked, since every run may stop: `throttle`'s clock stops at a
bound; `verify`, `purchase` and `endpoints` end with their check or request, and
`process` with its process; once every payment has been executed and every age is
past the TTL, the runs of `MCFacilitator` may rest, as may those of `MCSale` when
nothing is left to pay. `visits` never does, and leaves it unchecked as they do.

| Run | Instance | Checks |
|---|---|---|
| `settle` | one process, nodes `n1` (may restart) and `n2` (may lag) behind one endpoint, two rival payments, both presented, three requests, TTL 2 | `TypeOK`, `RecordHasGrounds`, `NotBroadcastAgain`, `SettledOnce`, `KeepsPromise`, `HashlessDuplicateMeansFirstSettle` |
| `replicas` | one payment that a browser may send again, two handlers of the seller, two processes that may restart and panic, with two settles and one, one node that keeps up and does not restart, reloads, TTL 1 | `ClaimIsHeld`, `SettledOnceEver`, `OneReadingPerPayment` |
| `progress` | one process whose settles may panic, one node that may restart, two requests, TTL 2, with fairness | `ClaimsEnd`, `PendingEnds` |
| `duplicate_hash` | as `settle`, two requests, one payment presented | `DuplicateCarriesHash`, violated |
| `throttle` | three peers, a table of two, a burst of a request and a half (3 units of which a request costs 2), sweep interval 2, nine ticks forward and any steps back | `TypeOK`, `TableBounded`, `WithinRate`, `OnlyRecentPeersHeld`, `TurnedAwayOnlyByAFullTable`, `KeepsRatePromise` |
| `verify` | every offer that differs from a sound one in one key or in its memo and one more; payments that differ from a sound one in what they send, or in how they are signed; two payers and a session; two transactions of each account | `AcceptedPaysTheOffer`, `PayerNamedOnlyIfProven`, `MismatchMeansSpent`, `ListedTermsAccepted` |
| `purchase` | a buyer with an account and a session, a node of either of two chains, sound offers and offers only some roles take, six gas prices, three caps, three transactions of each account | `TypeOK`, `PaysWhatWasShown`, `FeeCoversTheNextBlock`, `AbandonedNotSigned`, `SignedOverItsChain`, `OwnPaymentIsUnderstood` |
| `visits` | four pages for a book of two, two payments, a lifetime of three ticks, ticks without bound | `CrowdedOutByNewer`, `FirstStays` |
| `sale` | a visitor with three payments to sign, two over one sequence and one over the next, and a terminal buyer with one under the same visit; two handlers, two settles; nothing restarts | `RefusedIsNotCharged`, `OnePaymentPerReading`, `ShownIsPaid`, `SentStays`, `PayingIsAnswered` |
| `sale_restart` | the visitor alone, and the facilitator may restart | `OnePaymentPerReading`, violated |
| `process` | a window of four retries, a node that may hang past it, two requests with timers in the code's order | `MismatchCaught`, `StartsInTime`, `DrainCoversRequests`, `GivesUpOnlyOnSilence` |
| `endpoints` | every request, each part sound or not in each way, and every conclusion | `VerdictsAreEstablished`, `HashReported` |

What they show:

- `settle`: on every interleaving, what is recorded has grounds on the chain or in a
  node's answer;
  a payment a node admitted is neither checked nor broadcast again while that is
  remembered; success is not returned twice within the TTL, even with a node
  that admits a second copy and answers it with the first one's delivery; and
  the whole implements `SettlementPromise`.
- `replicas`: a payment is claimed exactly while one settle of the process runs for
  it, panics included; with a node that has executed every block and keeps its
  mempool, the chain makes up for what processes do not share, so that two copies
  of a request, side by side, with facilitators that may forget, sell one reading.
  It also shows why `Unanswered` must be no verdict: waiting on such a payment
  reports it settled by two processes.
- `progress`: a settle gives its claim up, by a panic if not by an answer, and a lost payment's record lapses
  though it is presented again and again, because a reconcile does not renew its
  time.
- `throttle`: forgetting a bucket, at an interval or at the ceiling, never grants
  a request nor costs one; the table stays within its ceiling; a peer it turns
  away was not held, and every place is taken by a peer that has yet to refill;
  and a clock that steps back refills nothing twice.
- `verify`: what the facilitator accepts pays the offer and is its payer's; it
  names no payer it has no signature of; `sequence_mismatch` means that the
  payment is spent, even when the answer came from a node that lags; and a
  payment that pays an offer a seller could list is refused by no rule on price,
  memo or terms that the seller's scheme did not apply, though the seller only asks
  that the coin parse take the price where the payer asks for a plain one. The payee
  is apart: the scheme does not look at it, and one of the offers it lists here names
  no canonical address, so that no payment pays it.
- `purchase`: the payer signs for the amount and the asset as written, or not at
  all; over the chain it names; not for a caller seen to be gone; at a fee that
  survives one more rise of the price by a unit; and a facilitator that then
  refuses the payment says something the payer can act on, whatever the accounts
  and the nodes do in between.
- `visits`: while a page finds a payment it finds the first one recorded, though a full
  book may forget it and a later one take its place; and it loses one early only to
  payments no older. It is of records: a seller records behind its answers, and not
  always in the order the payments settled in.
- `sale`: a buyer who is told of a refusal is not charged, whatever answers were
  lost between the chain and the page; and while the facilitator stays up and the
  browser sends a request once, the payments a page signs charge the visitor once.
  The page shows a reading only for an executed payment, keeps showing one that may
  still settle, and a lookup that was asked before a click and answered after it
  changes nothing: a page that pays changes only by the visitor, by a failure before
  the signature, or by the answer to its own payment.
- `process`: a mismatch heard before the watchdog fires is fatal, after however
  many failures; the window bounds a call that hangs; a node that has been
  answering is not given up on; and the drain outlives every handler a seller waits for.
- `endpoints`: no answer of the mechanism changes its kind or loses its hash, and an
  unserved scheme is not answered as an unserved network.

Why the bounds are enough. In `verify` and `purchase`, the staleness probe tells a
payment's own sequence, the next and later ones apart, which accounts of two and three
transactions reach; each rule looks at one or two keys, so payments and offers that
differ from a sound one in one or two reach each of them, both ways. In `throttle`,
three peers for two places are what a full table takes, and the interval is as long as
a request takes to refill, so a bucket may be full before a sweep comes; nine ticks
hold an interval, a refill and steps back between them, after which a table swept on
time holds no one unseen since. For the rest, two rivals are what it takes for a sequence to be spent
elsewhere; a third adds none. Two nodes separate the one that knows a block from the
one that does not. Three requests give a holder, a copy and one that comes later. TTL
2 leaves a tick between stamping an entry and its lapse, so an entry can be re-stamped
midway; `replicas` needs only that entries lapse, and its third settle is the other
process's. In `sale` and `sale_restart`, two payments over one sequence and one over
the next are the two ways a second payment can meet the first; two handlers and two
settles are the middleware's two calls and a copy. With reloads `sale` is out of TLC's
reach; they happen in `replicas`, to one payment, and `sale` has the lost answers that
a reload amounts to for its payment. In `process` every duration is longer than the
tick and keeps the code's order, so each timer can be due before, after and with its
neighbours. In `visits`, four tokens for two places leave two to crowd out, and three
ticks separate the older of two payments in their time. The theorems below hold for
any number of each.

### Disagreements with the documentation

- `duplicate_hash`: `docs/deploying.md:180` says a copy refused as
  `duplicate_settlement` carries the transaction hash once a node admitted the
  payment. The entry learns the hash only when the first settle records its
  outcome, so a copy presented during that settle's wait for a block, up to 10 s,
  is refused without it. What does hold is `HashlessDuplicateMeansFirstSettle`:
  once a settle has answered with the hash, no copy refused while the entry lasts,
  for `settlementTTL`, misses it.
- `sale_restart`: `paywall.js:582-583` says that a payment that may still settle
  withdraws the button. A facilitator that restarts between the middleware's two
  settles of a pending payment has forgotten it, so the second settle is
  refused as already spent; the page takes that for a refusal, and asks for a fresh
  signature of a payment that was executed. `sale` shows that the restart is needed.

Six more were met while modelling. The models have their steps, but for what a
terminal buyer prints and for the order in which two payments settle, and no run
checks them:

- `docs/deploying.md:187` says that a `/settle` answered 503 starts no broadcast
  after that answer. The look at the context and the broadcast are two steps
  (`End` may come between `Simulate` and `StartBroadcast`).
- `docs/deploying.md:166-167` says that the drain covers a `/settle` in flight. It
  covers the requests (`DrainCoversRequests`); a settle that runs on behind its 503
  (`"behind"`) is cut off by an exit that is clean.
- `docs/deploying.md:184` says that a 503 does not mean that the buyer did not pay.
  Both terminal buyers print `not paid` for a settlement without a verdict
  (`x402-gno/main.go:405-408`, `buy.mjs:242`). What does hold is
  `RefusedIsNotCharged`, of refusals.
- A browser whose transport sends the paid request again (`Resend`) has the copy
  refused by verify, in a fresh challenge, and the button comes back, against
  `paywall.js:582-583`. The Go buyer guards itself against this
  (`x402-gno/main.go:241-244`).
- `visits.go:62-63` says that the page shows the payment that settled first. It shows
  the one recorded first (`FirstStays`): `recordSettled` (`visits.go:107-111`) records
  behind the response, so of two payments settled together under one visit, the
  second may be recorded first, and stays.
- `examples/weather/ratelimit.go:10-13` says that the seller's rate, 5 a second with
  a burst of 10, spends no more than the facilitator's, 10 a second with a burst of
  20, admits. Settles come after their verifies: a request is let through and verified,
  a fifth of a second later both buckets are full again, and a burst of ten comes;
  the ten and the first request's settle are twenty-one calls at once. And a payment
  left pending is settled once more, three calls for a request. `Generous` (in
  `SellerRate`) is what would be enough.

### Fairness

`Fairness` asks that a settle that can take its next step takes it
(tm2's RPC client times every call out after 60 s, and the wait for a delivery
has a deadline, so no call hangs for ever), and that the clock runs. Nothing is
asked of the chain, of other nodes, or of restarts: `progress` allows a payment
to leave every mempool and never land. `FairSpec` adds a hypothesis on the
environment, that each payment keeps being presented, which is what
`settle_test.go:348-352` drives: it is the case where a pending entry could be
kept alive.

No other run assumes fairness: `Sale` and `Process` are checked for safety alone.

## Proofs

### Settling

`FacilitatorProofs` proves, from the constants' assumptions alone
(`SpendsAssumption`, `ChainAssumption`, `TTLAssumption`,
`FacilitatorAssumption`), for any number of processes, requests, nodes and
payments, with or without panics but for `AdmittedNotBroadcastAgain`:

- `TypeCorrect`: `Spec => []TypeOK`
- `ClaimHeldByOne`: `Spec => []ClaimIsHeld`
- `SettledOncePerProcess`: `Spec => SettledOnce`
- `PromiseKept`: `Spec => KeepsPromise`, the refinement
- `GroundsForRecord`: `Spec => []RecordHasGrounds`
- `HashKeptForCopies`: `Spec => HashlessDuplicateMeansFirstSettle`
- `AdmittedNotBroadcastAgain`: `Spec => []NotBroadcastAgain`, if nothing panics
- `SettledOnceBehindOneNode`: `Spec => SettledOnceEver`, if there is a node `n` with
  `OneNode(n)`

None of these is inductive as it stands. `SettledOnce` needs that a recent
success is remembered: `PaidIsRecorded` says a payment reported settled within
the TTL is recorded settled, with the same age, so a second settle finds it and
is refused. That in turn is only preserved because no settle is under way for a
payment recorded settled, which is `ClaimIsHeld`; and `ClaimIsHeld` needs that a
request is idle exactly when it names no payment (`RequestOK`). Together they
are `SettleInv`, proved action by action.

The refinement adds `ChainInv`: a node has executed nothing the chain has not, a
node that does not lag has executed everything the chain has, and no mempool
holds a payment whose rival its node has executed. A block is proposed by a node
that keeps up, so it executes a payment none of whose rivals is executed, and
each verdict a settle reports is the block's own.

`GroundsForRecord` rests on `GroundsInv`: besides what the record holds, a settle
waiting for a delivery was itself told of an admission, and a claim taken over a
pending entry keeps its hash. `AdmittedNotBroadcastAgain` rests on `MemoryInv`: a
recent admission is recorded, no earlier than it was heard, or the settle that
heard it, or a reconcile of it, is still waiting. The theorem assumes that
nothing panics because a panic while reconciling runs the deferred release and
forgets the admission (`facilitator.go:158-165`); the hypothesis marks what the
code relies on there.

`OneNode(n)` says that every process calls the node `n` and no other, and that `n`
executes each block at once and keeps its mempool; it is the instance `replicas`
checks. The processes may be any number, restart, panic, and share nothing. With a
second node the property fails, and TLC finds it: a process calls the one that lags,
which admits a copy of what a block executed, and answers it with the first one's
delivery. `OnceInv` is the argument: while a process knows an admission of a payment,
in its record or in a settle that waits, the node refuses copies of it, so a second
process cannot come to know one (`Knows`); what it forgets nobody learns again.

Only model-checked: `ClaimsEnd` and `PendingEnds` (liveness under fairness, which the
proof system does not reach).

### Verification

`PurchaseProofs` proves, from `OffersAssumption` and `AccountsAssumption`
alone, for any offers, payments, keys, accounts and coin parse:

- `VerificationTypes`: `VerificationSpec => []CheckTypeOK`, which no run repeats
- `AcceptedIsOwed`: `VerificationSpec => []AcceptedPaysTheOffer`
- `NamedPayersAreProven`: `VerificationSpec => []PayerNamedOnlyIfProven`
- `MismatchIsSpent`: `VerificationSpec => []MismatchMeansSpent`
- `ListedTermsAreAccepted`: `VerificationSpec => []ListedTermsAccepted`

`AcceptedPaysTheOffer` is not inductive: it says nothing of a check under way.
`UnderWayIsSound` does: a check that reads the account has passed the offline
rules, and one that simulates has also found the payer's signature. Two lemmas carry the
rules: `OfflineMeansPays`, that a payment the offline rules pass pays its offer
in one coin, and `ListedPassesOffline`, that they pass every payment of a listed
offer. Two carry the signature: `VerifiedIsThePayers`, that a signature
verified against the account of a payment is that payer's or its session's,
including where the account stores no key and takes up the one the signature
names; and `SignedIsFresh`, its converse. `MismatchMeansSpent` is kept as
accounts move because sequences only grow (`SequencesGrow`).

Everything `verify` checks is proved.

### A client's purchase

It goes on, from `ClientAssumption` besides, to all that `purchase` checks, for any
offers, gas prices, caps, keys and nodes:

- `TypeCorrect`: `Spec => []TypeOK`
- `SignsWhatWasShown`: `Spec => []PaysWhatWasShown`
- `FeeHoldsForABlock`: `Spec => []FeeCoversTheNextBlock`
- `GivenUpIsNotSigned`: `Spec => []AbandonedNotSigned`
- `SignsOverItsChain`: `Spec => []SignedOverItsChain`
- `RefusalsAreUnderstood`: `Spec => []OwnPaymentIsUnderstood`

`PurchaseInv` joins `CheckInv`, which the facilitator's steps keep whoever made the
payment, with what a client has established on its way (`ClientInv`, by phase: the
terms, the chain its node serves, a price it can pay, an account read on that chain)
and with what a check under way is of (`CheckedInv`: a payment signed with the key of
its account). `SignedTx` and `SignableIsListed` show that what is signed pays an offer
its seller could list, so `ListedPassesOffline` applies: no rule refuses it.
`WhatStatesMean` reads the reason of a refusal back: a node that finds the signature
spent is one past it, since at the payment's own sequence it is fresh
(`SignedIsFresh`) and at the next one consumed (`SignedIsConsumed`). The fee rests on
`RoundedUpCovers`, that a quotient rounded up covers its dividend, and on the margin
of two: twice a price of at least one is at least the price and one more.

### Rate limiter

`RateLimiterProofs` proves, from `LimiterAssumption` alone, for any peers, burst,
interval and ceiling:

- `TypeCorrect`: `Spec => []TypeOK`
- `TableIsBounded`: `Spec => []TableBounded`, for any set of peers, infinite ones
  included: the invariant also says that the table is finite
- `RateIsKept`: `Spec => []WithinRate`
- `RecentPeersHeld`: `Spec => []OnlyRecentPeersHeld`
- `CrowdedOutByTheFull`: `Spec => TurnedAwayOnlyByAFullTable`
- `RatePromiseKept`: `Spec => KeepsRatePromise`, the refinement

They rest on one lemma: what a peer may spend after the sweep (`Tokens`) is what
it could spend before it (`Credit`), because a bucket is forgotten only when it
has refilled. `WithinRate` alone is not inductive, since it says nothing of what
is still to be spent; `RateInv` adds the credit to it, `granted * Cost + Credit
<= Burst + elapsed`, which a grant and a tick both preserve. `OnlyRecentPeersHeld`
rests on `RecentInv`: a bucket held is no older than a refill before the last sweep,
and a request that was just answered found, or made, a sweep less than an interval
old. A clock that steps back ages neither, and a sweep dated after the clock is due
again.

Everything `throttle` checks is proved.

### HTTP layer

`EndpointsProofs` proves, from `EndpointsAssumption` alone, for any rules of a check:

- `VerdictsEstablished`: `Spec => []VerdictsAreEstablished`
- `HashIsReported`: `Spec => []HashReported`

The assumption says that no rule of a check is a code of the engine's, or about the
network: the server registers its mechanism for the one network that mechanism
serves, so the mechanism's own `invalid_network` is not reached. `Conclusions` lists
what the mechanism may say, where only a refusal that names a transaction has a hash.

Everything `endpoints` checks is proved.

### Process

`ProcessProofs` proves, from `ProcessAssumption` alone, for any number of requests
and any durations in the order that assumption states:

- `TypeCorrect`: `Spec => []TypeOK`
- `MismatchIsCaught`: `Spec => []MismatchCaught`
- `CheckEndsInTime`: `Spec => []StartsInTime`
- `SilenceOnly`: `Spec => GivesUpOnlyOnSilence`
- `DrainCovers`: `Spec => []DrainCoversRequests`

`ProcessInv` ties the three clocks together. While the check runs, the window has
not passed and an answer that waits came before its end, so a mismatch cannot be
overtaken by the watchdog before the window is over; the node has been answering for no
longer than the query has been resting. Of a request, the drain is never
older than the handlers' clocks allow: one that was there when it began is answered
for within the answer timeout, which is shorter than the drain.

### The sale

`SaleProofs` extends `FacilitatorProofs`, from `SaleAssumption` besides, for any
number of payments, pages' and terminals', handlers, requests, processes and nodes:

- `SaleTypeCorrect`: `SaleSpec => []SaleTypeOK`, which no run repeats
- `ShownReadingIsPaid`: `SaleSpec => []ShownIsPaid`
- `SentOutcomeStays`: `SaleSpec => SentStays`
- `PayingAnsweredByItself`: `SaleSpec => PayingIsAnswered`
- `OneReadingBehindOneNode`: `SaleSpec => []OneReadingPerPayment`, if there is a node `n`
  with `OneNode(n)`
- `SaleSettlesOnceBehindOneNode`: `SaleSpec => SettledOnceEver`, likewise
- `SaleKeepsPromise`: `SaleSpec => KeepsPromise`, the refinement of `SettlementPromise`
- `SaleSettlesAsClaimed`: `ClaimIsHeld`, `RecordHasGrounds`, `SettledOnce` and
  `HashlessDuplicateMeansFirstSettle` of `SaleSpec`
- `RefusedWasNotCharged`: `SaleSpec => []RefusedIsNotCharged`, if `Steady`
- `OnePaymentPerPage`: `SaleSpec => []OnePaymentPerReading`, if `Steady`

Each step of a sale is a step of the facilitator or the chain, or leaves both alone
(`SaleMoves`). The lemmas of `FacilitatorProofs` are about such steps (`Moves`), so
what it shows of the facilitator by itself holds here too, and the proofs start from
`PromiseInv` (`BaseInv`) and, for one node, from `OnceInv`.

`ShownIsPaid` relates a page to the chain at four removes: `PaidInv` says it of each,
that success was returned for what a handler has a receipt of, for what a buyer was
told is settled, for what the book holds and for what the page shows.
`OneReadingPerPayment` needs that no two handlers are about to answer for one
payment (`ReadInv`): a handler gets a receipt in the step in which a process returns
success, and no process did before (`SettledOnceEver`).

`Steady` says that one process settles, that nothing restarts it, and that no browser
sends a request twice; a visitor may reload, requests may time out, settles panic,
answers be lost, and nodes lag, restart and drop payments. The run `sale_restart`
shows what a restart does, and a second process to which the middleware's second
settle goes does the same; what `Resend` does is in the list of disagreements above.
`RefusalInv` is why it is enough. A payment that is refused by verify or by a settle
was sent to no node (`loose`), and no process has anything recorded or under way for
it (`Untouched`); the middleware's second settle follows a `settlement_pending`, when
the record holds the payment, so it reconciles and does not check the payment anew
(`HandlerRests`). What ties the two is that a payment has one handler, since it is
signed once and sent once. `LoadsInv` adds the page: its button is there only while
all payments signed since the last load were refused to it, and a click in hand is the
one exception.

TLC checked `RefusalInv` and `LoadsInv` as invariants of `sale`'s instance, with
reloads, before they were proved.

### The seller

`VisitsProofs` proves, from `VisitAssumption` alone, for any tokens (finitely
many), payments, lifetime and ceiling:

- `TypeCorrect`: `Spec => []TypeOK`
- `BookIsBounded`: `Spec => []BookBounded`
- `FirstIsKept`: `Spec => FirstStays`
- `CrowdedOut`: `Spec => []CrowdedOutByNewer`

`RoomMade` counts what a full book forgets. `CrowdInv` says that what the book holds
in its time is what was last kept; a payment crowded out finds the book full of
younger ones, and whoever crowds one of those out is younger still.

`SellerRateProofs` proves, from `RateAssumption` alone:

- `TypeCorrect`: `Spec => []TypeOK`
- `BackstopKeepsPromise`: `Spec => KeepsRatePromise`, the refinement
- `GenerousAdmitsTheSeller`: `Spec => []WithinTheFacilitatorsRate`, if `Generous`

`Generous` says what a facilitator must admit so that it throttles no call of a
request the backstop let through, whatever the delay of its settles and whether it
settles once or twice: in a tick, a verify and the settles of one token; at once,
those of a burst, with the settles that the requests of `Delay` ticks may still owe.
The argument has two parts. `RateInv` bounds what is owed: the settles the requests of
the last `a` ticks may yet make, with those the tokens left would add, are at most
those of a burst and `a` tokens more. `CoveredInv` says that the facilitator's credit
covers a verify and the settles of each token left and all that is owed; a tick keeps
it, by the rate while the bucket fills and by the first bound where it is full. The
default facilitator is generous to requests that settle once and within the tick
(`Delay = 0`, `Settles = 1`), and to no others, which is the disagreement above.
`SellerRate` is checked by these proofs and by no run.

### Only model-checked

`ClaimsEnd` and `PendingEnds`, under fairness. That `OneReadingPerPayment` and
`SettledOnceEver` hold of more nodes than one is neither proved nor true.

## Plan

In the order of what matters most.

1. **Settling** (done): `SignedPayments`, `Chain`, `Settlements`, `Facilitator`,
   `SettlementPromise`, `FacilitatorProofs`.
2. **Verification pipeline and the rules of an offer** (done): `ExactScheme`,
   `Verification`, proved about in `PurchaseProofs`.
3. **Rate limiter** (done): `RateLimiter`, `RatePromise`, `RateLimiterProofs`.
4. **Process** (done): `Process`, `ProcessProofs`; the HTTP layer, `Endpoints`,
   `EndpointsProofs`.
5. **Seller and page** (done): `VisitBook`, `Visits`, `VisitsProofs`, `Sale`,
   `SaleProofs`, `SellerRate`, `SellerRateProofs`.
6. **The Go client** (done): `Purchase`, `PurchaseProofs`.
7. **Every run's safety properties proved** (done): `SaleProofs`, `EndpointsProofs`.
8. **More proofs**: that a sale keeps what `Visits` promises of the book; and that what
   `Facilitator`'s `Simulate` and `Sale`'s `Verify` take for granted of a check is what
   `Verification` concludes.

## Not modelled

- Wire formats, logging, the wording of errors, flags, and builds.
- `examples/weather/sync.go`: one goroutine that asks for the facilitator's support
  until it answers, each question with a deadline, and installs it under a lock of
  the x402 SDK whose source is not here.
- `client/src/chain-read.ts`: a bounded retry around one account read, one call at a
  time.
- `examples/weather/serve.go` and `main.go` beyond the paid route: a listener
  and routes that keep no state. The readings themselves.
- Of the page, what is drawn, the wallet's own dialogue, how long each wait is, and
  the give-up after `VISIT_WATCH_MS`.
- `client/src/exact/client.ts`: its checks of an offer are the Go client's rules
  (`ExactScheme`) in another language.
- Keys kept in gnokey's keybase (`client/exact/keybase`), which the client asks for
  one signature.
- `facilitator/exact/exacttest` and the other test support.
- The chain's own state machine and the SDK's, beyond what the code here observes of
  them.
