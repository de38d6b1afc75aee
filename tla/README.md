# KeenPay: a verification development

TLA+ modules of the parts of KeenPay that move, promise or guard money, the TLC
configurations that check them on small instances, and proofs, checked by the
TLA+ proof system, that the main properties hold for every instance.

KeenPay is a FastAPI service (`src/api`), two background workers
(`src/workers`), a set of SQL migrations (`src/db`) and a small front end. A
customer's agent negotiates an offer in a *session*; a deterministic *policy*
judges it; a confirmed offer becomes a payment link and an *order*; the
provider's *webhooks* settle the order. A second path charges orders directly
(`POST /payments`) under *idempotency keys* and is repaired by *reconciliation*.
*Campaigns* fund discounts from a capped budget. *Authorizations* are the human
gate in front of risky actions. A third path sells from a *catalogue* through
*carts*, which an *AI runtime* in another process fills on a buyer's behalf.
Around all of them: sign-in, credentials, rate limits, the audit chain and the
SQL layer that keeps merchants apart.

## How the program runs, and what a step is

The API is one asyncio thread. A handler runs without interruption from one
`await` that really suspends to the next, so an action of a module is one such
segment. What suspends is decided from the code:

* The repositories as wired are dictionaries in process memory; awaiting them
  never suspends. Calls to the payment provider (httpx) do. The trace publish to
  Redis does, unless `use_in_memory_store` is set.
* Catalogue, carts, opportunities, policy, risk, sign-in, credentials, rate
  limits and the audit ledger await nothing else: one action per call.
* `CampaignBudget` interleaves at every await although the wired repository
  does not suspend: its repository also has a SQL form, whose UPDATE is where
  the hard cap is claimed, and the module covers both.
* `Webhooks` suspends at the order repository's calls, for the same reason.
* `Authorization` has a variable, `suspends`, that a behaviour begins with and
  keeps: FALSE is the wired repository, TRUE lets another call run between every
  check and its write, as it would with the repository over a database that the
  code announces. The run covers both.
* `AgentRun` is the AI runtime, a process of its own: one action per tool call,
  which is an HTTP request whose answer may be lost; merchants edit the
  catalogue between two of them.
* `TenantStore` is the SQL layer: one action per statement of a transaction. A
  statement that would wait for another transaction's row is not enabled.

The provider is external. It is modelled from how the code uses it: it does or
does not do what was asked, and its answer arrives, is odd, is a refusal, or is
lost. A 4xx answer is taken as "nothing was done", as the code takes it.

## Components

| component | state | operations | interacts with | modelled |
|---|---|---|---|---|
| Payment engine `services/payments.py`, `repositories/payments.py`, `modules/payments` | payment records, attempts | create, status, refund | provider; keys; orders | `Payments` |
| Reconciliation `modules/reconciliation`, `workers/jobs/reconciliation.py` | runs and diffs | a pass over UNKNOWN payments | provider; payment records | partly, in `Payments`; run and diff rows left out |
| Idempotency store `modules/idempotency`, `repositories/idempotency.py` | keys | claim, complete, release, expire | payments, campaigns | partly, in `Payments`, `CampaignBudget` |
| Campaigns `modules/campaigns`, `repositories/campaigns.py` | counters, ledger | reserve, release, settle | keys | partly, `CampaignBudget`; create and list left out |
| Authorization gate `modules/authorization` | authorizations | request, approve, revoke, consume, expire | policy and risk verdicts | `Authorization`, `SingleUse` |
| Webhooks `modules/webhooks`, `repositories/webhooks.py`, `workers/webhook_processor.py` | events | handle, reapply | orders; audit ledger | partly, `Webhooks`; signature, parsing and staleness left out |
| Checkout session `services/session.py`, `repositories/sessions.py` | session record, trace | message, confirm | policy; provider links; orders; audit | partly, `SessionCheckout`; parsing, search and the trace left out |
| Catalog `modules/catalog`, `repositories/products.py` | product rows | create, update, search | carts; suggestions; agent | `Catalog` |
| Carts `modules/commerce` | carts, orders | create, add, remove, clear, checkout | catalogue | `Carts` |
| Opportunities `modules/opportunities` | suggestions | generate, list | catalogue; carts; agent's hints | `Opportunities` |
| AI runtime `ai_runtime` | a run's state | intent to authorization request | catalogue, carts, gate, over HTTP | partly, `AgentRun`; wording and import guard left out |
| Policy `policy/` | daily totals of the older discount engine | evaluate offers and actions | sessions, gate | `Offers`, `MoneyActions`, `Discounts` |
| Risk `modules/risk`, `policy/risk_engine.py` | none | score an action | gate | `MoneyActions`, `LegacyGate` |
| Refund guard `modules/refunds` | none | eligibility, handing on to the gate | orders, gate | `MoneyActions` |
| Audit ledger `modules/audit`, `repositories/audit.py` | append-only rows, hash chain | append, head, verify | everyone | `AuditChain`; the rows webhooks write, in `Webhooks` |
| Passport `modules/passport`, `audit/` | none | report on one transaction | reads the others | partly, `AuditChain`: the extract and its verification |
| Legacy authorization `policy/authorization_engine.py`, `services/checkout_guardian.py` | authorizations, passports | guard, validate, consume, revoke, clean up | called by tests only | `LegacyGate` |
| Sign-in and tokens `services/auth.py`, `repositories/users.py`, `core/jwt.py`, `core/rbac.py` | users, refresh tokens, API keys | sign in, refresh, log out, mint, check | everyone | partly, `SignIn`, `Access`; hashing and coding left out |
| Rate limiter `core/ratelimit.py` | buckets | check, reset, prune | middleware | partly, `RateLimiter`; threads left out |
| SQL layer `db/` | tables, pinned connections | begin, conditional writes, commit | the repositories a database would serve | partly, `TenantStore` |
| Outbox | rows | append | nothing publishes them | no |
| HTTP shell, worker entry point, front end, deployment and documents | see `PROJECT.json` | | | no; reasons under "Not modelled" |

### What is hard in each, and what makes it correct

* **Payments.** A call whose answer is lost may have taken money. The record must
  then be neither captured nor failed but UNKNOWN, its key must stay claimed, and
  some pass must settle it later, while refunds and other passes write the same
  record. Correct: what reads settled was taken, what reads failed was not, a key
  charges once, a settled payment's amount stays.
* **Campaigns.** Many checkouts reserve from one budget, each with retries.
  Correct: the cap holds under any interleaving, the ledger recomputes the
  counters, a key reserves once, no path keeps a key it should free.
* **Authorization.** Approvals, revocations, expiry and consumption race.
  Correct: used at most once, for the action asked for; a quorum is distinct people other
  than the requester; the end is final.
* **Webhooks.** The provider redelivers, reorders and fails between; calls raise
  half way. Correct: paid means the amount owed was claimed paid, and is final; a
  processed event was applied; each event writes one row; every claimed event is
  applied in the end.
* **Sessions.** Messages and confirmations overlap at a publish and at a provider
  call, over one live record. Correct: an order owes what its link asks, was
  approved, and names the decision that approved it.
* **Catalogue and carts.** The catalogue is edited while carts hold copies of its
  prices; reads and writes find rows by different keys. Correct: a line bills a
  price and no more than a quantity its own merchant listed.
* **Opportunities.** Hints from a language model are merged with what the rules
  find, after the limit. Correct: hints change nothing that is stored or ranked,
  and only what is on sale is suggested.
* **AI runtime.** Answers are lost after the call was served, prices move between
  two calls, whole runs are retried. Correct: an attempt asks once, for exactly
  what it ordered, within its ceiling.
* **Offers.** Two clamps take percentages of different totals and round per unit;
  the other rules judge what is left. Correct: what is approved keeps the margin
  floor, the cap, the stock, and its own arithmetic.
* **Money actions.** Nine rules, five signals and a guard with figures of its
  own. Correct: a worse fact never makes the gate ask for less; what the guard
  passes the gate's refund rule passes.
* **Legacy gate and discounts.** Expiry at its exact moment, after clean-ups and
  revocations; two policies of one product on one day's budget. Correct: one
  payment per authorization, of its cart, in time; grants fit the day.
* **Sign-in.** The failure count outlives the lock it set; a refresh token is
  sent twice. Correct: past the limit each guess waits a lock's length; one good
  token per sign-in.
* **Credentials.** Keys and agent tokens are minted by holders of tokens.
  Correct: no chain of them reaches past its merchant, its scopes or its life.
* **Rate limiter.** Refill, cap, pruning and refusals. Correct: the rate holds
  over every interval, and whoever is under it is let in.
* **Audit chain.** Rows may be edited after they were written. Correct: a kept
  head pins all of the history before it; nothing honest fails to verify.
* **SQL layer.** Transactions interleave, abort and hand their connection on.
  Correct: no committed change is lost, the ledger records each movement that
  committed and no other, a request changes rows of its own tenant only.

## Modules

| module | stands for |
|---|---|
| `Payments` | engine, keys, reconcilers and provider in one: they meet in the payment record. One action per segment of a handler between provider calls; `ProviderStep` is what the provider does, giving up on an answer is an action of its own |
| `CampaignBudget` | reserve as check / claim / write / complete steps, release, settle, the clock that closes a campaign and expires keys |
| `SingleUse` | abstract: a grant is given or refused, used at most once for what was asked, or ends |
| `Authorization` | the gate; `GrantOf` is the refinement mapping onto `SingleUse` |
| `Webhooks` | event store, dispatch, the order writes and the sweeper |
| `SessionCheckout` | one session; the audit rows of its decisions; links; orders |
| `Catalog` | one list of product rows for all merchants; `Found` is what a read finds, `FoundAnywhere` what a write finds |
| `Carts` | carts over `Catalog`, one action per method of `PurchaseFlow`; a cart whose totals are refused stays refused |
| `Opportunities` | `generate` over `Carts`: anchors, the four rules' scores, ranking, hints, `insert_missing`; the code's sorted lists are sets with the order they are sorted by |
| `AgentRun` | a buyer's run over `Carts`: `Discover`, `OpenCart`, `AddLine`, `PlaceOrder`, `Authorize`, each with a lost answer; a run may be attempted again |
| `Money` | Python's rounding and percentages, for `Offers` and `Opportunities` |
| `Offers` | a message's offer through the two clamps and the rules; scripted as rounds of one session |
| `MoneyActions` | `evaluate_action`, the risk score and bands, the quorum, the refund guard; its answers are what `Authorization` takes as outcome and band |
| `LegacyGate` | the older guardian over its engines: score, authorize, validate, consume, revoke, clean up |
| `Discounts` | the older discount policies and their daily budget |
| `SignIn` | passwords with their lock; refresh tokens with their rotation |
| `Access` | roles, scopes, API keys, agent tokens and the check in front of a route |
| `RateLimiter` | token buckets by limiter and key, with the clock |
| `AuditChain` | append and the two verifications, beside someone who changes stored rows |
| `SerialStore` | abstract: requests change rows one after another, each at once and for one tenant, on the rows as they then are |
| `TenantStore` | connections, transactions, row locks, the row-level policy and the conditional writes of `db/repositories.py`; `Serial` is the refinement mapping onto `SerialStore`: the rows are the committed versions, and a request takes effect when its transaction commits |
| `MCPlatform` | the parts that share no state with each other, side by side: a behaviour belongs to one part. "shop" and "agent" share catalogue and carts |
| other `MC*` | instances for TLC: budgets, amounts, symmetry sets |
| `PaymentsProofs`, `CampaignBudgetProofs`, `AuthorizationProofs`, `WebhooksProofs`, `SessionCheckoutProofs` | theorems about the module they are named after |
| `ShopProofs` | theorems about `Carts`, `AgentRun`, `Opportunities` |
| `GateProofs` | theorems about `LegacyGate`, `MoneyActions`, `Discounts`, `Offers` |
| `EdgeProofs` | theorems about `SignIn`, `AuditChain`, `Access`, `RateLimiter`, `TenantStore` |

Each module starts with the granularity it was read at and comments every
variable with the field of the code it is. `PROJECT.json` (`map`) gives the lines
each definition translates. Definitions commented "Variant of ..." are not part of
the specification: each is a plausible bug in that definition, kept to show that
the property listed with it would notice.

History variables exist only where the code has no record of what a property
speaks about; each is marked `history` where it is declared.

## Runs

Bounds are the sizes of the constant sets, plus the named bounds: `MaxRaises`
(calls that raise), `MaxDecisions` and `MaxLinks` (of a session), and in the platform
run `MaxEdits` (of the catalogue), `MaxMessages` (of a session), `MaxGrants`
(discounts), `MaxTime`, `MaxHour`, `MaxClock` and `MaxGateTime` (clocks),
`MaxTokens`, `MaxCreds`, `MaxChecks` (of the limiter), `MaxEntries` and
`MaxChanges` (of the audit chain), `MaxCheckouts`, `MaxOps` (statements of a
transaction) and `MaxWrites` (committed changes). `CHECK_DEADLOCK
FALSE` is in every configuration: every bounded instance runs out of requests,
and then stops.

| run | instance | shows |
|---|---|---|
| `payments_books` | 2 payments, 1 key, 1 order, 2 refunds, a pass and a status read, stray exceptions | settled means charged, failed means not charged, a key charges once, a replay is a payment that was taken, refunds are never overstated |
| `payments_serial` | 2 payments, 2 keys, 1 refund, 1 pass, fairness, no stray exceptions | only refunds move a settled payment; every decided UNKNOWN payment is resolved |
| `payments_stale_pass` | a pass and a status read, a refund | **violated**: a late answer moves a refunded payment back to captured |
| `campaign_budget` | 4 requests, 2 orders that do not fit together, fairness | the cap, the ledger, one reservation per key; every way out of a reserve leaves its key completed or free |
| `authorization_gate` | 1 authorization, 2 actions, 3 people, quorum 1, whole and preempted calls | four eyes and two for high risk when calls run whole; for any interleaving the gate implements `SingleUse` |
| `webhook_events` | 2 events, 2 deliveries, a sweeper, 1 raise, fairness | paid is owed and final; processed is applied; what was claimed is processed |
| `session_overlap` | 3 requests, 2 offers, 3 decisions, 2 links | an order owes what its link asks and was approved |
| `session_serial` | one request at a time, 4 decisions, 3 links, limit 2 | an order names its decision; a pending session shows what was ordered |
| `session_decision` | two requests, 2 decisions | **violated**: an order is booked under a decision that did not approve it |
| `platform` | eleven parts, below | the nineteen properties of the parts |
| `offers_absolute_cap` | one dear line of 1, 4 or 6 units | **violated**: a discount over the absolute cap is approved |
| `agent_retried` | one product, a run and its retry | **violated**: a retried run makes a second order |

The parts of `platform`:

| part | instance | shows |
|---|---|---|
| shop | 2 merchants with one sku in common, a sku retired and listed again, 3 skus of 2 families, 1 edit, 1 cart, scans of 2 rows; every hint at once | lines were on sale; suggestions were sellable; hints move nothing |
| agent | the same shop, 1 run, one unit asked for, buyers without a budget and with one that affords one of the two prices, any answer lost | it asks for what it ordered |
| offers | quantities 1 to 6 over stocks 0, 4, 9; products with and without a cost, without a price; 4 messages with limit 3 | what is approved keeps the limits |
| actions | three kinds of action; amounts, totals, counts, ages and countries on both sides of every threshold | no easier for riskier; guard and gate agree |
| legacy | 2 checkouts of one session, 2 carts, a clock of 2 with lives of 1 | pays once what was guarded; no signal is diluted |
| discounts | 2 policies of one product and an inactive one, 3 grants | grants fit the day |
| signin | 1 user, 2 tries, locks and tokens of 2, 3 tokens, a clock of 5 | guesses are spaced; one good token per sign-in |
| access | 3 people of 2 merchants, 3 credentials, lives 0 to 2 | access stays in bounds |
| limiter | 3 keys, one of each limiter, capacity 1 and 2, 5 checks in 6 seconds | the rate holds over every interval |
| audit | 3 entries, 2 changes to stored rows | a kept head pins history; honest history verifies |
| sql | 2 tenants, 2 connections, 1 row of each of 4 tables, transactions of up to 2 statements, 2 committed changes | changes form one chain; requests change their own; the store implements `SerialStore` |

Why the bounds are enough: a race here is between two handlers over one record,
and a third actor (a pass, a sweeper, a third request) is there when it can make the
outcome of the race visible. Where a number is compared (budget, quorum,
rounds, percentage, age, clock) the instance reaches the value, the one below and the
one above. Two payments under one key are what a retry, an expired key or a
released key can make; two refunds of one payment are what the provider's cap is
for. Two transactions of each connection are what a pin would leak through, and
two statements what a rollback takes back. The operators of offers, actions and
scores have no memory of earlier requests but the round, so every request is a
case of its own and the sets of inputs are what matters.

### What the violated runs say

They are listed under `findings` in `PROJECT.json` with the line of the code
and of the document or comment it departs from. All four are defects.
`payments_stale_pass` and `session_decision`: a write after an `await` that does
not look again at what it overwrites or names. `offers_absolute_cap`: a clamp
divides by one total and its percentage is applied to another.
`agent_retried`: a key is sent, and never read.

### What the code does not promise

Seen while modelling; the modules contain the behaviour where they model the
code, and no property claims the opposite.

Money in flight:

* A second key charges an order again: `create_payment` reads neither the
  order's status nor its other payments (`services/payments.py:113`).
* A key older than 24 hours is claimed as new, though its payment may still be UNKNOWN:
  a retry charges again (`repositories/idempotency.py:31`). `ChargedOncePerKey` is
  about keys that have not expired.
* A payment settled by reconciliation leaves its key in progress: a retry is
  answered 409 until the key expires (`modules/reconciliation/worker.py:220`).
* An answer that raises something the pass does not catch ends every pass before the
  payments after it (`services/razorpay.py:239` on a 4xx whose `error` is not an
  object). `DecidedPaymentsResolved` is therefore checked with `StrayErrors = FALSE`.
* `modules/authorization/service.py:3` says "Nothing moves money without passing
  through `consume`"; `create_payment` and `refund_payment` do not call it.
* `webhooks/processor.py:16-18` and `docs/ARCHITECTURE.md:215` have a dispute wait for a
  human; a later event of the order expires it or pays it
  (`repositories/orders.py:170`).
* An event first delivered during an outage is older than `MAX_CLOCK_SKEW_SECONDS`
  by the time it is retried, and is refused each time (`webhooks/processor.py:261`).
* A link whose answer was lost can be paid and has no order (`services/razorpay.py:74`).

Campaigns, sessions, gate:

* A campaign's `release` is tied to no reservation and carries no key: repeated,
  it frees what another checkout was promised (`repositories/campaigns.py:465`). The SQL
  form clamps the counter at zero and writes the whole amount to the ledger
  (`db/repositories.py:420` and `:456`).
* The SQL ledger has no order of its own: `created_at` is `NOW()`, when the
  transaction began, and `id` is random (`db/migrations/0001_initial.sql:458` and `:466`), so the last row
  of `ORDER BY created_at, id` (`repositories/campaigns.py:167`) may hold an older
  balance than the row before it. `TenantStore` keeps the lines as a set; the order
  `CampaignBudget` relies on is that of the in-memory list.
* A campaign that ends between the check and the write still reserves
  (`modules/campaigns/budget.py:271`).
* Overlapping messages of one session get the same offer version and are judged
  as the same round (`services/session.py:73` and `:82`); `VersionNamesOneDecision` and
  `RoundsAreLimited` hold for one request at a time.
* A confirmation repeated under its key makes a second link and a second order
  (`services/session.py:175`).
* An agent may ask for an authorization and the rules deny it: "agent" is in no
  row of `ACTOR_MATRIX` (`policy/rules/action_rules.py:28`).
* The facts an action is judged by (totals, counts, ages) are the caller's, in
  either direction. A payment's amount is not compared with its order.
* `merchant_policy.json` nests its limits under "rules", which `MerchantPolicy`
  ignores, and one file serves every merchant. A listed price of 0 with a cost
  divides by zero in `rule_min_margin`, and the message fails; `Offers` has that exit.
* The documents aggregate offers as REJECT unless anomalous; in the code any
  ESCALATE wins.
* The refund guard's dry run takes the body's figures where the live route takes
  the order's, without country and history.

Shop:

* Stock is compared with one cart at a time and never taken: two carts check out
  the last item (`modules/commerce/flow.py:170`).
* A line that takes a cart's totals over the limit is kept, and every later call
  on that cart is refused, removal too (`flow.py:100-111`). A second add of a sku
  keeps the first price.
* A sku retired and listed again is read at its new row and updated at the old
  one; a product that was deactivated can be reactivated by no call
  (`repositories/products.py:169`).
* The order a checkout returns is stored nowhere; its idempotency key is unread.
* Suggestions around a cart use the family the catalogue infers and ignore the
  declared one; nothing sets `acted_on`. The agent compares a buyer's budget with
  the price it discovered, not the one it is billed.

Edge:

* A reused refresh token is refused and its family stays good; `docs/AUTH.md:17` and
  `:38` have the family revoked (`services/auth.py:125`).
* API-key scopes are stored and never reach the principal (`services/auth.py:180`).
  Session routes ask for `SESSION_READ_OWN`, so roles that hold only
  `SESSION_READ_ANY` cannot use them.
* The limiter reads its clock before it takes its lock, and each process has its
  own buckets (`core/ratelimit.py:97`).
* An entry edited and rehashed before a passport is issued passes in that
  passport when its successor is not in the extract; the full chain shows it.
* The legacy `revoke` overwrites CONSUMED. At the moment of expiry `validate`
  says yes and `consume` no. The guardian lets ESCALATE through without a human,
  and two sessions with one 8-character prefix share a passport. The weekly
  discount budget is never read, and the blacklist is looked up once.
* A merchant's slug stays cached after the merchant is deactivated.

## Fairness

Weak fairness of a handler's next step (`CampaignBudget`, `Webhooks`): an event
loop runs what is ready, and every call ends by its answer, an exception or a timeout.
`webhook_events` also needs the sweeper's loop, which sweeps for ever, and that
calls stop raising (`MaxRaises`); nothing is assumed of the provider's redelivery.

`Payments` needs the worker's loop to start passes again for ever
(`workers/jobs/reconciliation.py`) and each question to end: weak fairness. That
not all answers about one payment get lost is strong fairness of the provider's report
and of its receipt, per payment: a pass may lose any number of answers, but a
provider that is never heard about one payment is outside the code's control.

The other components have no loop or retry that would make anything happen
eventually: they answer when asked, and their specifications state safety only.

## Proofs

`TLAPS` proves the following for every value of the constants (any number of
payments, keys, orders, requests, events, people, connections, of any amounts,
rates, limits and catalogues), from the named assumptions in the modules. These
say that amounts and bounds are naturals, that skus are ordered, that a
catalogue starts with well-formed rows, that a policy's figures are in their
ranges and that sentinels are distinct; the instances TLC checks satisfy them.

Every property a passing run checks is also a theorem, except the three of liveness (below),
and so is every type invariant. The runs list only properties that say more than
types, for which the theorems stand.
The argument has the same shape throughout: a strengthened invariant made of
named parts, one step per action that shows it inductive, then the theorems.
Where the property is about an operator and not about steps (`Offers`,
`MoneyActions`, the scores of `LegacyGate`, `HintsMoveNothing`), the invariant only
gives types, and the work is in lemmas about the operator.

**`PaymentsProofs`**: `TypeCorrect`, `SettledTookMoney`, `FailedTookNone`,
`OneChargePerKey`, `ReplaysAreTaken`, `PaidWasCharged`, `SettledIsForever`. The
properties are not inductive alone: the strengthening ties each handler's
position to the state of the record, of the key and of the provider's charge
(who may still capture, and that a live key's claim has one payment at most).

* `RefundsNeverOverstated` (hypothesis `ProviderCaps`) is about overlapping
  refunds, whose sum is what matters. `BookingInv` says it without a sum: each
  refund the provider sent and nobody has booked yet has a place in what was
  sent, the places do not overlap, and all lie past what is booked (`SideBySide`).
* `OnlyRefundsMove` (hypothesis: one reconciler) keeps that what a pass or a
  status read found is still so when it writes (`FreshPassInv`). With two, run
  `payments_stale_pass` violates it.

**`CampaignBudgetProofs`**: `TypeCorrect`, `HardCap`, `LedgerIsComplete`,
`KeyReservesOnce`, `ReplaysAreReservations`. The strengthening says that the
last ledger row of a campaign shows its counters, and what each request in
flight holds.

**`AuthorizationProofs`**: `TypeCorrect`, `OverStaysOver`, `GateIsSingleUse` (the
refinement: initial states to initial states, each step to a step of `SingleUse` or
a stutter), for any interleaving. `FourEyes` is about behaviours with `suspends` FALSE,
since with suspension one person's two approvals can both pass the check. It
needs that the counts of distinct approvers grow with the list (`CountInv`).

**`WebhooksProofs`**: `TypeCorrect`, `PaidIsOwed`, `ProcessedWasApplied`,
`DisputeExplained`, `DeliveredOnce`, `PaidStaysPaid`, for any number of deliveries,
sweepers and raised calls. The strengthening says what a call knows of the event
it applies, that the claim gives an event one delivery as its owner, and
that an owner with its row still to write finds none written. `Kept` (nothing
received, written or paid is taken back) carries it past the other calls' steps.

**`SessionCheckoutProofs`**: `TypeCorrect`, `LinkAsksWhatIsOwed`,
`OrdersWereApproved` for any overlap of requests: what a confirmation carries
over its provider call is an offer the audit rows approve, at the amount its link was
made for. Under the hypothesis `OneAtATime`, `OrdersNameDecisions`,
`PendingShowsTheOrder`, `VersionsNameDecisions` and `RoundLimit`: then the record a
request reads is the record it writes, and the strengthening numbers decisions by
rounds and versions.

**`ShopProofs`**:

* `BilledWasOnSale` (`CartsInv`): every row in the catalogue is in the record of what
  was listed, and so is every line of a cart or an order; that a read finds a
  row of its merchant is `FoundRow`, on the least index of a set (`LeastOf`).
* `AgentAsksForItsOrder` and `AgentBuysWhatWasOnSale` (`AgentInv`): a cart an attempt
  opened is no other's, holds at most the one line it recommended, and its
  order, and then its request, exist once its stage says so.
* `SuggestsWhatWasOnSale` (`SuggestedInv`): what is kept of a sku is one pair of an
  anchor and a row that scored most (`BestOne`, from the order `KeptOrder` and the
  lemma `FirstExists` that a finite set has a first element); a score above 0 is a
  rounded share of one of a row in stock (`ShareRounded`, `ScoreBounds`).
* `CartsTypeCorrect`, `AgentTypeCorrect`, `OpportunitiesTypeCorrect`: an order's subtotal
  is a fold over its lines, so that it is an amount is an induction over a recursive
  function. `SumsExist` does it without an operator parameter: of the numbers of
  lines up to which nothing would solve the fold's equation (`SumsUpTo`) one is
  the least (`LeastOf`), and what solves it for one line less extends to it.
* `HintsChangeNothing`: what a hint adds is no better than what the rules found
  for its sku and left out at the limit (`BestGrows`, `PromotedLeftOut`); at
  least as many as the limit come before what was left out (`TopHolds`); so
  ranking both again leaves the answer as it was (`LeftOut`).

**`GateProofs`**:

* `GuardedPaysOnce` (`LegacyInv`): what was paid by has left AUTHORIZED, paid its own
  cart in time, and grants are as many as unblocked checkouts (`SpentInv`, `GuardedInv`).
* `SignalsAddUp`: the composite reaches the bar of its strongest signal and grows
  with every signal (`LoudestAndAll`, `ReachesBar`, `MoreReachesMore`).
* `GuardAndGateAgree`, `NoneEasierForRiskier`: rule by rule and signal by signal
  (`DenialsAndEscalationsStay`, `SignalsGrow`, `BandsGrow`).
* `GrantsFit` (`DiscountsInv`): the total a policy keeps is the tally of its grants
  (`Tally`, a running sum with a step lemma), and within its budget.
* `ApprovedOffersKeepTheLimits`: what the two clamps leave of a one-line offer, with
  the rounding of each (`Clamped`, `RecalcAgain`, `RoundingsMeet`).
* `OffersTypeCorrect`: what is approved is an offer, at no more than its whole price off
  (`OfferInvariant`); the assumption says that the sentinel `NoOffer` is no offer.

**`EdgeProofs`**:

* `GuessesWait`, `TokensRotate` (`SignInInv`): a guess past the limit set a lock that
  ends a lock's length after it (`CountInv`); a token's family is the position
  of the token its sign-in issued, and a token another was made from is revoked
  (`FamilyInv`).
* `HeadPins`, `NoFalseAlarm` (`AuditInv`): what is kept is the head of a chain that
  verified (`KeptInv`), and two chains that verify and end in one hash are one,
  by induction from the end, entry by entry.
* `AccessBounded` (`AccessInv`): what a credential permits is bounded by the one it was
  asked for with, back to a person; the lineage is the least set closed under it.
* `LimiterHoldsTheRate` (`LimiterInv`): a bucket holds what the tightest interval
  ending now leaves (`HoldsTheTightest`), in whole units of tokens times seconds. It
  assumes that a bucket that is pruned would have been full (`LimiterAssumption`),
  which the code's hour against its minute grants.
* `NoUpdateIsLost`, `PinsDoNotLeak` (`TenantInv`): a row an open transaction has
  written is written by no other (`LockInv`), so its changes lead from the committed
  versions to its own (`ChainInv`), and its ledger lines record them (`LinesInv`); the
  lemmas `Concatenated` and `RecordedTogether` join such sequences, as commit does. An
  open transaction changed rows of its own tenant only (`OwnInv`), which is its
  connection's pin (`PinInv`).
* `StoreIsSerial` (the second refinement): a transaction commits as one request of
  `SerialStore`, or as a stutter when it changed nothing, and no other step moves
  what is committed. It takes `LegalInv`, that each open change is one its tenant may
  make of that row, and `Replayed`: changes that form a chain from the committed
  versions to the transaction's own, made one after another, find each row as
  they say. Each row stands, between two changes, as the next change of it finds it.
* `SettledOnce`, `NoOverspend`: the same chain, followed from the committed version of a
  row to the last change of it (`LastNumber`, `CommitKeeps`), keeps its tenant, its cap
  and what settled it, and breaks no `CHECK`. `NoOverspend` assumes that the seeded
  rows break none.

The types of the parts are theorems too (`SignInTypeCorrect`, `AuditTypeCorrect`,
`LegacyTypeCorrect` and so on).

Model-checked only:

* Liveness (`DecidedPaymentsResolved`, `KeysAreGivenBack`, `ClaimedIsProcessed`), which
  is out of the prover's reach.
* That `Subtotal`, `RoundHalfEven` and the other arithmetic compute what Python
  computes: read, not proved. That they stay in their types, and the bounds of a
  rounding, are lemmas.

Properties that are proved and that no run lists (`OverStaysOver`, `PaidWasCharged`,
`DeliveredOnce` and others) were model-checked while they were being proved.

## Assumptions and what is left out

* `create_order` at the provider makes one object per call; the provider
  refuses to refund more than it took (`ProviderCaps`): the code checks the
  remainder before the call and books after it, so without that cap two refunds
  could exceed the capture.
* A restart loses every dictionary: payments, keys, sessions, events. Nothing in
  the code survives it and nothing in the modules models it.
* The webhook worker is a process of its own, and with the in-memory event
  store it finds nothing to retry. `Webhooks` gives the sweeper the route's store, as the worker's
  docstring assumes. Its limit of 100 events per sweep is left out.
* `SessionCheckout` has one session: sessions share nothing but the provider. A
  link the provider made and whose answer was lost stays in `links` with no
  order, as it would.
* Amounts are Python integers and do not overflow; they are naturals here.
  Percentages that the code computes in floats are fractions in `Offers`.
* A hash is the body it was computed from, a signed token the record that was
  signed: no two collide and none is forged.
* The text rules (prompt patterns, similarity of names) are flags and families:
  the properties speak of what is done with their answers.
* `TenantStore` is READ COMMITTED with row locks; PostgreSQL's deadlock detection
  aborts one transaction, which is a `Rollback` here.

### Not modelled

* **Outbox**: rows are appended and nothing in the repository publishes them.
* **HTTP shell**: routing, schemas, headers, logs, metrics; no state of the system.
* **Worker process**: an entry point; of its jobs reconciliation and webhooks are
  modelled, and `hold_expiry` raises `NotImplementedError`.
* **Front end, deployment, generators of documents**: pages over the API,
  containers, scripts that print documents.
* Of the modelled components, what is named in their row of the table and in
  `PROJECT.json`: mostly parsing before and formatting after what changes state, and
  rows that nothing reads back.

## Plan

Done, in this order: `Payments`, `CampaignBudget`, `Authorization` over `SingleUse`,
`Webhooks`, `SessionCheckout`, with their proofs; then the shop (`Catalog`, `Carts`,
`Opportunities`, `AgentRun`), the gate's judgements (`Offers`, `MoneyActions`,
`LegacyGate`, `Discounts`), the edge (`SignIn`, `Access`, `RateLimiter`, `AuditChain`,
`TenantStore`); then the proofs of all of these.

Next:

1. `IdempotencyStore` as a module of its own, with an abstract once-per-key
   specification that both of its users implement.
2. `Sessions` x `Webhooks`: orders from links to payment, with two orders of one
   session outstanding.
