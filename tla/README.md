# Meridian Financial: a TLA+ model of the platform

This directory holds TLA+ models of the services in this repository, the TLC
configurations that check them on small instances and the proofs that TLAPS
checks for every instance. `PROJECT.json` maps each definition to the source
lines it stands for. Paths below are relative to `src/`.

## 1. Inventory

| Component | State | Operations | Talks to | What is hard | What makes it correct |
|---|---|---|---|---|---|
| **gateway-api** (`gateway-api/main.py`, FastAPI, one event loop) | nothing durable; a handler's frame per request; the JWKS cache; one httpx client (10 s, 20 connections, connect retried once) | `transfer`, `initiate_payment`, `validate_payment`, `deposit`, read endpoints, `verify_token` | account-service, transaction-service, Keycloak, all by HTTP | multi-call sagas with no transaction, late replies, a crash between two calls, handlers interleaving at each `await` | an answer must be true of what the callees did; no money created or destroyed beyond what the failures in play make unavoidable; each request ends |
| **account-service** (Spring, threads) | `store`, a `ConcurrentHashMap` in memory, seeded with one account | `applyDelta`, `createAccount`, `sendPaymentAlert`, reads | ActiveMQ (`alert.queue`, `fraud.score.queue`) | concurrent deltas; a balance read from a shared object outside of the lock; a restart forgets everything | a balance is the opening balance plus each executed delta once |
| **transaction-service** (Express, one event loop) | `payments`, a `Map` in memory; a `pg` pool | `POST`, `PATCH`, `GET` of `/v1/payments` | PostgreSQL, ActiveMQ | three separately committing queries; a publishing loop; a `PATCH` in the middle of a `POST`; a restart | stored before anything else knows; ledger and log agree; scoring is asked for whatever the ledger does |
| **PostgreSQL ledger** | `transactions.status`, the tables of Spring Batch | single statements | - | failure with or without effect | a row left `pending` is explained |
| **ActiveMQ Artemis** | two queues, a DLQ, on an `emptyDir` | STOMP and JMS | - | drops, redelivery | at-least-once to consumers |
| **fraud-detection** (`listener.py`, `scorer.py`) | connection, unacknowledged messages | `on_message`, `score`, reconnect loop | broker | poison messages, a receiver thread that dies, redelivery | each valid message is scored at least once |
| **notification-service** (`main.go`) | connection, subscription | `consume`, `processMessage`, `connectSTOMP` | broker | cumulative acks, Nack, shutdown during a reconnect | no alert acknowledged before it was dispatched |
| **batch-processor** (`BatchJobController`, `ReconciliationJob`, `StatementJob`) | singleton beans: per job one cursor reader with its result set and item count | `POST /jobs/...`, answered when the run has ended; chunk read, process, write | ledger | two runs at once over one reader, a failed run's leavings | a run reads every row its query selects |
| **frontend-stub** (`index.html`) | tokens, refresh timer | login, silent refresh, sign-out, decide | gateway, Keycloak | late refresh after sign-out, double clicks | a session belongs to the user signed in |
| **traffic generator** (`scripts/generate-traffic.py`) | a token and its believed expiry per user, a pool of account ids | `get_token`, `seed_accounts`, the scenarios, `main` | all services, Keycloak, by HTTP with a timeout of 5 s | tokens that expire during a call, ids that a restart has made stale, triggers it stops waiting for | a call carries a valid token; the pool is good again after a restart |
| **workshop scripts** (`generate-patches.py`, `test-e2e.py`, `Makefile`) | source files | edit source text, check a running installation | - | - | - |
| **deploy, identity-provider, synthetics** | - | clients and configuration | all | - | read for the requests and faults the models allow |

### Interaction

A browser (or the traffic generator) calls the gateway. A **transfer** is up to
three `PATCH /balance` calls: debit, credit and, if the credit raised, a
reversal. A **payment** is a `POST` to transaction-service (Map, ledger, queue)
followed by an alert request to account-service; a **decision** is a `PATCH` to
transaction-service followed, for an approval, by a debit at account-service. A
**deposit** is one credit. Every component may be restarted by Kubernetes at any
time; account-service and transaction-service then start from their constructors.

Before any of these, the endpoint awaits **verify_token**, which shares the cache
of Keycloak's key set among all requests. The **messages** that transaction-service
and account-service send to the broker are consumed by fraud-detection and
notification-service, each from a queue of its own. The **traffic generator**
also triggers the reconciliation job, whose runs read the ledger.

## 2. Modules

    Calls ------------.                      what can become of an HTTP call
    AccountService ---+-- Transfers ---- TransfersAccounting ---- MCTransfers
                      |       |             |    implements AtomicTransfers
                      |   TransfersProofs --+-- TransfersAccountingProofs
                      |                                      |
                      +-- Payments ----- PaymentsAccounting ----- MCPayments
                      |       |             |                |
                      |       '-------------+-- PaymentsProofs
                      +-- Deposits                           |
                              |                              |
                          Meridian --------------------------+-- MeridianProofs
                          (INSTANCE Transfers, INSTANCE Payments; implements Bank)
                              |
                          MCMeridian

    Sums: sums over finite sets, for the proofs about balances

    Tokens -- MCTokens                     Queue -+- FraudDetection ------+- Messaging -- MCMessaging
       |                                          '- NotificationService -'     |
    TokensProofs                                                          MessagingProofs

    Traffic --+-- Workload -- MCWorkload
    Batch ----'       |
                WorkloadProofs

| Module | Code | State and actions |
|---|---|---|
| `Calls` | `http_client` (226-238) | The life of one call: unsent, sent, applied, refused, lost, wiped. A call that reached the callee is never repeated, so there are no duplicates; a call whose caller gave up stays `sent` and can be executed later. |
| `AccountService` | `AccountService.java` | `store` (a function from the known ids), `ApplyDelta` (the `compute`), `CreateAccount` (with the event it publishes), `RestartStore` (a new JVM). Ids are never handed out twice (`used`); the 8 hex digits of the real id make a collision possible, and this is left out. |
| `Transfers` | `transfer` | `pc[t]` is the `await` the handler is at, or its answer; `call[t][leg]` the three calls; `gaveUp` is history, for the properties only. One action per way out of each `await` by a reply, an `httpx.HTTPError` or the end of the process (see Abstractions for what is not among these). |
| `AtomicTransfers` | docstring of `transfer` | The abstract specification: a transfer moves its amount in one step or is declined. |
| `TransfersAccounting` | - | Balances as sums over executed calls, and the refinement mapping. |
| `Payments` | `initiate_payment`, `validate_payment`, `payments.js`, `ledger.js`, `producer.js`, `sendPaymentAlert` | `gw`, `officer`: the two gateway handlers; `post[p]`: the Node handler's `await`; `payments`: the Map; `row`: the ledger; `fraudMsgs`, `alertMsgs`: what was put on the queues. |
| `PaymentsAccounting` | - | Balances as sums over executed debits. |
| `Deposits` | `deposit`, `updateBalance` | The delta (`ServeDeposit`) and the reading of the answered balance (`ReadBalance`) are separate steps, as in the controller. |
| `Meridian` | all the above endpoints | The three endpoints over one store; a process that stops takes the handlers of all of them. `Entries` are the executed calls, `Spent` the ids of all that were ever executed. |
| `Bank` | what the endpoints promise together | The abstract specification: each order is posted once at most, for good; balances change by postings only, until a restart begins new books. |
| `Tokens` | `_get_jwks`, `verify_token` | `cache` and `fresh` are `_jwks_cache` and its age against the TTL; `pc[r]` is the `await` of a request: the GET (`fetching`, forced: `refetching`) or the exit of `async with` (`closing`, `reclosing`). Keycloak's `Rotate` and `Retire` move the range of published keys. `buried` is history. |
| `Queue` | broker, as the consumers use it | `place[m]`: unsent, queued, in flight, removed, dead-lettered, gone; delivery counts; `link` and the ACK frames under way. `Cut` and `CleanCut` are the ends of a connection without and with DISCONNECT. |
| `FraudDetection` | `listener.py`, `scorer.py`, `main.py` | `OnMessage` in the receiver thread: no JSON is acknowledged, an unexpected value ends the thread (`dying`) until `LossNoticed`, the rest is scored by `Bucket`, logged and acknowledged one by one. |
| `NotificationService` | `main.go` | `ProcessMessage` takes messages out of go-stomp's channel in order, also those left over of a lost connection (`leftover`); acknowledgement is cumulative; a NACK is an acknowledgement or a dead-letter order. |
| `Messaging` | both queues | Either queue with its consumer; `BrokerRestart` keeps what the journal kept, and no more. |
| `Traffic` | `generate-traffic.py` | `todo` is the rest of a scenario's calls, `stage` where the current one stands; `believed` and `left` are two clocks on one token; `pool` and `known` the ids held and those still known. |
| `Batch` | `ReconciliationJob`, Spring Batch's reader | `Selected` is the `WHERE` clause, the branch of `RECONCILIATION_SCENARIO_ENABLED` included; `Rows` are the positions in its result. `run[r]` is the place of a run between two accesses to the shared reader (`initialized`, `cursor`, `count`), as its thread may be suspended there: reading a row is three steps. `sharing`, `overlapped`, `broken` are history. |
| `Workload` | `BatchJobController`, `main` | Generator and runs: a trigger is answered when its run has ended, and waited for no longer than any other call. |
| `TransfersProofs`, `TransfersAccountingProofs`, `PaymentsProofs`, `MeridianProofs`, `TokensProofs`, `MessagingProofs`, `WorkloadProofs` | - | The theorems. |
| `Sums` | - | What the library's `SumFunctionOnSet` does when a set gains an element or a summand changes. |

Operators commented `Mutant:` are plausible bugs, used by nothing: substituting
one for the definition it stands next to must break the property `PROJECT.json`
names, which shows that the property depends on that code.

### Abstractions

* A transfer's and a payment's call is executed in one step: nothing reads what
  the reply says beyond success. Deposits do pass on the balance, so there the
  reply is a step of its own.
* In the endpoints' modules tokens are verified already, and `role` is the claim
  the endpoint looks at; `Tokens` models the verification before them.
* A token is a key and whether its issuer is the realm's; one that is forged or
  expired has key 0, which no key set accepts. Time in `Tokens` is only `Lapse`.
* A message is a shape (fit, odd, garbage) and the value its handling depends on.
* `Messaging` is about one of the two queues in each behaviour (`consumer`), as
  they share no state but the broker's. In `Workload`, `mix` is a bound of this
  kind: a behaviour has either any scenario and failing calls, with triggers that
  never reach the batch-processor, or only triggers that do. The tokens and the
  pool on one side and the readers on the other share nothing but the generator.
* Amounts are integers. `BigDecimal` and Python floats are not compared.
* Currency, tier, notes, time stamps, logs and spans are left out.
* All missing fields are one case, the empty `account_id` (`Blank`): it passes
  the gateway's Pydantic model and is a 400 at transaction-service.
* `FRAUD_QUEUE_DUPLICATE_FACTOR` is a positive integer, as the workshop sets it.
* In `Traffic`, times are in a unit of which the timeout is at least one; the real
  60 s, 5 s and 120 s satisfy `TrafficAssumption` (a margin of two timeouts or
  more, less than the lifetime). Calls that a scenario makes to the same end
  appear once.
* `urlopen(timeout=5)` bounds each socket operation; `Timeout` bounds the call. An
  answer that trickles in can take longer than 5 s; what the proof of
  `TokenOutlivesCall` needs is that a call takes no more than half the margin (30 s).
* Runs of the reconciliation job see one result of the query: rows settled between
  two runs' queries are not modelled. When two runs open the reader at once, the
  first one's JDBC connection is never closed; connections are not modelled.
* Account ids are abstract, so each gives a URL. An id with a control character makes
  httpx raise `InvalidURL`, which is no `HTTPError`: a credit to such an id leaves
  `transfer` with a 500 by neither of the modelled exits, and its debit stands. The
  properties of `Transfers` are about ids that can be sent.
* `Meridian` has the faults that reach what the endpoints share: timeouts, losses, a
  restart of account-service and a crash of the gateway. A restart of
  transaction-service and failures of the ledger or the broker touch payments only
  and are in `Payments`.
* Exhaustion of the gateway's 20 connections appears as a lost call (`PoolTimeout`
  is an `httpx.HTTPError` raised before anything is sent).

## 3. Runs

| Run | Instance | Question and result |
|---|---|---|
| `transfers_faults` | 2 transfers, 4 bodies, all faults, 1 restart of account-service; 200,000 states | What survives every fault: 201 means moved, saga order, done or undone when nothing was missed, money created only after a missed credit reply, balances equal executed deltas. Every transfer ends. |
| `transfers_atomic` | the same, no fault | The saga implements `AtomicTransfers` and conserves money, under all interleavings. |
| `transfers_timeout` | timeouts only | `DocumentedAtomicity` is **violated** (finding). |
| `payments_decisions` | 1 payment, 2 interchangeable decisions, all faults but the ledger's, 1 restart of each service; 2.2 million states | Who can cause a debit; what 200 and 201 mean; what is stored when; balances. |
| `payments_live` | 1 payment, 2 fraud messages, 1 decision; ledger failures, losses, restarts | The ledger row is explained; requests end; scoring is asked for. |
| `payments_approved_once` | 2 decisions, no fault | `ApprovedOnce` is **violated** (finding). |
| `payments_alert_accepted` | lost calls | `AlertedPaymentAccepted` is **violated** (finding). |
| `meridian_books` | 1 transfer, 1 payment, 1 approval, 1 deposit, all on one account; restart, crash; 720,000 states | Each balance is the sum of the executed calls of all endpoints; together they implement `Bank`. |
| `meridian_quotes` | 2 deposits, 1 transfer, all faults | The balance a deposit is answered with includes it. |
| `tokens` | 2 requests, 3 keys, outages, restarts of the gateway; 243,000 states | Whose good token is refused, how long a retired key admits, and that each request is answered. |
| `messaging` | 3 messages of any content on either queue, 2 delivery attempts, 2 losses; 189,000 states | Removed means handled, dead-lettered means for cause; every message settles. |
| `workload` | 1 user, 2 seeds, 2 losses; 2 runs of 5 settled rows of which the query selects 3, in chunks of 2; 268,000 states | Tokens outlive calls, the pool recovers; what runs that overlap, fail or follow one another read. |

**Bounds.** Two transfers are enough for every interleaving of two sagas on the
same pair of accounts, in the same and in opposite directions; transfers share
nothing but the store, whose only operation on an existing account is addition.
Two accounts give one that always exists and one that may be unknown, created
late or forgotten. One restart separates "before" and "after". Two decisions
are the smallest number that disagree. The one counter of the code, the
publishing loop, is bounded by its own limit; `MaxRestarts` and
`MaxTxRestarts` are the only artificial bounds there. Sums are over amounts chosen so
that different sets of deltas have different sums where a property needs it.
`payments_decisions` uses symmetry over the two decisions; no temporal property
is checked there.

Two requests are enough for a race of fetches of which each may win; three keys
allow a rotation and a retirement before, during and after it. Three messages put
the one that kills a receiver between two others; two losses are as many as the
delivery attempts, so that a message can run out of them (its
configuration leaves Artemis' default of 10; `MaxDeliveries` is a constant). Two runs overlap, follow one another and
close each other's reader; with three runs the properties hold as well (tried
once, too long for a regular run). Three selected rows in chunks of
two make a full chunk and a last one that is not. The times 1, 2, 3 for timeout, margin and lifetime
are the smallest that keep the three apart; the proofs are for all.

**Fairness** (for `EveryTransferEnds`, `EveryRequestEnds`, `EveryPaymentScored`).
Weakly fair are: a handler whose call has ended (the event loop resumes what is
ready), and a callee with a request to serve. Not assumed: that clients send
anything, that a fault happens, or that the 10 s timer fires. `Transfers` leaves
the timer out of its fairness condition and `payments_live` leaves timeouts out
of its faults, so requests end because each outcome of a call has its handler
and not because the timer would clear up. Fairness of `Publish` stands for a
broker that answers or refuses a connection: `producer.send` has no timeout of
its own. In `Tokens` (`EveryRequestAnswered`) the event loop resumes what is
ready, and a GET is answered or, after httpx's 5 s, fails. In `Messaging`
(`EveryMessageSettles`) the main loops reconnect for ever, the broker delivers to
who subscribes, frames arrive, receivers take what is there, and a connection
that is over is noticed: by the socket, the heart-beats of go-stomp, or because
Artemis closes a connection that has gone quiet. Losses are bounded and never
fair. In `Workload` (`PoolRecovers`, `EveryRunEnds`) time passes, the generator's
one thread proceeds, services answer all but `MaxLosses` calls, and each run has a
request thread of its own, which its queries do not block for ever.

**Deadlock** is checked in every run; `Rest` is the state in which every client
has its answer and nothing is left to serve (every message is settled; the generator has
stopped and no run is active).

## 4. Findings

1. **A transfer is not atomic** (`transfers_timeout`). A late reply is taken for
   a refusal: a credit that was executed is followed by a reversal, and the
   amount exists twice; a debit that was executed is not reversed at all.
2. **A payment can be approved twice** (`payments_approved_once`), and is then
   debited twice, without any fault: nothing looks at the current status.
3. **An alert for a payment that was not accepted** (`payments_alert_accepted`):
   the fallback after a failed `POST` goes on as if it had succeeded.

Seen while modelling and allowed by the properties: two deposits that race can
be answered with the same balance, because `updateBalance` reads it from the
shared `Account` after `compute` has returned. `QuotedBalanceIncludesDeposit` is
what can still be relied on. In the same way:

* The comment at `gateway-api/main.py:147-151` says that a refresh "recovers
  immediately on the very next request". It does not if another request's older
  answer replaces the cache between the fetch and the decode; that is the one case
  `RefusedOnlyIfOverwritten` leaves.
* A payment whose amount is no number is accepted by transaction-service, and
  kills fraud-detection's receiver thread. It ends in the DLQ, and so can the valid
  messages behind it, which were delivered as often as it was.
* "Reads all settled transactions" (`ReconciliationJob.java:43`) is more than the job
  does. Its query leaves out what was settled before yesterday and, while
  `RECONCILIATION_SCENARIO_ENABLED` is set, everything in JPY, and the run still
  completes (`ReconciliationJob.java:132-159`, a fault put in on purpose). And two
  runs that overlap can complete having read a part of the selected rows each, or
  with a row that neither has taken, because they share the reader's cursor and item
  count. `CompletedReadsAll` is about the rows the query selects, and exempts runs
  during whose reading another cursor was opened. The trigger is answered 202 in all
  these cases, and also when the run has failed.
* The gateway's balance endpoint answers 200 with a balance of 0.0 when
  account-service fails, and `list_payments` an empty list.

## 5. Proofs

The seven modules `...Proofs`, with `Sums`, prove, for every value of the constants that
satisfies the modules' named assumptions (any number of requests, accounts, keys,
messages, users, runs, rows, restarts and losses, any set of the faults a module has), type
correctness, every safety invariant and action property that a passing run
checks, and both refinements. Each module rests on one inductive invariant,
checked with TLC before it was proved. Two theorems have a hypothesis beside the
named assumptions: the refinement of `AtomicTransfers` and `Conservation` are about
a platform without faults (`Faults = {}`), as is the run that checks them; with a
late reply the docstring does not hold (finding 1).

* **Transfers.** `Phase(t)` says what the place a handler has reached implies of
  its calls; `Ordered(t)` is the saga order; `Refundable(t)` says that until
  account-service restarts, the account a debit was executed on is known, so
  that the reversal cannot be refused. `AllOrNothing` is not inductive without
  the last: the handler does not look at the reversal's status, so "reversed"
  alone would not show that the money is back. A frame lemma covers all
  transfers but the one that moves.
* **Payments.** `Way(p)` follows a payment through the Node handler (what the
  row, the log, the loop counter and the Map must be at each `await`);
  `Request(v)` ties an officer's answer and debit to the recorded approval;
  `Told(p)` says that each status in the Map, in the reply and in the 201 is a
  decision that was recorded. The bound of the publishing loop is part of `Way`,
  because type correctness is not inductive without it.
* **Tokens.** A request's key is one Keycloak had made when the token was
  presented, and retirement is for good, so what Keycloak has answered since
  includes the key as long as it is published (`AnswersKnow`). A buried key is
  `Dead`: in no answer under way, and in the cache only while that has lapsed.
  The two action properties follow from a step that starts in `Inv`.
* **Messaging.** `InOrder`: what is in flight arrived before what is queued, and that
  before what is unsent; `AcksInOrder`: a message whose ACK is under way has been
  handled, and with cumulative ACKs so has everything in flight before it. These two are what
  makes cumulative acknowledgements safe. `AttemptsLost`: each delivery a valid,
  unscored message has used up was a lost connection, unless a killer of receivers
  is ahead of it; for that, `BehindTheKiller` says what can be in flight when a
  receiver has died and nobody has noticed.
* **Workload.** `TokenInv`: the generator's clock on a token is at most one timeout
  ahead of Keycloak's, and a call under way with a token has
  `left + elapsed > Timeout`; hence the assumption of a margin of two timeouts.
  `SharingInv` and `ReadInv`: two runs that read at the same time both share, and
  one that shares with none has taken exactly the rows up to the cursor.
  `AloneInv`, `CleanInv`, `HealthInv`: unless runs overlap, one is active at a time,
  the reader is as new whenever none is, and the item count follows the cursor.
* **Sums.** A sum over a finite set is a fold. Its laws need induction over finite
  sets, and the library's induction theorem takes an operator, which the provers
  cannot instantiate. `SubsetInduction` says the same of a *set* of subsets: if a
  subset belongs to it whenever all its proper subsets do, all belong to it.
  From it follow the value of a sum with one more element, with one summand changed
  or moved, and that equal summands have equal sums.
* **Balances** (`TransfersAccountingProofs`, `PaymentsProofs`).
  `BalancesMatchLegs` and `BalancesMatchDebits` need that an executed call's account
  is known and its request fixed: then serving a call adds one summand to one
  account's sum, a restart empties all sums, and every other step leaves the set
  of executed calls as it is.
* **Refinement of `AtomicTransfers`.** Abstract funds are the balance plus what is
  held for transfers under way. Serving the credit is the atomic move;
  an answer to the client before that declines the transfer; serving a debit or a
  reversal only changes who holds the amount, and is a stutter. `Quiet` says what an
  absence of faults implies of the calls (none is lost, late or forgotten), which is
  what makes the last true. `Conservation` follows from the refinement alone: an
  atomic move shifts an amount between two summands of one sum (`SumShift`).
* **Composition** (`MeridianProofs`). `TransfersProofs` and `PaymentsProofs` prove,
  besides their own steps, a *neighbour lemma*: `Inv` survives any step that leaves
  the endpoint's variables alone and forgets no account. The store is all that
  endpoints share, and a delta or a creation of another endpoint is such a step, so
  both invariants hold of the composition, and with them what is proved of each
  endpoint alone: `TransfersKeepTheirPromisesHolds`, `PaymentsKeepTheirPromisesHolds`.
* **Refinement of `Bank`.** Each step is taken apart by the endpoint it belongs to:
  a served call adds one entry, whose id was not spent (its call was `sent`, and
  ids of calls are distinct); everything else leaves the store, the entries and the
  spent ids alone, opens an account, or begins the books anew. No call goes back
  from executed to `sent`, which is what the transport's "retries=1" must not
  change. `BooksBalance` follows from the posting of one entry.
* **Quoted balance.** The witness for "some of the other entries" is all of those on
  the account when the balance is read; it stays a witness because entries are only
  added, or forgotten all at once, when the deposit is `wiped` as well.

Only model-checked is liveness (`EveryTransferEnds`, `EveryRequestEnds`,
`EveryPaymentScored`, `EveryRequestAnswered`, `EveryMessageSettles`, `PoolRecovers`,
`EveryRunEnds`), which is out of the prover's reach.

## 6. Not modelled, and the plan

Modelled: the money-moving endpoints and what is behind them, token verification,
both queues with their consumers, the reconciliation job and the traffic
generator. What could follow:

1. **An abstract specification of messaging** (at least once, in order, to the
   consumer) and of the reconciliation job (a run reads every row or fails), proved
   from the invariants that are there.
2. **Frontend session**: login, silent refresh and sign-out of one page. It shares no
   state with the services.
3. **Messaging** with several consumers per queue, and composed with the producers of
   `Payments` instead of messages of any content.

Not modelled:

* the read endpoints of the gateway: they change no state;
* `StatementJob`, built like `ReconciliationJob` with a reader of its own, and the
  cron triggers, which are disabled by default;
* `generate-patches.py` and the Makefile's targets, which edit source text (this
  needs text processing, not states), and `test-e2e.py`, a list of checks against
  a running installation;
* `--once` of the traffic generator, which makes the same calls in a fixed order;
* infrastructure as code, dashboards and synthetics;
* the connection pools of the services beyond what is said above, and the pages
  and address limits of the broker.
