# Formal models of Synkora

TLA+ modules about the parts of Synkora whose correctness depends on the order
in which several processes act: the pool of bot workers, the metering of
credits, payments, scheduled tasks and human approvals, the ingestion of
documents, and incoming webhooks. TLC checks them on small instances; TLAPS
proves the main safety properties for every value of the constants.

    tlc -workers 2 -config metering.cfg MCCreditMetering.tla
    tlapm CreditMeteringProofs.tla

Paths below are relative to `api/src/` of the repository.

## 1. The system

Synkora is a multi-tenant platform for AI agents: a FastAPI application
(`controllers/`, `services/`), Celery workers and a beat scheduler (`tasks/`,
`celery_app.py`), a pool of long-lived bot workers (`bot_worker/`), PostgreSQL,
Redis, and clients (`web/`, `flutter/`, `extension/`, `sdks/`). Most of it is
request/response code around one database row. What follows is the inventory
of the parts that keep state between steps.

| Component | State it keeps | Operations | Talks to | What makes it correct |
|---|---|---|---|---|
| bot worker pool (`bot_worker/`, `services/bot_worker/`) | Redis: heartbeats, assignments, claim locks, event stream, command channels; per process: ring, active bots, handlers, connections | start, claim, connect, assign, stop, unassign, heartbeat, check loop, SIGTERM; API: activate, deactivate, restart | Redis, the bots' tables, chat platforms | one task starts a bot at a time; memory and connections agree; rings converge; active bots are served once, inactive ones not at all |
| credit metering (`tasks/billing_tasks.py`, `services/billing/credit_service.py`, `agent_pricing_service.py`) | balance row, transactions, revenue rows, the billing queue, the failed set in Redis | validate, queue, deduct, record revenue, retry, store as failed, reconcile nightly | chat streaming, Celery, Redis | each message charged and paid once, no lost update, no overdraft, what slipped through is repaired |
| subscriptions and payments (`services/billing/subscription_service.py`, `stripe_service.py`, `paddle_service.py`, `controllers/billing.py`) | subscription, top-up and balance rows, processed event ids in Redis | webhooks, checkout verification, renewal, top-up | payment providers, credit service | a payment is fulfilled, once if it went through the key; the balance adds up |
| human approvals (`services/human_approval_service.py`, gate in `services/agents/adk_tools.py`) | approval rows, routing keys and execution tokens in Redis | request, reply from any channel, expire, resume | chat platforms, Celery | an action runs no more often than it was approved, and does run |
| scheduled tasks (`tasks/scheduled_tasks.py`, `services/scheduler/`) | task rows with `last_run_at`, execution rows | check due tasks, execute, clean up | Celery beat, approvals, agents | a due task is queued, whatever fails |
| knowledge ingestion (`services/company_brain/ingestion/`) | Redis stream with a consumer group, set of seen documents | produce, consume, index, acknowledge | search backend | a document is indexed, or counted as dropped or failed |
| webhook intake (`services/webhooks/`, `tasks/agent_tasks.py`) | stored events and their status | receive, process, clean up | agents | an event is processed once, or given up |
| caches (`services/cache/`) | Redis copies of agents and conversations | read through, invalidate, expire | all readers of agents | a stale copy does not outlive its time |
| circuit breaker, limiter, pools (`services/performance/`) | in-process counters | call, record, refill | model providers | limits are kept |
| sessions and tokens (`services/session_service.py`, `auth_service.py`) | session rows, revoked tokens | log in, refresh, revoke | every request | a revoked session ends |
| the rest | see section 8 | | | |

Behaviours that are hard here, and that the modules are about:

* **asyncio interleavings.** A bot worker is one process with five coroutines; between two
  awaits a coroutine is alone, but `_stop_bot` and `_start_bot` await for seconds and other tasks
  act on the same dictionaries meanwhile.
* **Unconditional writes to Redis** (`HDEL` of an assignment, `DEL` of a lock): they take effect on
  whatever is there by then.
* **Crashes, restarts, stalls.** Nothing in a worker's memory survives; Redis and the database do.
* **At-least-once jobs.** Celery acknowledges late and delivers again; tasks retry, the failed set
  and the nightly run queue the same deduction once more.
* **Several commits for one operation:** charge and revenue, queueing and removal, row and command,
  a top-up's status and its credits, an approval, its token and its run.
* **Providers and users who repeat themselves:** webhooks are delivered until acknowledged, a checkout
  is verified beside its webhook, two people answer one request.
* **Check, then act:** duplicate deliveries, tokens, seen documents and pending requests are read in
  one statement and changed in another, some under a lock and some not.
* **Time:** a lock's time to live, heartbeats, the grace period and the window of the nightly run.

## 2. Modules

| Module | Models |
|---|---|
| `HashRing` | which worker owns a bot (`bot_worker/consistent_hash.py`), for any points and hashes |
| `BotCluster` | the pool: workers, Redis, API side |
| `CreditLedger` | abstract: what a tenant's balance promises to charges and top-ups |
| `CreditMetering` | chat, billing workers, nightly run; implements `CreditLedger` |
| `TenantAccount` | abstract: `CreditLedger` with grants and renewals |
| `Payments` | provider webhooks, checkout verification, renewals, top-ups; implements `TenantAccount` |
| `ScheduledTasks` | beat's sweep of due tasks, and their runs as jobs |
| `Approvals` | extends `ScheduledTasks`: what the runs ask of humans, and the answers |
| `Ingestion` | documents through a Redis stream into the index |
| `Webhooks` | an agent's incoming webhooks, their events, jobs and the sweep |
| `MC*` | the small instances of each |
| `*Proofs` | the theorems about each |
| `FiniteSums` | lemmas: induction over natural numbers and finite sets, and sums over them |

Operators under a comment that starts with "Mutant:" are wrong variants of a definition. They are
used by no specification; replacing the definition by one of them must break the property listed
with it in `PROJECT.json`.

How they compose: `Approvals` takes the scheduler's variables and actions and adds what happens inside
a run; `Payments` and `CreditMetering` are about the same balance row, seen from two sides, and the
deduction, a protocol in one, is the single step `Charge` of the other (its refinement of `CreditLedger`
is what allows that); the abstract `TenantAccount` extends `CreditLedger`.

### 2.1 BotCluster

The grain is the code between two awaits, with a Redis command taking effect in the action that
awaits it. `pc[w][t]` says where task `t` of worker `w` is:

| Task | Coroutine |
|---|---|
| `main` | `start()`, later `stop()` |
| `events`, `commands` | `_event_listener_loop`, `_command_listener_loop` |
| `check` | `_dead_worker_check_loop` |
| (action `Heartbeat`) | `_heartbeat_loop` |

`claim`, `starting`, `connect`, `assign`, `release` are the stretches of `_claim_and_start_bot`
(`raise` the `finally` of a start whose exception goes on to the caller); `stop`, `await`, `close`,
`unassign` those of `_stop_bot`. `handlers` stands for the three dictionaries of handlers,
`connections` counts the clients that are at work, tracked or not: the difference between the two
is what the safety properties are about.

A client runs in a task or thread of its own. `Connect` stores its handler and lets it run; from then on
it may end by itself (`ClientFails`: `start()` or `start_polling()` of Telegram, the imports of a WhatsApp
thread; `PollingEnds`: the loop sees that its bot is not active or the worker is shutting down). Neither drops
what is stored, so `ended` are the stored handlers whose client is gone. `ThreadExits` is the `finally` of a
WhatsApp thread, which drops whatever is stored, and `ThreadGoesOn` a thread that missed its disconnect.

Time is three actions: `HeartbeatExpires` (30 s without a heartbeat; of a running worker only as often
as the budget has `stalls`), `LockExpires` (30 s of a lock; with `SlowStarts` even while its holder is
still starting), and the fact that the loops act at any time.

Abstractions: what MD5 yields for workers and bots are the constants `Points` and `Hash` (the search of
the ring for the next point, and its wrapping, are modelled); reads that no other
step can separate in a way that matters are one step (ring and bots of the database in a cycle;
assignment and health of its worker in `ClaimOrphanedBot`); the hash of worker information, which
only views read, is left out; Redis does not fail at the claim lock itself (`LockExpires` would clear what
such a failure leaves), but may in a start or stop (`StartFails`, `StopFails`); a Slack client that cannot
connect tries again for ever and counts as at work; a SIGTERM during `start()` is `Crash`; a worker is
subscribed to its commands from `StartLoops` on; closing a Slack connection always succeeds (its
errors are swallowed); whether a Slack task has ended when it is stopped is nondeterministic; the
polling loop of Telegram closes its application in one step; which WhatsApp threads already have a client
when they are told to disconnect is not followed (any may have none); `start_bot` commands have no sender and are left out.

### 2.2 CreditMetering

One tenant, one agent priced per use. The grain is one call to the database, the broker or Redis.
`chat[m]` follows a message from the credit check to the queueing of its deduction; `queue` counts
the deliveries of each job; `pc[w]` is where a billing worker is in `deduct_credits_async`:

| `pc[w]` | code |
|---|---|
| `began` | up to `SELECT ... FOR UPDATE` (`credit_service.py:350`) |
| `locked` | idempotency check, balance check, update, commit |
| `charged` | `record_agent_usage`, a transaction of its own |
| `failed` | the `except` branch: retry, store as failed, or lose it |
| `ack` | done, not yet acknowledged |

`reconcile` is where the nightly run is. It first queues the entries of the failed set that are older
than the grace period, removing each after it was queued, then the messages without a transaction
that are between one hour and one day old.

Time is a clock that jumps between chosen minutes of the day (`Instants`), the last being the run.
Ages are kept up to the limit that the queries look at. The clock stands while a run is in progress.

Abstractions: the metadata of a job is its message; a lookup of the price that fails aborts the
transaction and so fails the deduction; a top-up holds the row lock for its whole transaction and is
one step; entries of the failed set for one message and of one age are one; entries older than seven
days are never fetched (the branch that expires them cannot be reached) and the model keeps them; the
LIMIT is a constant; beat never misses a run; a message is not saved at the very minute of the run.
Refunds and the synchronous `deduct_credits` are left out; top-ups and renewals are told in `Payments`.
The run's docstring also lists duplicate deductions and balance discrepancies, for which there is no
code.

`CreditLedger` is the abstract specification: `total`, `used` and the set of charged messages, with
the two steps `Charge(m)` and `TopUp`. The mapping is `total <- balance.total`,
`used <- balance.used`, `charged <- {t.msg : t \in transactions}`.

### 2.3 Payments

A call is one HTTP request with its session; `pc[c]` is the stretch of code between two transactions:

| `pc[c]` | code |
|---|---|
| `received` | a Stripe webhook before `_check_webhook_idempotency` |
| `handling` | at the start of its handler; Paddle webhooks and `verify_checkout_session` begin here |
| `renewing`, `resetting` | `renew_subscription` before the row lock of `reset_monthly_usage`, and holding it |
| `adding`, `crediting` | before the row lock of `add_credits`, and holding it |
| `fulfilled` | the handler has returned `True`, the answer is not yet sent |

`pending` are the events a provider will deliver (again); it may do so while an earlier delivery is
being handled. `granted[e]` counts how often event `e` gave credits or access: the history the properties
are about. `unguarded` are the Stripe events that were handled without the key (Redis away, or
`verify_checkout_session`), `spoiled` those a webhook handling of which failed with the key stored.

Abstractions: an event's effect is its kind and the credits it is worth; `payment_intent.succeeded`
is handled as a top-up's checkout is; the handlers of `customer.subscription.*` write one row and are left
out, as are plans that do not exist; the 24 hours of the key do not end within a run; the handler of
invoices fails once the subscription is linked, because `renew_subscription` is given the tenant's
identifier where it looks up a subscription's (`stripe_service.py:690`). No route of the API creates a
top-up today (`create_topup_checkout` has no caller): its events are handled all the same.

### 2.4 ScheduledTasks and Approvals

`due[t]` is what `_is_task_due_sync` says of the committed row; a sweep `k` reads a page of due tasks,
queues and marks each, and commits the marks together. `outdated` are marked tasks that became due again
before the commit, so that the commit does not undo the next instant. A job is a message with the task and
its origin: scheduled, a feedback, or the request whose approval resumes it. `Runnable` is the test that lets
a paused task run for an approval only.

In a run, `gate[j]` follows `_check_approval_gate`: `cleared` is between the GET and the DELETE of the
token, `executing` between the DELETE and the tool, `asking` and `notifying` are the two halves of
`create_and_notify`. An answer comes `via` `reply` (routing key, then `handle_reply` with the row FOR UPDATE)
or `respond` (`respond_to_approval`, no lock); `committed` and `stored` are between the three steps of an
approving answer. `TokenFails` is a Redis error at the GET or the DELETE, which `execute_tool` catches: the run
goes on without the call, and the token may be gone. A write of an unlocked answer still waits for the row's lock (`CommitDecision`).

Abstractions: what the agent does besides one gated call per run; a run with an approval makes the call it
was approved for, as its prompt says; `raced` are the calls whose token two runs read before one deleted
it; a WhatsApp text that is unclear is not passed to `handle_reply`, which then changes nothing;
approvals inside a chat session have no job and are left out; execution rows and notifications are not
read by any step.

### 2.5 Ingestion

`stream`, `pending`, `acked` are one Redis stream per knowledge base with its consumer group: `Consume`
is XREADGROUP with `>`, so entries pending for a run that was cut off are read by nobody. A run is
`read`, `filtered`, `embedded`, `indexed`, `done`; failures of chunking and indexing hit any part of
the batch, those of embedding the whole. `Chunkless` are the entries that the filter lets pass and of which the
chunker makes nothing: the filter takes `content` or `text` (`stream_consumer.py:218`), the chunker only `content`
(`chunker.py:84-90`). `seen` is one set per tenant and source for all knowledge bases,
and expires as a whole. `failures`, `duplicates`, `abandoned` and `vanished` are histories: what became of the
entries that are not indexed. `vanished` are those of which nothing was left to index without an error: no chunk,
or no embedding (`zip` stops at the shorter list).

Abstractions: content, chunks and vectors, so that a document keeps or loses its chunks as a whole; the Qdrant backend with upserts (the PostgreSQL one indexes
nothing at this point); the de-duplication in Redis, which is the default; no trimming of streams.

### 2.6 Webhooks

An event is named after the request that recorded it. `at[r]` follows `process_webhook`: `dedup`
(same pull request within five minutes), `replay` (same delivery id), `create`, `trigger`, `count`, then the
answer. `pc[w]` follows the Celery task: `loaded` (status read), `running` (`processing` committed),
`failing`, `rejected` (a permanent error), `retry`, `done` (not acknowledged). A job carries its number of
retries. `old` are the events past the window of five minutes, and so possibly past the thirty of the sweep.
`before[r]` remembers which requests were answered when `r` arrived: what "again" means in the
properties. `raced` are the events that two tasks held at once, which redelivery by the broker makes
possible, `dropped` those a task gave up on without a trace: its last failure could not be written, or its
retry not be sent. `Identified` are the deliveries with an identifier: the look-up of replays is skipped for the
others (`webhook_processor.py:300-309`). `PrEvents` are the `pull_request.*` events: only they look for an earlier event
of their pull request (`119-121`), which may be of any type.

Abstractions: the webhook exists and wants the delivery; the Jev gate may skip any; a run that ends with
an error event in its stream counts as ended, as in the code; writes to a deleted row fail.

## 3. Runs

| Run | Instance | Shows |
|---|---|---|
| `pool` | 2 workers, a Slack bot; a SIGTERM and a stall, or a crash; fairness | starts exclude each other, assignments change under the lock, rings agree, the bot is served by its owner, with one connection (0.26 M states) |
| `pool_deactivate` | 2 workers, one deactivation at any moment, fairness | the bot ends up silent (0.35 M) |
| `pool_platforms` | 1 worker, a Telegram and a WhatsApp bot; two overlapping requests, or a request and two faults, or a request, a SIGTERM and a fault, or a crash, a SIGTERM and two faults; slow starts, identifiers reused | types, and the books of handlers and connections through all error paths (0.35 M) |
| `pool_dark_bot` | 2 workers, one crash, identifiers reused | violation of `ActiveBotsServed` |
| `metering` | 2 messages, 2 workers, price 2, 3 credits, a top-up of 1, one retry, one error, one crash | charged once, ledger agrees, no overdraft, paid once, `CreditLedger` implemented (2.1 M) |
| `metering_repair` | 1 message, 1 worker, 2 errors, 2 outages, a kill, a crash, fairness | due messages and failed deductions are charged in the end (0.16 M) |
| `payments` | 2 calls; four pairs of events of seven kinds; an error, an outage, a verification, a message to charge; fairness | granted once under the key, credits add up, no acknowledged payment forgotten, `TenantAccount` implemented, fulfilled unless spoiled (0.21 M) |
| `approvals` | 1 task, 2 jobs, 2 requests, 2 answers by reply or button; a fault and a toggle, or two toggles | no more executions than approvals, no approval forgotten, replies never override (0.94 M) |
| `task_runs` | 1 task, a tick, 2 jobs, 1 request, 1 answer; a fault or a toggle; fairness | what is approved runs, what is due stays due until queued, and is queued (0.21 M) |
| `ingestion` | 5 entries (one repeats a document, one without chunks, one short, one malformed), 2 knowledge bases, 2 consumers, batches of 2; a fault or a deletion; fairness | marked is indexed, acknowledged is handled, documents arrive, unless nothing was left to index (0.18 M) |
| `webhooks` | up to 3 requests, with and without identifiers and of two event types, 2 workers, one retry; up to two faults of any kind; fairness | one run per event, replays and repeated pull request events dropped, accepted events end (0.28 M) |
| `webhooks_retry` | 1 request, one error of the agent, fairness | violation of `RetriesRun` |

Why the bounds are enough to be interesting. *Pool:* the points put `w1` next after every bot's hash, so a bot
moves to `w2` and back as `w1` leaves and joins; the workers start at any time relative to each other, which
already gives the scale-up; one request, crash, stop or stall is enough to overlap the three tasks of a
worker that start and stop bots, and `pool_platforms` has two requests as well, since a Telegram application
only loses its entry while it polls when a restart crosses another stop. `MaxConn` bounds the connections one
worker piles up for one bot; a start beyond it fails. *Metering:* the credits cover one message, and
two only after the top-up, so that both outcomes of the balance check occur; one error and one crash with one
retry put two deliveries of a job into two workers at once; the third instant of the repair run is half
an hour before the run, so that messages younger than the grace period occur. *Payments:* two calls
suffice for two deliveries of one event, for a webhook beside its verification, and for two payments
on one row, and the pairs put each kind of handler beside another that writes the same row. *Approvals:*
two jobs race for a token, two answers for a request, and a second request takes over the routing key.
*Ingestion:* batches of two leave a rest in the stream; the repeated document comes once for each of
two knowledge bases, so that two consumers can index and mark it at once. *Webhooks:* three requests of one
delivery give two that overlap and a third that finds both; two workers hold one job after it is
redelivered. A budget says how many faults of which kind may happen, and a run takes several
budgets rather than all faults at once.

Symmetry is used where all properties are safety (`metering`, `approvals`). Deadlock is checked wherever
the system cannot really stop: it can in runs in which every worker may have left for good, and in those
in which everything that was sent is done (`CHECK_DEADLOCK FALSE`).

## 4. Fairness

Pool: a live process runs each of its tasks (asyncio's loop is fair to ready callbacks), a container
that ended is started again where identifiers are reused, keys expire, heartbeats of workers that do
not send them age, a disconnecting thread exits, an API call that committed goes on to publish.
Nothing is assumed of requests, crashes, stops, stalls, faults or of the polling loop of Telegram;
the liveness runs have Slack bots only, and a capacity that suffices.

Metering: billing workers work, the nightly run goes on, time passes. Chats need not go on, and no
error, outage, kill, crash or top-up needs to happen. `Settled` excuses a message whose credits do
not suffice and one whose repair was itself lost in the run at hand (a failed query, a refused job,
a killed worker): the promise is then for the next time the message is due.

Payments: the server finishes its calls, and a provider delivers until it is answered with 200. Nobody needs
to come back from a checkout, no message needs to be charged.

Approvals: workers take jobs and finish their runs, beat ticks, an answer that has begun goes on. Humans
need not answer and tasks need not become due again, so that a lost instant is not made up for by
the next. `FireRun` is strongly fair: the places for jobs are a bound of the model and not of the
broker's queue, so an answer must not wait behind them for ever.

Ingestion: beat sends consumers, they drain every stream and end. Sources need not push. Webhooks: requests
and runs end, jobs are taken, time passes, the sweep is run.

## 5. What the models found

Two disagreements with what the repository says of itself are runs of their own, told in full in
`PROJECT.json`:

1. **A bot may stay dark** (`pool_dark_bot`, `worker.py:1090`). The check for a healthy owner trusts
   the assignment. A worker that restarts under its old identifier within 30 s is healthy and does
   not run the bot, is not its owner on the ring, and the owner skips it for ever. `ActiveBotsServed`
   holds in `pool`, where identifiers are not reused after a crash.
2. **A webhook's transient failure is never retried** (`webhooks_retry`, `agent_tasks.py:135`). The
   task writes `retrying` and sends itself again; the second attempt leaves because the event is not
   `pending`, and the event stays `retrying` for ever.

Others met while modelling are part of the models, and the properties are stated around them:

* Two overlapping stops of a Slack bot with a start in between may take the newer connection's entries
  out and leak it (`worker.py:841`); `SingleConnection` is checked without restart requests.
* A client that fails after its handler was stored leaves its bot in `_active_bots` without a connection: a
  Telegram application whose `start()` or `start_polling()` raises (`worker.py:654-672`), a WhatsApp thread whose imports
  fail and which returns before the `finally` that would pop the bot (`561-564`). `_start_bot` answers "already
  running" and the check loop passes such a bot by, until it is restarted or moved. `OnlyEndedGhosts` says that
  there are no other bots of that kind, and `TrackedConnections` counts the handlers whose client is at work.
* `stop()` raises the flag first that makes `main()` return (`main.py:118`), so a worker may end without
  having unregistered; its peers take over after the timeout.
* A message saved within the hour before the nightly run and never queued is in no run's window
  (`billing_tasks.py:441`); `total_uses` loses concurrent increments (`agent_pricing_service.py:172`).
* An invoice never renews a subscription: the handler passes the tenant's identifier
  (`stripe_service.py:690`), which no subscription has. Every `invoice.payment_succeeded` of a linked
  tenant fails, and its second delivery is acknowledged as a duplicate.
* A Stripe event whose handling failed is acknowledged when it comes again, its key being stored already
  (`stripe_service.py:559`); a checkout verified by the user is fulfilled beside its webhook, and
  Paddle's events have no key at all.
* `respond_to_approval` may approve a request that another answer has rejected meanwhile, and the other
  way round; a crash between the commit and the token or the run leaves an approval without effect; the
  token's ten minutes run from the approval. GET and DELETE of the "one-time" token are two calls, so two
  runs may use it.
* A batch whose embedding or indexing failed is acknowledged, although the docstring
  promises "On failure: retry up to 3x, then move to dead-letter stream" (`stream_consumer.py:20`); a batch
  that is cut off stays pending unread; a document pushed for a second knowledge base, or edited within
  seven days, is dropped as seen; a failed XADD is not told to the sender.
* A document with its content in `text` passes the filter and yields no chunk, which nothing counts
  (`stream_consumer.py:218`, `chunker.py:84-90`). In a batch with others it is marked as seen (`stream_consumer.py:212`), and
  a good version that comes within seven days is dropped; alone it is acknowledged and not marked (`172-173`). A document
  whose embedding is missing from the answer is marked the same way (`185`). The properties except `vanished`.
* Two overlapping deliveries of one webhook are recorded twice, and the third then fails; a process lost
  between the event and its job leaves an event `pending` that no sweep looks at, and so does a job whose
  event cannot be read or marked and whose failure cannot be written either (`dropped`); the sweep
  measures from the arrival of the event, not from the start of its task, and may fail one that runs. A provider
  that sends no identifier has its replays recorded and run as new events.

Two properties say less than their names: `RepliesNeverOverride` is about replies in a channel only, and and
`DueUntilQueued` is about ticks: a run that ends counts as the answer to its task by itself.

## 6. Proofs

Assumptions are those named in the modules: `NoWorker` is no worker and so on for the other null values,
bounds are natural numbers, every worker has points on the ring and no two workers share one, the run's
instant is one of the instants, `Job` and `Answer` are finite in `Approvals` and `Event` in `Payments`, where
the access to the plan is no credits. Everything else (workers, bots, messages, events, calls,
requests, failures) is arbitrary and, but for these, not assumed finite. Each module of proofs first
shows `TypeCorrect` action by action, then one inductive invariant per property.

**BotClusterProofs.** The exclusion of starts is not inductive by itself: that the winner of the SET NX is
alone needs every starting task to find its worker's name in the lock, which in turn needs the
DELETE of one task never to remove the lock of another. So the invariant is

    ClaimInvariant == TypeOK /\ LockHeld /\ ClaimExclusion

and `Exclusion`, `OwnLock` and `AssignedUnderLock` follow from it. They are conditional on
`SlowStarts = FALSE`: a start that outlasts the lock's 30 s loses it.

The ring is proved about for any points and hashes. `OneOwner`: the look-up finds a point of the ring, and one
worker has it. A point that is the next one of a ring is the next one of each smaller ring that still has it
(`NextPointStays`), so `LeavingMovesOwnBots` and `JoiningTakesForItself`: what is exact in the file's promise
that "only ~1/N bots need to be reassigned" (that the share is 1/N is a matter of statistics). `RingShares`:
workers with the same ring divide the active bots among them, which is why it matters that the rings agree
(`RingsAgree`, checked by TLC). `RingsUsable` is about the pool: no worker looks a bot up in a ring it is not in
itself, and an active bot that `_release_unowned_bots` gives up is another worker's by the same ring.

**BotConnectionsProofs.** `TrackedConnections` counts the handlers of all bots, active or not: a Slack task that
awaits its polling task closes, afterwards, whatever handler is stored by then, also when another task has taken
the bot out of `_active_bots` meanwhile. `OnlyEndedGhosts` is not inductive: an active bot has a connection because it
has a handler, or because a task is closing it. So the invariant is

    ConnectionInvariant == TypeOK /\ TaskKinds /\ (Covered, ActiveIsHeld and ClientKind for each bot)

`Covered` is `TrackedConnections` for one bot; `ActiveIsHeld` says that an active bot's handler is stored or in the
hands of a task that closes it; `TaskKinds` and `ClientKind` say which kind of bot is awaited, closed, told to
disconnect, or ended. The number of closing tasks is followed by lemmas about `Goto`. `ConnectionsTracked` and
`GhostsAreEndedClients` follow; a client that fails keeps the invariant by moving its handler to `ended`.

**CreditMeteringProofs.** The invariant is

    MeteringInvariant == TypeOK /\ LockInvariant /\ LedgerInvariant /\ RevenueInvariant

`LockInvariant`: what a worker has read under the row lock is still the row. `LedgerInvariant`: the
transactions are finitely many, keyed by their message, and the balance is what they add up to.
`RevenueInvariant`: a worker between charge and payment is the only one for its message, which is
charged and not yet paid. Most steps are `Quiet` (they leave the ledger alone and enter no critical
part) and keep all of it at once; the proof then looks at the four that are not: a committed
deduction (whether its worker learns of it or not), a top-up, taking the lock, and recording the
revenue. From the invariant follow `OneCharge`, `LedgerCorrect`, `NoOverdraft`, `OnePayment` and, by
mapping each kind of step, `ImplementsLedger`.

**PaymentsProofs.** `GrantedOnce` needs to know, of an event that is handled under its key only, that at most
one call is past the check, and that it has granted nothing as long as no key is stored or that
call is at work (`OnceInvariant`). A step that grants nothing and lets no call past the check `GoesOn`
and keeps it; the check itself and the two granting steps are left. `ImplementsAccount` needs
`LockInvariant`: whoever has read the row to write it back holds its lock and has read what it
still contains; each step then maps to a grant, a renewal, a charge or a stutter.

`TotalAccounted` (no credits are lost or made up): the balance's total is what it was in the beginning and the sum
of the grants over all events, and what is available is the total less what charges used. A grant adds one
event's credits to the sum and to the balance: `SumGrows` of `FiniteSums`, proved by an induction that is stated
with a set in place of a predicate (`SubsetInduction`) and rests on the well-foundedness of the natural numbers, since
the library's induction theorems take operators, which the provers cannot instantiate. `NoneForgotten` is
what is safety in `FulfilledUnlessSpoiled`: a payment that is no longer pending at the provider is granted, spoiled, or
a webhook is still at work on it. The case that matters is the duplicate that is acknowledged while the first
delivery is slow; `PaymentInvariant` therefore says of every stored key, acknowledged or not, that it stands for
a payment on its way, and of a call that is about to reply that it has granted.

**ApprovalsProofs.** `ReplyDecidesPending` rests on `ReplyInv`: a reply that has read the request holds its
lock, so no commit came in between, and what it decided fits the status that is still there.
`ExecutedAsApproved` is a counting argument. `OnceInv` says that for a call nobody raced for, the
executions, plus the run that has consumed the token and not yet executed, plus the token or the
answers about to store it, never exceed the approvals. It is stated with cardinalities of the sets of
jobs and answers at each stage, hence the finiteness of `Job` and `Answer`.
`ApprovalsKept` is what is safety in `ApprovedActionRuns`: an approval not yet used nor cut off is `Underway`. The
token is stored per call and not per approval, so that the run of one request may use up the token of another;
the proof shows that the action then runs for both. `ApprovalInvariant` adds that a job that is not
running holds no call and that only an approving answer stores a token. `DueTasksKept`: what a tick has marked and
nobody made due again was queued (`MarkedWereQueued`), so committing the page late swallows no instant.

**IngestionProofs.** `SeenAreIndexed`: `MarksIndexed(w)`, the documents a consumer is about to mark are in
the index, or have vanished, unless its batch failed. `AcknowledgedAreHandled`: `BatchHandled(w)`, at each stage the
messages of a batch are handled, or about documents that the next stages still hold. `EntriesAreHeld`: an entry
is never in the hands of two runs, and one that was delivered is acknowledged, in the hands of a run, or left by one.
`EntryInv` says where an entry can be: pushed once, waiting once in its stream (`WaitsOnce`), pending as
soon as it leaves it, so that what XREADGROUP delivers is new to every run (`DeliveredLeave`).

**WebhooksProofs.** `TypeCorrect` needs that a job about to be retried has a retry left. `RanOnce`: an event
that is not raced is in the hands of one task (`OneTask`), and while that task has not started it, it has not
been run (`NotYetRun`); once run, its status never returns to `pending` (`RunLeavesMark`). `ReplaysRejected`:
a request that passed the look-up had no earlier answered request with a kept event of the same delivery
(`NoReplayYet`), because an event is recorded before its request is answered. `ReviewedOnce` is the same
shape with the statuses that count as live, and must also know that they stay so: only old events are
swept (`SweptAreOld`), and a failed or retrying event comes back to life only if two tasks held it
(`HeldIsOpen`, `PastIsQuiet`). `NoneForgotten` is what is safety in
`AcceptedEventsEnd`: an accepted event that is still `pending` (no sweep looks at those) has its job in the queue or
with a task, or is `dropped`. It needs that a task which can be killed without a trace has marked its event before
(`RunningHasRun`, with `RunLeavesMark`).

Only model-checked: everything about liveness (`RingsAgree`, `ActiveBotsServed`,
`SingleConnection`, `InactiveBotsSilent`, `DueMessagesCharged`, `FailedDeductionsCharged`,
`FulfilledUnlessSpoiled`, `ApprovedActionRuns`, `DueTaskQueued`, `DocumentsIndexed`,
`AcceptedEventsEnd`), which depends on fairness and is out of the prover's reach. The theorems
`NoneForgotten` (of `Payments` and of `Webhooks`), `ApprovalsKept`, `DueTasksKept` and `EntriesAreHeld` are its
safety part: somebody is always there who goes on. `InOwnRing`, `ReleasedToAnother`, `NoEventForgotten` and
`EntriesHeld` were checked by TLC on the instances of `pool`, `webhooks` and `ingestion` before they were proved; no run
repeats that.

## 7. What could come next

* The agent and conversation caches: a read-through copy that a slow reader may store after it was
  invalidated.
* The rotation of refresh tokens and the revocation of sessions.
* Approvals inside a chat session, and the dashboard's cancellation of a run.
* Paddle's and Stripe's `customer.subscription.*` events arriving in another order than they were sent.

## 8. Not modelled

* Views and probes (`worker_registry.py`, `health_server.py`): they change nothing.
* Chat streaming, agent workflows, tools, MCP, voice, integrations: I/O with third parties; the two
  steps of streaming that matter for billing are in `CreditMetering`.
* Embedding, search, analytics, report rendering: numeric or presentational.
* Accounts, OAuth, SSO, SCIM, middleware: one step per request. The audit chain is appended under
  an advisory lock; what it keeps is a digest.
* `ConversationLane` (`services/agents/conversation_lane.py`) is used by no code, though the
  documentation describes it as wrapping every execution; admission of runs per tenant is off unless
  configured.
* Mail, notification, export, retention and key-rotation tasks: single jobs with outside effects.
* Controllers and models: parsing, and table definitions that appear as variables.
* Front ends, SDKs, Helm and Kubernetes files: no server state; the worker deployment's restart
  policy and pod names are the constant `ReuseIds`.

Most of the repository's source is of these kinds (renderers, provider presets, tool definitions, clients),
so the modelled share of its lines is small; it is the share in which several processes meet.

`PROJECT.json` lists every component with its files, every hazard at its line with the properties
that cover it, and the lines of the source that each definition stands for.
