# The protocols of the photo studio back office in TLA+

The repository is the back office of a photo studio chain: an Angular client, a
Node/Express backend with PostgreSQL, Redis and BullMQ, and agents in Rust for
the printers and the cash registers. This directory models the protocols of the
backend whose order of steps matters, checks them with TLC on small instances,
and proves the most important properties with TLAPS for every value of the
constants.

Five subsystems are modelled: the **delivery** of a broadcast campaign
(Telegram, MAX, VK) and its **launch** (draft, go-live, dispatch,
materialization); the **fiscalization** of a cash desk receipt, from the claim
in the backend to the paper of the register and back; the **settlement** of a
card payment that has no receipt; and two mechanisms that all of them run on,
the **scheduler leader** and the **circuit breakers**. They were chosen because
a wrong step is irreversible: it writes to real clients twice, prints a second
fiscal document, or loses track of money.

Paths below are relative to `src/backend/src/` unless they say otherwise.

## 1. Inventory

| Component | State | Operations | Hard because | Correct if |
|---|---|---|---|---|
| Broadcast delivery (`services/broadcast/`: `broadcast-worker.ts`, `campaign.service.ts` 805-1090, `max-broadcast-*.ts`, `vk/vk-*.ts`) | `campaign_recipients` rows, BullMQ queues, governor key in Redis, `marketing_suppressions` | dispatcher tick, job pickup, lease, send, record, pause after 429 | several workers per row, nothing dedups jobs, crashes after a send, 429s shared by all | one holder per row, no copy without an unrecorded earlier one, statuses move forward, due rows are settled |
| Campaign launch (`routes/broadcast-campaigns.routes.ts`, `campaign.service.ts`) | `marketing_campaigns`, `campaign_recipients`, contacts, dialogs, opt-ins | create, edit, go-live, dispatch, CRM status change and relabelling, preview | dispatch is five database steps, materialization two statements under READ COMMITTED, unique indexes decide races | the test gate holds, no rows in draft, one row per VK peer, a complete funnel |
| Unsubscribe and permission callbacks (`broadcast-callbacks.service.ts`, `vk/vk-broadcast-callbacks.service.ts`, `connectors/vk/vk.adapter.ts` 411-448) | suppressions, `channel_users` | unsubscribe, `message_allow`, `message_deny` | arrive at any moment of a launch or delivery | modelled as environment steps of both |
| POS fiscalization (`workers/pos-fiscal-worker.ts`, `routes/pos.routes.ts`, `services/pos-fiscal-retry-sweep.service.ts`, `src/print-api/src/mqtt`, `src/pos-agent`) | `pos_receipts.fiscal_status`, `pos_transactions`, NOTIFY, MQTT, the agent's SQLite, the register | claim, notify, publish, print, answer, copy to the receipt, retry, void, correct | five processes; commands lost and repeated; a register that printed although the command timed out; an answer sent again every ten seconds | one document per receipt unless somebody had to guess, success means paper, a claim is never empty, failures are retried |
| POS payments (`routes/pos.routes.ts` 1832-2780, `services/pos-orphan-payment-sweep.service.ts`, the cashier's `pos.component.ts`) | `payment_resolution`, `settled_receipt_id`, receipts that name the payment, notification marks | pay, poll, doubt, resolve, create-receipt, revert, report | two routes of eight queries each without a transaction around them; results that come late; overlapping sweeps | one receipt per payment, verdicts stand, no payment forgotten, orphans reported |
| Scheduler leader (`services/scheduler-leader.ts`, `scheduler.ts`, `server.ts`) | an advisory lock on a session, two timers per process | try, heartbeat, terminate stale holder, lose, stop | session and process end independently; not all that a leader starts is stopped with the leadership | two run schedulers only while one cannot know better; somebody leads again |
| Circuit breakers (`utils/circuit-breaker.ts`) | in memory, mirrored in Redis | allow, success, failure, hydrate | answers of calls that started in another state | tripped exactly when counted; an open one is tried again |
| Post-payment queue (`services/post-payment-queue.service.ts`) | BullMQ jobs | perks, notification | retry after some of the effects | each effect once |
| Connector pipeline (`services/connectors/pipeline/`) | inbound, outbound, status and dead letter queues | receive, resolve, send, receipt | ordering within a dialog | no message lost or doubled |
| CRM events, voice OTP, gifts | one table or queue each | claim and settle | same shape as delivery | once |
| Rust agents | offline buffer, rate limits | buffer, replay | restart | nothing lost |
| Web client, content, prices, reports | rows behind CRUD routes | read and write one row | nothing spans steps | not modelled |

Interaction: `POST /:id/dispatch` activates a campaign and materializes its
rows; the dispatcher's timer (30 s) selects active campaigns and due rows and
adds one job per row; a worker leases a row, calls the messenger's adapter and
records the outcome; a 429 writes `paused_until` of the shared bot token to
Redis, which every worker of that token reads, the support inbox included;
callbacks of recipients write suppressions that the *next* materialization
reads. At the cash desk a route claims a receipt and inserts a transaction in one
database transaction; a trigger notifies print-api, which publishes a command;
pos-agent prints and answers; print-api stores the answer and another trigger
copies it to the receipt; the sweeps of the leader look at what was left over.
The retry sweep asks a breaker before every tick.

Who runs the timers depends on the deployment. A monolith (`server.ts`) starts
schedulers, sweeps and broadcast dispatchers when it becomes leader, and leaves
the dispatchers running when it is leader no more. Split up, the leader is
`scheduler.ts`, while `workers/outbound.ts` and `workers/vk.ts` run the
dispatchers without an election, which their claim is meant to bear
(`campaign.service.ts` 805-807); both cash desk sweeps are then started by
nobody, since only `server.ts` (292-293) does it. Every hazard found on the way,
modelled or not, is in `PROJECT.json` under `hazards` with the line where it
bites.

## 2. Modules

| Module | Models | 
|---|---|
| `ProviderAnswers` | what each messenger may answer, and how `sendToRecipient`, `sendToRecipientMax` and `sendToVkRecipient` sort it: sent, limited, blocked, terminal, retry |
| `BroadcastDelivery` | the engine: dispatcher, queue, workers, leases, governor, crashes, operator, recipients. One instance serves one messenger (`Channel`) |
| `RecipientOutbox` | the abstract promise: at-least-once delivery, one more copy only after a lost one; with `Merging`, for a messenger that may merge copies |
| `BroadcastDeliveryMC`, `BroadcastDeliveryProofs` | TLC constants; theorems |
| `Audience` | the shared audience predicate: the count behind preview and cap, pass 1 and pass 2 of materialization |
| `CampaignLaunch` | one campaign from draft to committed rows, concurrent dispatch requests, a CRM that changes underneath |
| `CampaignRoster` | the abstract promise: a roster that only grows, by whole launches with one text, within the gate, one contact per peer |
| `CampaignLaunchMC`, `CampaignLaunchProofs` | TLC constants; theorems |
| `FiscalPipeline` | receipts, fiscal transactions, requests, the retry sweep, print-api, the agent's handlers, the register, the way back |
| `FiscalLedger` | the abstract promise: one document per receipt nobody doubts, nothing reported without paper |
| `FiscalPipelineMC`, `FiscalPipelineProofs` | TLC constants; theorems |
| `PaymentSettlement`, `PaymentSettlementProofs` | card payments, the settling routes query by query, the orphan sweep, the cashier's browser; theorems |
| `SettlementLedger` | the abstract promise: a payment is free, in one pair of hands, settled on its receipt, or closed |
| `SchedulerLeader`, `SchedulerLeaderProofs` | lock, sessions, heartbeats, shutdowns, what a demoted monolith leaves running; theorems |
| `CircuitBreaker`, `CircuitBreakerProofs` | the breaker of one service in several processes and its mirror; theorems |

The modules meet at narrow seams and are not composed further: `FiscalPipeline`
takes the sweep as one loop because `SchedulerLeader` says when there is one (a
second loop would be one more request that presses the retry button, which is
modelled); `PaymentSettlement` counts requests for a fiscal document, whose fate
is `FiscalPipeline`'s, and runs two sweeps to cover two leaders; the breaker that
the sweep asks is never told of a failure, so its gate is always open there.

### BroadcastDelivery

*State.* A row is `status`, `attempts`, `due` (`next_attempt_at` as the time
left, `Null` for SQL NULL) and `stamped` (`external_message_id IS NOT NULL`).
`queue` counts waiting jobs per row, `limiter` is BullMQ's `rateLimit`, `pause`
the governor key. A worker has its job, the `attempts` it read with its lease
(`seen`), the time `left` of that lease, and the sorted `outcome`. `copies`,
`lost`, `keyed` and `unreachable` are history that the code does not have.

*Actions.* `ListActive`, `ClaimDispatchable`, `Enqueue` are `dispatchOnce` (its
three awaits); `YieldToPause` and `PickUp` the head of `processBroadcast`;
`LeaseRow`, `SkipRow`, `FailBeforeSend` the guarded UPDATE and what precedes the
send; `SendAnswered`, `SendThrows` the send; `RecordSent`, `RecordBlocked`,
`RecordFailed` the branches after it, with all their writes; `PauseToken`,
`RescheduleRow`, `YieldJob` the three awaits after a 429; `WorkerCrashes`; `SetCampaignStatus`, `Unsubscribe`,
`SupportLimited` the world; `Tick` time.

*Simplifications.* One dispatcher: overlapping ticks or further processes only
add duplicate jobs, which one dispatcher produces already since its claim writes
nothing. Times are ticks and only their order counts. A success may lack a
message id (VK's text fallback reads none): `RecordSent` then marks the row sent
and stamps nothing. An instance knows rows of its own channel only. The opt-in withdrawal on
VK's 901, 902, 936 is left out: nothing on the delivery path reads it.

### CampaignLaunch

*State.* `campaign` is the `marketing_campaigns` row; `rows` the committed
recipients by contact; `crm` the chats, closed dialogs, suppressions and
`channel_users` rows; `req` the dispatch requests, with the rows of their open
transaction in `fresh`; `asked` a status change between its SELECT and its
UPDATE.

*Actions.* `Begin`, `StorePayload`, `CheckCap`, `Launch`, `QueueAudience`,
`ReportExclusions` are the awaits of `POST /:id/dispatch` in order; `Die` is an
error or a crash at any of them (the open transaction rolls back). Isolation is
READ COMMITTED: each pass sees the CRM and the committed rows of its own moment.
`Waits` is PostgreSQL's unique index: an insert of a key that another open
transaction inserts waits for it to end. `PeerClash` is `uq_recipient_vk_peer`,
which pass 1 does not absorb and pass 2 (`Absorbed`) does. `EditDraft`,
`GoLive`, `AskStatus`, `WriteStatus` are the operator, and `Relabel` the CRM's
form, which writes the campaign's channel (`column`) in any status and leaves the
filter's (`channel`), so that `Begin` refuses; `CrmChanges` the inbox,
the unsubscribe buttons, `message_allow` and `message_deny`.

*Abstraction.* `ImplementsRoster` maps the committed rows to `CampaignRoster`,
where a launch is one step: everything up to the commit of a launch is a stutter,
the commit is one `Add`, and a row, once there, keeps its text and its peer.

*Simplifications.* Service and recency become the set of contacts they admit. A
contact has one chat, on whatever channel the campaign has. URLs, personal
links, idempotency keys and the audit log carry no decision and are left out.
Delivery is not composed in: it changes `status` of queued rows, never which
contacts or peers have rows, and no launch property reads a delivery status.

### FiscalPipeline

*State.* `fiscal`, `kind`, `voided` are the receipt; `tx` the fiscal rows of
`pos_transactions`; `plan` what a request has read and will write; `notices`,
`wire`, `answers` what is under way between the processes; `run`, `processed`,
`paper` the agent's handlers, its SQLite marks and what the register did.
`docs`, `ran`, `excused`, `faults` are history.

*Actions.* `Create`, `Void`, `Retry`, `AskCorrection`, `Sweep` read and decide;
`Claim` (the conditional UPDATE with its INSERT), `Skip`, `InsertCorrection`,
`MarkQueued`, `BridgeFiscal` write; `Die` is a death in between. `Publish` and
`LoseNotice` are print-api's listener; `Start`, `Register`, `Answer`,
`MarkProcessed`, `AgentCrash` one handler of pos-agent; `Settle` stores an
answer, with the trigger (`Synced`) that copies a change of status.

*Excuses.* The code itself has ways to a second document: the register printed
and the answer was lost or unreadable, a command was run twice, a shift closed
over a claimed receipt, a correction, `POST /bridge/fiscal`. Each of these steps
adds the receipt to `excused`, and nothing else does; the properties say that
there is no further way.

*Simplifications.* Ages pass at any moment, so every queued receipt may be stale.
A document is a count; items, sums, shifts and studios carry no decision. The
status a register command ends with is good or bad, since `timeout` and
`cancelled` have no writer on this path.

### PaymentSettlement

*State.* `status`, `resolution`, `settled` and the two marks of the payment's
row; `posted` and `made`, its receipts by origin; the terminal, the browser, the
settling requests with the resolution they replaced (`before`), the sweeps.
`failed` is split into `refused` and `unclear` as the classifier reads its text;
`classified` are payments whose failure was read as a doubt that is not written
yet (the UPDATE does not look at the status again).

*Actions.* `Claim`, `LookForReceipt`, `CreateReceipt`, `Refuse`, `Revert`,
`Link`, `Fiscalize` are the awaits of both settling routes, which differ only in
what they claim and restore; `Die` may fall between any two. `CreateReceipt` may
report an error although it has committed. `ImplementsSettlement` maps a payment
to `SettlementLedger`: free, held while a living settler works on it, settled, or
closed, by a verdict or by a settler that died with its claim. `Waive` closes without a receipt.
`Pay`, `Decide`, `Result`, `Classify`, `MarkInDoubt`, `Approved`, `PostReceipt`,
`PostFails`, `Reverse`, `Leave` are the terminal and the cashier; `List`,
`TellStaff`, `TellClient` the sweep, which may list any orphan. The real query
returns the 100 newest, those already told among them: `OnOnePage` says that all
orphans fit, and only then does the fairness promise that each is listed.

### SchedulerLeader

*State.* `holder` is whose session has the lock (`Stray`: a session that outlived
its process, or whose client an attempt lost), `silent` that it was idle for more
than 120 s; `leads`, `retry`, `booting`, `tries` are `isLeader`, the retry timer,
the awaited first attempt and the calls of `tryAcquire` under way, of which the
timer may start a second while the first is slow. `runs` and `dispatches` are the
started schedulers and the broadcast dispatchers' timers. `orphaned` (who leads
without the lock and was not told) and `demoted` (who dispatches after losing the
leadership) are history.

*Actions.* `Boot`, `Tick`, `Acquire`, `Refused`, `AttemptFails` are
`tryAcquire`; `Heartbeat`, `SessionIsGone`, `HeartbeatFails` the heartbeat and
the error event. `BeginStop`, `HandOver`, `Exit` are a shutdown: `server.ts`
stops its schedulers, unlocks, and dispatches until it exits; `scheduler.ts`
unlocks first. An attempt that is under way then may still win. `LoseLeadership`
stops the schedulers (`StopsSchedulers`), and of `Monoliths` not the dispatchers,
which `onLoseLeadershipMonolith` (318-374) does not name. `Die`, `SessionBreaks`,
`FallSilent`, `Ripen` are the world. The other queue workers of a monolith,
which also survive a demotion (the outbound worker with its 30 s retry scanner
among them), are not modelled: BullMQ queues have many consumers by design.

### CircuitBreaker

*State.* `copy` is the breaker of a process, with the cooldown as one Boolean;
`busy` the calls under way; `redis` at most one mirror; `hydration` and `answer`
the single read of a new process. *Actions.* `Admit` and `Probe` are `allow()`,
`Gate` the callers that look at `getState()` first, `Success`, `Failure` and
`RateLimited` `withServiceCall`, `Ask` the retry sweep, `Fetch` and `Hydrate` the
read, `Restart`, `Cool` and `Expire` the world. A write to Redis arrives or is
lost; failures above the threshold are not told apart. `Threshold` is 5 in the
code, for every service: `getBreaker` (174-181) passes the constructor a name
only, and the `threshold` and `cooldownMs` of `SERVICE_BREAKERS` (3 for several
services, cooldowns from 15 s to 300 s) are never read.

## 3. Runs

| Run | Question | Bounds | Result |
|---|---|---|---|
| `telegram` | leases, forward-only statuses, the inductive invariant (snapshots, accounts of copies), refinement of `RecipientOutbox` | 1 row, 2 workers, 3 attempts, 2 waiting jobs, 2 faults, a 429, all operator moves, an unsubscribe, flaky Redis | holds |
| `vk` | VK's keyed copies, text fallback and codes: no copy unexplained, refinement of `RecipientOutbox` with `Merging`; suppression only for unreachable recipients | 1 row, 2 workers, 2 attempts | holds |
| `live` | every queued row of an active campaign is settled or counted | MAX, 2 rows in a batch, 1 worker, 1 attempt, a crash, two 429s, fairness | holds |
| `launch` | gate, peers, funnel, refinement of `CampaignRoster` | 2 contacts, 2 peers, 2 requests, 2 audiences, 5 CRM states, 1 CRM change, one label of the CRM (about 3.4 million states) | holds |
| `exhausted` | "never retried" (`campaign.service.ts:1058`) | 1 worker | violated |
| `reindex` | "never trips the backstop" (`:622-623`) | test launch, go-live, pause, launch | violated |
| `fiscal` | one document, success and paper, printed receipts on record, claims, retries, refinement of `FiscalLedger` | 1 receipt, 1 request and the sweep, 2 handlers, 2 transactions, 1 fault, 2 attempts, fairness (about 1.04 million states) | holds |
| `void` | "Fiscal enqueue for void" (`pos.routes.ts:1253`) | the same | violated |
| `settlement` | one receipt, one fiscal request, verdicts, nothing forgotten, news, reports, refinement of `SettlementLedger` | 1 payment (which fits on the page), 3 requests, 2 sweeps, 3 deaths, fairness | holds |
| `forgotten` | the sweep finds what has no receipt (`pos-orphan-payment-sweep.service.ts:4-6`) | the same | violated |
| `leader` | schedulers run once, leadership passes on, an orphan steps down | 2 monoliths, 1 process of `scheduler.ts`, 2 overlapping attempts each, 4 faults, fairness (about 156,000 states) | holds |
| `breaker` | the count decides the state, an open breaker is tried again | 2 processes, 2 calls, threshold 2, fairness | holds |

Why the bounds are enough. The engine's rows interact only through the batch,
the shared pause and the workers: one row with two workers shows every race on
a row, two rows in one batch show the rest. Two workers suffice for a lease
race since a third meets the same guarded UPDATE. `AttemptCap` goes one past
`MaxAttempts`, so an exhausted row is leased again in `telegram`. `LossCap`,
`FaultCap`, `LimitCap` bound only what the environment does; `JobCap = 2` lets a
duplicate job exist beside the running one. In `launch`, two contacts are the
least on which peers collide, two requests the least that overlap, and the one
CRM change may fall between any two steps; pause and relaunch come for free
because no counter bounds them; one label agrees with one of the two audiences
and differs from the other. In `live` the one worker meets its second 429 after
the pause of the first, and the batch holds every row. Symmetry is over workers and rows, respectively
requests and payloads; no liveness run uses it.

In `fiscal`, receipts never meet (every query is by receipt), so one suffices;
two transactions are the least on which a retry meets an old answer, and two
handlers the least that run one command twice; one request and the sweep are two
actors that claim. The fault may be any death, loss, repetition or bypass. The
proofs cover every other size. In `settlement` three requests let two collide
while a third comes after them, and three deaths strand each; in `leader` three
processes and four faults let each lose its session once and a third take over,
two of them are monoliths so that one can dispatch beside the other, and two
attempts are the least that overlap; in `breaker` two calls overlap in a process, one of which peeks, and a threshold
of two tells the count from the state.

`CHECK_DEADLOCK` is off where the system may stop: a settled campaign, a printed
receipt, a closed payment, processes that are all down or have all lost the lock
once. Only `breaker` is checked for deadlock.

### What the violated runs say

- `exhausted`: `markFailed` leaves an exhausted row `failed` with
  `next_attempt_at` NULL, exactly what the dispatcher selects and the lease
  accepts; `attempts` is compared with `max_attempts` nowhere before a send. A
  campaign therefore never stops retrying a permanently failed row.
- `reindex`: once a VK campaign has been tested on one of two contacts of a
  peer, its live launch aborts on the peer index, after the campaign was set
  active; the next dispatch gets 409 until somebody pauses it.
- `void`: a void enqueues the return on the sale's own receipt. If that receipt is
  queued or fiscalized, the claim refuses it, so exactly the sales that have a
  document never get one that returns it.
- `forgotten`: a request that dies between its claim and the receipt leaves a
  payment that is resolved as paid, has no receipt and is in no list; both routes
  answer 409 from then on.

Also seen, without a run (most with their line under `hazards`): jobs of a paused
campaign that wait in the queue are sent all the same; with `SendsFit = FALSE` a
send longer than its lease can write `failed` over `sent`; a 403 of the image
host suppresses a reachable Telegram client; VK's text fallback counts an error
body as sent, and its copies are not merged; a go-live between the guard query
and the launch skips the ceiling; `channel_users.opted_in` is true for anybody
who wrote once; the dispatcher's claim does not lease, although
`broadcast-worker.ts:117-119` says so; rows that failed for good sort first and
can fill every batch; a VK peer that denied once stays excluded even after
`message_allow`. At the cash desk: a queued receipt whose notification was lost
is never tried again, with or without `fiscalSweepIncludeStuck`; the sweep asks
for a sale also on the receipt of a refund; the cashier's `POST /receipts` and a
settling request can each make a receipt; a receipt that a dead attempt left is
linked without a fiscal request; a payment that was reversed at the terminal is
still reported to its client as received; the sweep's list is the newest 100
orphans, told or not, so that older ones wait until those are settled; in the
split deployment nobody starts either sweep.

A process that lost the scheduler lock once never stands again. "Only one
instance (leader) runs schedulers" (`scheduler-leader.ts:4`) does not hold of a
monolith's broadcast dispatchers (`server.ts:254-255`), which neither a loss
(318-374) nor the shutdown (387-421) stops: a demoted monolith goes on
dispatching beside the new leader until it exits. The lease keeps that to
duplicate jobs. `HALF_OPEN` admits every caller, where its comment says one; no
breaker has the threshold or cooldown that `SERVICE_BREAKERS` gives it.

The preview promises "the exact number materializeRecipients will fan out to"
(`campaign.service.ts:419-421`, also 343, 604-607 and
`routes/broadcast-campaigns.routes.ts:418-420`, 529-530). It counts contacts; on VK
pass 1 queues one row per peer, so two contacts that share a peer are shown as
two and queued as one. A campaign whose channel is changed in the CRM
(`services/campaign.service.ts:186-213`, any status) after its launch is taken up
by the other channel's dispatcher, and Telegram's and MAX's senders lease its
rows without a look at their channel; the guard of `Begin`, "so we never push a
segment through the wrong adapter" (508-514), is asked only at dispatch.

## 4. Fairness

`live`: `WF` of the dispatcher's steps is `setInterval`; `WF` of a worker's steps
is the event loop and the HTTP timeouts, which end every send; `WF` of `Tick` is
the clock; `SF` of `PickUp` is BullMQ, whose queue serves a waiting job although
pauses disable it again and again.

`fiscal`: `SF` of `Sweep(r)` and `WF` of its claim. The sweep is an interval
timer on the leader that lists the candidates and works the list off; `SF`
because other actors claim and fail the receipt meanwhile. `settlement`: the
same for the orphan sweep, as long as the orphans fit on one page of its list
(`OnOnePage`). Both presume a leader that runs the sweeps: a monolith, whose
election `leader` is about. And `WF` of a settling request's next query, which
ends in a result or in an error (`Die` is allowed at any time, as often as
`DeathCap` says). `leader`: `WF` of the timers (`Tick`, `Ripen` as the clock of
the two minutes), of the queries of an attempt, of a heartbeat on a session that
is gone (it is sent every minute and must fail), and of `Exit` (the shutdown has
a deadline); nothing promises that a process is started again. `breaker`: `WF` of
an answer (every call has a timeout), of the cooldown's end, and of a caller that
asks `allow()`.

Nothing is assumed of operators, recipients, cashiers, crashes, the terminal, the
register, or the verdicts of a messenger. Faults are finite in number, which is
the assumption under which anything is ever settled.

## 5. Proofs

All proofs are for arbitrary sets of recipients, workers, contacts, peers,
requests, receipts, payments and processes, arbitrary leases, pauses, thresholds,
audiences and CRM states, and any number of faults.

**Delivery** (`BroadcastDeliveryProofs`), assuming `DeliveryAssumption` and the
assumptions of `ProviderAnswers`. `TypeCorrect` needs nothing more. `Invariance`
shows the inductive `IInv` for every channel under `SendsFit` (without it TLC has
a counterexample). The code bounds no send, so `TimelyInvariance` drops that
assumption and says instead: in every behaviour in which no worker is in flight
past its lease (`SendsAreTimely`), `IInv` holds all the same. Read the other way
round, two holders of a row, or a copy too many, mean that a send outlived its
lease, and nothing else can cause them. `OneHolder` alone is not inductive: it needs that a lease in
flight keeps its row undispatchable until the worker is done, that a worker in
flight knows the row's attempts, that only a sent row is stamped, and that
`copies` and `lost` differ exactly by what is in flight, or, on VK, at most by
that. From it follow `LeaseExcludes`, `SnapshotStaysCurrent`,
`NoUnexplainedCopy`, `StatusMovesForward`, and the refinement
`EngineImplementsOutbox`, one step per action, mapping `failed` and `queued` to
`open`; `TimelyEngineImplementsOutbox` is the same without `SendsFit`. On VK the
outbox is the one with `Merging`, whose counts are bounds: a copy may be dropped
as a repetition, and an answer to the text fallback counts as a copy although
nothing may have arrived. `BouncesHaveACause` has an invariant of its own,
`BouncesAreHonest` (an answer about to be recorded as a bounce came from an API
that declared the recipient unreachable), and needs no bound on sends, only
`Channel # "telegram"`: there a 403 of the image host breaks it.

**Launch** (`CampaignLaunchProofs`), assuming `LaunchAssumption` and
`AudienceAssumption`. The gate and the one-row-per-peer property say nothing of
open transactions, and a commit would break them; `IInv` adds that what an open
transaction is about to commit passes the gate (`EnteringIsGated`) and has a
peer of its own among committed and entering rows (`PeersStayApart`, where
`Waits` is needed), and that a request past its launch keeps the campaign out of
draft (`RequestsAreSane`). `NobodyDropped` uses a second invariant,
`CalmIsFresh`: while the CRM and the gate stand still, an open transaction's
rows are what pass 1 would insert now; its VK case picks the least contact of a
peer, by well-foundedness of `<` on naturals. `LaunchImplementsRoster` is
the refinement of `CampaignRoster`; the step that carries it is the commit, where
`EnteringIsGated` and `PeersStayApart` give the guards of `Add`, and
`FreshRowsAgree` (`FreshTexts`) the single text: what pass 1 inserted carries the
text that pass 2 will use, since a request reads its payload once, whatever other
requests store meanwhile. `LaunchesSpeakWithOneVoice` says it of the rows.
`RowsStay` is the action property that no row is ever rewritten, of which the
refinement keeps the text and the peer.

**Fiscalization** (`FiscalPipelineProofs`), assuming `FiscalAssumption`.
`OneDocument` is not inductive: a second document needs a second live
transaction, or a handler on a transaction that has printed. `IInv` says, for a
receipt without an excuse, that one transaction is live and the receipt shows it
(`OneLive`), that one handler works on a command and prints before anybody has
answered (`OneHandler`), that good and bad news are both true (`NewsIsTrue`), and
that a printed document is some transaction's (`DocumentsAreTraced`).
`StagesInOrder` orders row, command, handler and paper. The case that carries the
proof is `Claim`: a receipt that is neither queued nor success has no live
transaction, hence a new one is alone. `OneDocumentEach`, `SuccessMeansPaper` and
`ClaimsAreBacked` follow, and so does `PrintedStaysOnRecord`: the transaction a
document is traced to is live, and a live transaction shows on its receipt, so
that neither the sweep nor the retry button finds it. `PipelineImplementsLedger` maps `reported` to the
receipts with status success and `doubt` to `excused`, one step per action, and
needs the invariant to show that `Register` prints an undoubted receipt for the
first time and that `Settle` only takes back what is in doubt.

**Settlement** (`PaymentSettlementProofs`), assuming `SettlementAssumption`. `IInv`
adds to the four properties who owns a payment between claim and link
(`OneSettler`: what a settler knows of receipts stays true because only the owner
makes them), that a fiscal request follows the link (`FiscalFollowsLink`), and
who left a payment claimed (`ClaimsAreExplained`). `VerdictsStand` and
`NewsStaysCurrent` are action properties from the same invariant.
`RoutesImplementLedger` is the refinement of `SettlementLedger`, one step per
query: claims of both routes map to `Hold`, a revert to `LetGo`, the death of the
holder and a verdict to `Close`, and the invariant's `OneSettler` shows that the
hands are one pair, that they make one receipt, and that they settle on it.

**Leader** (`SchedulerLeaderProofs`): the lock is with a leader, a stray session
or nobody; a leader has it exactly if it is not orphaned; schedulers run only
under a leader or after the unlock of a shutdown, dispatchers besides in a
demoted monolith. `RunOnce` follows, since two intact leaders would hold one lock,
and `HealthyExclusion` is the case without orphans, demoted or leaving processes.
`OrphansCannotLead` is the middle part: no orphan comes by the lock again but by
an attempt of its own, overlapping or not, that finds it free.

**Breaker** (`CircuitBreakerProofs`): the relation of
state and count must also hold of the mirror and of an answer on its way, which a
late hydration puts in the place of the copy. `OneFailureReopens`: a failure
answered while the breaker is open or half open leaves it open with a new
cooldown, which needs that relation, since only the count decides.

**Only model-checked.** Liveness, since fairness and ENABLED are outside the
prover: `QueuedIsSettled`, `FailedIsRetried`, `OrphanIsReported`,
`LeadershipPassesOn`, `OrphanStepsDown`, `OpenIsProbed`. The violated properties,
by nature. Every other property of a run is a theorem.

## 6. Not modelled

- The connector pipeline, CRM events, voice OTP, gifts, the post-payment queue:
  queues of the same shape as the delivery engine (claim by UPDATE, BullMQ
  retries, one effect per job), without state in common with what is modelled.
- Of the cash desk: shifts and drawers, copies of a receipt, marking codes, the
  rows of a refund, mixed payments. The BullMQ fiscal worker is left out because
  nothing adds to its queue any more.
- The print agent and the gateway: an offline buffer and an atomic counter.
- The web client (but for the cashier's posting and reversing), CRUD routes,
  prices, rendering and reports: request and response over single rows, or pure
  functions of data, and by far the largest part of the repository's lines.

Where to go next: the shift commands of the register, whose state decides
between a claim and a skip; the post-payment jobs under retries; a funnel in
`CampaignRoster`, whose `Add` takes the whole audience while the CRM stands
still.
