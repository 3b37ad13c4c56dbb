-------------------------- MODULE BroadcastDelivery --------------------------
(***************************************************************************)
(* The delivery engine of one broadcast campaign: the rows of              *)
(* campaign_recipients in PostgreSQL, the dispatcher that every 30 s claims *)
(* the rows that are due and adds one BullMQ job per row, the workers that *)
(* lease a row, call the messenger and record the outcome, and the         *)
(* governor key in Redis that pauses the shared token after a 429.         *)
(*                                                                         *)
(* next_attempt_at is kept as the time left until it (0: reached), so Tick *)
(* moves every clock of the model.  A worker awaits the database and the   *)
(* messenger between its steps, so every interleaving of workers,          *)
(* dispatcher, operator, recipient and crashes is a behaviour.             *)
(***************************************************************************)
EXTENDS ProviderAnswers, FiniteSets

CONSTANTS
    Recipients,     \* the rows of the campaign, one per contact
    Workers,        \* job processors: concurrency 5 per process
    NoRow,          \* an idle worker's job
    MaxAttempts,    \* campaign_recipients.max_attempts
    Lease,          \* CLAIM_LEASE_MS
    Backoff,        \* markFailed's delay by number of attempts
    DispatchBatch,  \* DISPATCH_BATCH
    SendsFit,       \* every send is answered and recorded within its lease
    RedisFlaky,     \* the governor's Redis may fail, reads then fail open
    Moves,          \* the statuses an operator sets in this instance
    Leavers,        \* the recipients who press "unsubscribe" in this instance
    AttemptCap,     \* bound: counted failures of a row beyond it are not told apart
    LimitCap,       \* bound: 429 answers in a behaviour
    LossCap,        \* bound: unrecorded deliveries of one row
    FaultCap,       \* bound: crashed workers and thrown sends
    JobCap          \* bound: jobs of one row waiting when it is claimed

ASSUME DeliveryAssumption ==
    /\ IsFiniteSet(Recipients) /\ NoRow \notin Recipients
    /\ MaxAttempts \in Nat \ {0}
    /\ Lease \in Nat \ {0}
    /\ Backoff \in [1..(MaxAttempts - 1) -> Nat]
    /\ DispatchBatch \in Nat \ {0}
    /\ AttemptCap \in Nat /\ AttemptCap >= MaxAttempts
    /\ SendsFit \in BOOLEAN
    /\ RedisFlaky \in BOOLEAN
    /\ Moves \subseteq {"active", "paused", "completed", "cancelled"}
    /\ Leavers \subseteq Recipients

Null == -1      \* SQL NULL in next_attempt_at

VARIABLES
    \* campaign_recipients, marketing_campaigns, marketing_suppressions
    status,         \* queued, sent, failed, blocked; "excluded": skipped or suppressed
    attempts,       \* failures counted against max_attempts
    due,            \* time left until next_attempt_at, or Null
    stamped,        \* external_message_id IS NOT NULL
    campaign,       \* marketing_campaigns.status
    suppression,    \* reason of the contact's suppression row, "none": no row
    \* BullMQ and Redis
    queue,          \* waiting jobs by recipient
    limiter,        \* time left of worker.rateLimit on the queue
    pause,          \* time left of the token's paused_until key
    \* the processes' local state
    dispatcher,     \* "idle", "listed", "enqueueing"
    claimed,        \* rows the dispatcher claimed and has still to enqueue
    pc,             \* "idle", "checked", "sending", "answered"; "paused", "yielding"
    job,            \* the recipient of a worker's job
    seen,           \* row.attempts as the lease returned it
    left,           \* time left of the worker's own lease
    outcome,        \* the sorted answer
    \* history and budgets, not in the code
    copies,         \* messages the recipient received
    keyed,          \* recipients that received the copy with the fixed random_id
    lost,           \* accepted sends the row never heard of
    unreachable,    \* recipients the messenger's API declared unreachable
    limits, faults

row   == <<status, attempts, due, stamped>>
jobs  == <<queue, limiter>>
disp  == <<dispatcher, claimed>>
work  == <<pc, job, seen, left, outcome>>
world == <<copies, keyed, lost, unreachable>>
vars  == <<row, campaign, suppression, jobs, pause, disp, work, world, limits, faults>>

Open(r) == status[r] \in {"queued", "failed"}

NeverScheduled(r) == due[r] = Null                  \* mutant
Reached(r) == due[r] \in {Null, 0}

UnlessSettled(r) == Open(r)                         \* mutant
UnlessScheduled(r) == Reached(r)                    \* mutant
\* WHERE status IN ('queued','failed') AND (next_attempt_at IS NULL OR ... <= now())
Dispatchable(r) == Open(r) /\ Reached(r)

\* Between the lease and the write that gives the row back
InFlight(w) == pc[w] \in {"sending", "answered", "paused"}
Holds(w, r) == InFlight(w) /\ job[w] = r
NoOutcome  == Outcome("retry", 0)

Init ==
    /\ status \in [Recipients -> {"queued", "excluded"}]
    /\ attempts = [r \in Recipients |-> 0]
    /\ due = [r \in Recipients |-> Null]
    /\ stamped = [r \in Recipients |-> FALSE]
    /\ campaign = "active"
    /\ suppression = [r \in Recipients |-> "none"]
    /\ queue = [r \in Recipients |-> 0]
    /\ limiter = 0 /\ pause = 0
    /\ dispatcher = "idle" /\ claimed = {}
    /\ pc = [w \in Workers |-> "idle"]
    /\ job = [w \in Workers |-> NoRow]
    /\ seen = [w \in Workers |-> 0]
    /\ left = [w \in Workers |-> 0]
    /\ outcome = [w \in Workers |-> NoOutcome]
    /\ copies = [r \in Recipients |-> 0]
    /\ keyed = {}
    /\ lost = [r \in Recipients |-> 0]
    /\ unreachable = {}
    /\ limits = 0 /\ faults = 0

-----------------------------------------------------------------------------
(* The dispatcher. *)

\* SELECT ... WHERE status = 'active'
ListActive ==
    /\ dispatcher = "idle"
    /\ campaign = "active"
    /\ dispatcher' = "listed"
    /\ UNCHANGED <<row, campaign, suppression, jobs, pause, claimed, work, world, limits, faults>>

Claimable == {r \in Recipients : Dispatchable(r)}

\* ORDER BY next_attempt_at NULLS FIRST LIMIT batch; the select changes no row.
Batches ==
    {S \in SUBSET {r \in Claimable : queue[r] < JobCap} :
        /\ Cardinality(S) <= DispatchBatch
        /\ \A r \in {x \in Claimable : queue[x] < JobCap} \ S :
              /\ Cardinality(S) = DispatchBatch
              /\ due[r] = Null => \A s \in S : due[s] = Null}

ClaimDispatchable ==
    /\ dispatcher = "listed"
    /\ claimed' \in Batches
    /\ dispatcher' = IF claimed' = {} THEN "idle" ELSE "enqueueing"
    /\ UNCHANGED <<row, campaign, suppression, jobs, pause, work, world, limits, faults>>

\* broadcastQueue.add('send', { recipientId }): no job id, no look at the queue
Enqueue(r) ==
    /\ dispatcher = "enqueueing"
    /\ r \in claimed
    /\ queue' = [queue EXCEPT ![r] = @ + 1]
    /\ claimed' = claimed \ {r}
    /\ dispatcher' = IF claimed' = {} THEN "idle" ELSE "enqueueing"
    /\ UNCHANGED <<row, campaign, suppression, limiter, pause, work, world, limits, faults>>

-----------------------------------------------------------------------------
(* The workers. *)

\* The gate of processBroadcast finds the token paused: the job goes back and
\* the queue rests for as long as the pause lasts.
YieldToPause(r) ==
    /\ queue[r] > 0 /\ limiter = 0
    /\ \E w \in Workers : pc[w] = "idle"
    /\ pause > 0
    /\ limiter' = pause
    /\ UNCHANGED <<row, campaign, suppression, queue, pause, disp, work, world, limits, faults>>

\* The gate lets the job through (also when Redis cannot be read).
PickUp(w, r) ==
    /\ pc[w] = "idle" /\ queue[r] > 0 /\ limiter = 0
    /\ pause = 0 \/ RedisFlaky
    /\ queue' = [queue EXCEPT ![r] = @ - 1]
    /\ job' = [job EXCEPT ![w] = r]
    /\ pc' = [pc EXCEPT ![w] = "checked"]
    /\ UNCHANGED <<row, campaign, suppression, limiter, pause, disp, seen, left, outcome,
                   world, limits, faults>>

\* UPDATE ... SET next_attempt_at = now() + lease WHERE dispatchable RETURNING
LeaseRow(w) ==
    /\ pc[w] = "checked"
    /\ Dispatchable(job[w])
    /\ due' = [due EXCEPT ![job[w]] = Lease]
    /\ seen' = [seen EXCEPT ![w] = attempts[job[w]]]
    /\ left' = [left EXCEPT ![w] = Lease]
    /\ pc' = [pc EXCEPT ![w] = "sending"]
    /\ UNCHANGED <<status, attempts, stamped, campaign, suppression, jobs, pause, disp, job,
                   outcome, world, limits, faults>>

\* The worker is done with its job.
Release(w) ==
    /\ pc' = [pc EXCEPT ![w] = "idle"]
    /\ job' = [job EXCEPT ![w] = NoRow]
    /\ seen' = [seen EXCEPT ![w] = 0]
    /\ left' = [left EXCEPT ![w] = 0]
    /\ outcome' = [outcome EXCEPT ![w] = NoOutcome]

\* The lease matched no row: the job ends without a send.
SkipRow(w) ==
    /\ pc[w] = "checked"
    /\ ~Dispatchable(job[w])
    /\ Release(w)
    /\ UNCHANGED <<row, campaign, suppression, jobs, pause, disp, world, limits, faults>>

Counted(n) == IF n > AttemptCap THEN AttemptCap ELSE n

\* markFailed(recipientId, row, ..., permanent): counts from the leased snapshot
MarkFailed(w, permanent) ==
    LET r == job[w]
        n == Counted(seen[w] + 1)
    IN  /\ status' = [status EXCEPT ![r] = "failed"]
        /\ attempts' = [attempts EXCEPT ![r] = n]
        /\ due' = [due EXCEPT ![r] = IF permanent \/ n >= MaxAttempts THEN Null ELSE Backoff[n]]
        /\ UNCHANGED stamped

\* No picture in the payload (permanent) or no active account (not).
FailBeforeSend(w, permanent) ==
    /\ pc[w] = "sending"
    /\ MarkFailed(w, permanent)
    /\ Release(w)
    /\ UNCHANGED <<campaign, suppression, jobs, pause, disp, world, limits, faults>>

\* A copy reaches the recipient. VK drops a second message with the same
\* random_id; its text fallback draws a random one.
Deliver(r, fallback) ==
    /\ copies' = IF Channel = "vk" /\ ~fallback /\ r \in keyed
                 THEN copies ELSE [copies EXCEPT ![r] = @ + 1]
    /\ keyed' = IF Channel = "vk" /\ ~fallback THEN keyed \cup {r} ELSE keyed

Deliveries(r, accepted, ways) ==
    IF accepted THEN \E fallback \in ways : Deliver(r, fallback)
                ELSE UNCHANGED <<copies, keyed>>

\* With an unknown outcome the message went out either way.
AnyWay == IF Channel = "vk" THEN BOOLEAN ELSE {FALSE}

\* The row will not hear of an accepted copy.
Forget(r, accepted) ==
    /\ accepted => lost[r] < LossCap
    /\ lost' = IF accepted THEN [lost EXCEPT ![r] = @ + 1] ELSE lost

\* await adapter.sendMedia(...) returns
SendAnswered(w, a) ==
    LET r == job[w] o == OutcomeOf(a) IN
    /\ pc[w] = "sending"
    /\ o.kind = "limited" => limits < LimitCap
    /\ limits' = IF o.kind = "limited" THEN limits + 1 ELSE limits
    /\ \E accepted \in MayBeAccepted(a) :
          /\ Deliveries(r, accepted, {a.origin = "text"})
          /\ Forget(r, accepted /\ o.kind # "sent")
    /\ unreachable' = IF a.unreachable THEN unreachable \cup {r} ELSE unreachable
    /\ outcome' = [outcome EXCEPT ![w] = o]
    /\ pc' = [pc EXCEPT ![w] = "answered"]
    /\ UNCHANGED <<row, campaign, suppression, jobs, pause, disp, job, seen, left, faults>>

\* The send throws (time-out, network, open breaker): the job fails, nothing is
\* written, the lease stays on the row.  Telegram may have the message.
SendThrows(w) ==
    /\ pc[w] = "sending"
    /\ faults < FaultCap /\ faults' = faults + 1
    /\ \E accepted \in BOOLEAN :
          Deliveries(job[w], accepted, AnyWay) /\ Forget(job[w], accepted)
    /\ Release(w)
    /\ UNCHANGED <<row, campaign, suppression, jobs, pause, disp, unreachable, limits>>

\* UPDATE ... SET status = 'sent' ... WHERE external_message_id IS NULL.  A success
\* may come without a message id: VK's text fallback reads none, the adapters pass
\* on that an answer had none.  Such a row is sent, and not stamped.
RecordSent(w) ==
    /\ pc[w] = "answered" /\ outcome[w].kind = "sent"
    /\ IF stamped[job[w]] THEN UNCHANGED <<status, stamped>>
       ELSE /\ status' = [status EXCEPT ![job[w]] = "sent"]
            /\ \E id \in BOOLEAN : stamped' = [stamped EXCEPT ![job[w]] = id]
    /\ Release(w)
    /\ UNCHANGED <<attempts, due, campaign, suppression, jobs, pause, disp, world, limits, faults>>

\* A 429, first: await pauseBot(token, ms)
PauseToken(w) ==
    /\ pc[w] = "answered" /\ outcome[w].kind = "limited"
    /\ pause' = outcome[w].wait \/ (RedisFlaky /\ pause' = pause)
    /\ pc' = [pc EXCEPT ![w] = "paused"]
    /\ UNCHANGED <<row, campaign, suppression, jobs, disp, job, seen, left, outcome, world,
                   limits, faults>>

\* ... second: the row back to 'queued', its attempt not consumed
RescheduleRow(w) ==
    /\ pc[w] = "paused"
    /\ status' = [status EXCEPT ![job[w]] = "queued"]
    /\ due' = [due EXCEPT ![job[w]] = outcome[w].wait]
    /\ pc' = [pc EXCEPT ![w] = "yielding"]
    /\ UNCHANGED <<attempts, stamped, campaign, suppression, jobs, pause, disp, job, seen, left,
                   outcome, world, limits, faults>>

\* ... third: await worker.rateLimit(ms), and the job goes back to the queue
YieldJob(w) ==
    /\ pc[w] = "yielding"
    /\ limiter' = outcome[w].wait
    /\ queue' = [queue EXCEPT ![job[w]] = @ + 1]
    /\ Release(w)
    /\ UNCHANGED <<row, campaign, suppression, pause, disp, world, limits, faults>>

\* One transaction: status 'blocked' and INSERT ... ON CONFLICT DO NOTHING
RecordBlocked(w) ==
    LET r == job[w] IN
    /\ pc[w] = "answered" /\ outcome[w].kind = "blocked"
    /\ status' = [status EXCEPT ![r] = "blocked"]
    /\ suppression' = IF suppression[r] = "none"
                      THEN [suppression EXCEPT ![r] = "hard_bounce"] ELSE suppression
    /\ Release(w)
    /\ UNCHANGED <<attempts, due, stamped, campaign, jobs, pause, disp, world, limits, faults>>

RecordFailed(w) ==
    /\ pc[w] = "answered" /\ outcome[w].kind \in {"terminal", "retry"}
    /\ MarkFailed(w, outcome[w].kind = "terminal")
    /\ Release(w)
    /\ UNCHANGED <<campaign, suppression, jobs, pause, disp, world, limits, faults>>

\* The process dies or a write fails. A stalled job is run once more, a failed
\* one is not; the lease stays on the row.
WorkerCrashes(w) ==
    LET r == job[w] IN
    /\ pc[w] # "idle"
    /\ faults < FaultCap /\ faults' = faults + 1
    /\ \E accepted \in (IF pc[w] = "sending" THEN BOOLEAN ELSE {FALSE}) :
          /\ Deliveries(r, accepted, AnyWay)
          /\ Forget(r, accepted \/ (pc[w] = "answered" /\ outcome[w].kind = "sent"))
    /\ queue' \in {queue, [queue EXCEPT ![r] = @ + 1]}
    /\ Release(w)
    /\ UNCHANGED <<row, campaign, suppression, limiter, pause, disp, unreachable, limits>>

-----------------------------------------------------------------------------
(* The operator, the recipient and the clock. *)

Transitions == [active |-> {"paused", "completed", "cancelled"},
                paused |-> {"active", "completed", "cancelled"}]

\* PATCH /api/campaigns/:id/status
SetCampaignStatus(s) ==
    /\ campaign \in DOMAIN Transitions
    /\ s \in Transitions[campaign]
    /\ campaign' = s
    /\ UNCHANGED <<row, suppression, jobs, pause, disp, work, world, limits, faults>>

\* The unsubscribe button, under this message or an earlier campaign's
Unsubscribe(r) ==
    /\ suppression[r] = "none"
    /\ suppression' = [suppression EXCEPT ![r] = "unsubscribe"]
    /\ UNCHANGED <<row, campaign, jobs, pause, disp, work, world, limits, faults>>

\* A 429 on the transactional line of the same bot pauses the token as well.
SupportLimited(t) ==
    /\ Channel = "telegram"
    /\ limits < LimitCap /\ limits' = limits + 1
    /\ pause' = CappedPause(t) \/ (RedisFlaky /\ pause' = pause)
    /\ UNCHANGED <<row, campaign, suppression, jobs, disp, work, world, faults>>

\* One clock for the database, BullMQ and Redis: every time left gets shorter.
Less(t) == IF t > 0 THEN t - 1 ELSE t

Tick ==
    /\ SendsFit => \A w \in Workers : InFlight(w) => left[w] > 1
    /\ limiter > 0 \/ pause > 0 \/ \E r \in Recipients : due[r] > 0
    /\ due' = [r \in Recipients |-> Less(due[r])]
    /\ left' = [w \in Workers |-> Less(left[w])]
    /\ limiter' = Less(limiter)
    /\ pause' = Less(pause)
    /\ UNCHANGED <<status, attempts, stamped, campaign, suppression, queue, disp, pc, job, seen,
                   outcome, world, limits, faults>>

-----------------------------------------------------------------------------
WorkerStep(w) ==
    \/ \E r \in Recipients : PickUp(w, r)
    \/ LeaseRow(w) \/ SkipRow(w)
    \/ \E permanent \in BOOLEAN : FailBeforeSend(w, permanent)
    \/ \E a \in Answers : SendAnswered(w, a)
    \/ SendThrows(w)
    \/ RecordSent(w) \/ RecordBlocked(w) \/ RecordFailed(w)
    \/ PauseToken(w) \/ RescheduleRow(w) \/ YieldJob(w)
    \/ WorkerCrashes(w)

Next ==
    \/ ListActive
    \/ ClaimDispatchable
    \/ \E r \in Recipients : Enqueue(r) \/ YieldToPause(r)
    \/ \E w \in Workers : WorkerStep(w)
    \/ \E s \in Moves : SetCampaignStatus(s)
    \/ \E r \in Leavers : Unsubscribe(r)
    \/ \E t \in RetryAfters : SupportLimited(t)
    \/ Tick

Spec == Init /\ [][Next]_vars

\* setInterval keeps the dispatcher running, BullMQ hands out every waiting job
\* in turn, a running job goes on unless its process dies, time passes. Nothing
\* makes an operator, a recipient or a fault act.
Fairness ==
    /\ WF_vars(ListActive) /\ WF_vars(ClaimDispatchable) /\ WF_vars(Tick)
    /\ \A r \in Recipients : WF_vars(Enqueue(r))
    /\ \A r \in Recipients : SF_vars(\E w \in Workers : PickUp(w, r))
    /\ \A w \in Workers :
          /\ WF_vars(LeaseRow(w)) /\ WF_vars(SkipRow(w))
          /\ WF_vars(\E a \in Answers : SendAnswered(w, a))
          /\ WF_vars(RecordSent(w) \/ RecordBlocked(w) \/ RecordFailed(w)
                     \/ PauseToken(w) \/ RescheduleRow(w) \/ YieldJob(w))

FairSpec == Spec /\ Fairness

-----------------------------------------------------------------------------
(* Properties. *)

\* Every variable keeps its type: next_attempt_at is never further away than
\* one lease, a worker's clock never further than its lease.
TypeOK ==
    /\ status \in [Recipients -> {"queued", "sent", "failed", "blocked", "excluded"}]
    /\ attempts \in [Recipients -> Nat]
    /\ due \in [Recipients -> Nat \cup {Null}]
    /\ stamped \in [Recipients -> BOOLEAN]
    /\ campaign \in {"active", "paused", "completed", "cancelled"}
    /\ suppression \in [Recipients -> {"none", "unsubscribe", "hard_bounce"}]
    /\ queue \in [Recipients -> Nat]
    /\ limiter \in Nat /\ pause \in Nat
    /\ dispatcher \in {"idle", "listed", "enqueueing"}
    /\ claimed \subseteq Recipients
    /\ pc \in [Workers -> {"idle", "checked", "sending", "answered", "paused", "yielding"}]
    /\ job \in [Workers -> Recipients \cup {NoRow}]
    /\ \A w \in Workers : job[w] = NoRow <=> pc[w] = "idle"
    /\ seen \in [Workers -> Nat]
    /\ left \in [Workers -> 0..Lease]
    /\ outcome \in [Workers -> [kind : Kinds, wait : Nat]]
    /\ copies \in [Recipients -> Nat]
    /\ keyed \subseteq Recipients
    /\ lost \in [Recipients -> Nat]
    /\ unreachable \subseteq Recipients
    /\ limits \in Nat /\ faults \in Nat

\* The lease is a lock: no two workers are between lease and record on the
\* same row (double-send protection of sendToRecipient).
OneHolder ==
    \A v, w \in Workers : \A r \in Recipients : Holds(v, r) /\ Holds(w, r) => v = w

\* A recipient gets a second copy only if the record of an earlier one was
\* lost (the "residual at-least-once" the code accepts), and one copy more
\* than was lost as soon as the row says "sent".
CopiesAreExplained ==
    \A r \in Recipients :
        /\ copies[r] <= lost[r] + 1
        /\ Channel # "vk" /\ status[r] = "sent" => copies[r] = lost[r] + 1

\* While a row is being sent, the row itself does not change under the
\* worker: it is dispatchable, still unstamped, and the snapshot of attempts
\* that markFailed will write back is current.
SnapshotIsCurrent ==
    \A w \in Workers : InFlight(w) =>
        /\ Open(job[w])
        /\ ~stamped[job[w]]
        /\ seen[w] = attempts[job[w]]

\* The status machine is forward-only: a sent, blocked or excluded row never
\* changes status again, no step takes back a counted attempt or a stamp.
ForwardOnly ==
    [][\A r \in Recipients :
         /\ ~Open(r) => status'[r] = status[r]
         /\ attempts'[r] \in {attempts[r], attempts[r] + 1}
         /\ stamped[r] => stamped'[r]]_vars

\* A hard bounce is recorded only against a recipient whom the messenger's
\* API itself declared unreachable: the suppression list is for ever.
SuppressedForCause ==
    \A r \in Recipients : suppression[r] = "hard_bounce" => r \in unreachable

\* The promise of RecipientOutbox, row by row.  VK merges by random_id.
StateOf(r) == IF Open(r) THEN "open" ELSE status[r]

Outbox == INSTANCE RecipientOutbox WITH
    Merging <- Channel = "vk",
    state <- [r \in Recipients |-> StateOf(r)], copies <- copies, lost <- lost

ImplementsOutbox == Outbox!Spec

\* As long as the campaign stays active every queued row is settled, or at
\* least failed and counted: no crash, pause or lost job strands it.
QueuedIsSettled ==
    \A r \in Recipients :
        status[r] = "queued" ~> (status[r] # "queued" \/ campaign # "active")

-----------------------------------------------------------------------------
(* The inductive invariant behind OneHolder, SnapshotIsCurrent, ForwardOnly,   *)
(* CopiesAreExplained and ImplementsOutbox when every send fits its lease.     *)

\* A worker in flight owns its row: the row still carries this worker's lease,
\* so no guard matches it before the worker is done.
LeaseIsOwned ==
    \A w \in Workers : InFlight(w) => left[w] > 0 /\ due[job[w]] = left[w]

\* Only a sent row has a stamp (not every sent row has one), attempts saturate.
StampedIsSent ==
    \A r \in Recipients :
        /\ stamped[r] => status[r] = "sent"
        /\ attempts[r] <= AttemptCap

\* A copy whose record is not lost: recorded, or about to be.
Accepted(r) ==
    \/ status[r] = "sent"
    \/ \E w \in Workers : Holds(w, r) /\ pc[w] = "answered" /\ outcome[w].kind = "sent"

\* Every copy is either lost to the engine or accepted; VK may merge some.
CopiesAddUp ==
    \A r \in Recipients :
        /\ Accepted(r) => copies[r] <= lost[r] + 1
        /\ ~Accepted(r) => copies[r] <= lost[r]
        /\ Channel # "vk" /\ Accepted(r) => copies[r] = lost[r] + 1
        /\ Channel # "vk" /\ ~Accepted(r) => copies[r] = lost[r]

\* What SendsFit promises of time, said of a behaviour: no worker is in flight
\* when its lease has run out.
SendsAreTimely == \A w \in Workers : InFlight(w) => left[w] > 0

\* A worker in flight owns its row, alone and with a current snapshot, and every
\* copy of the message is accounted for.
IInv ==
    /\ TypeOK
    /\ LeaseIsOwned
    /\ OneHolder
    /\ SnapshotIsCurrent
    /\ StampedIsSent
    /\ CopiesAddUp

\* The inductive invariant behind SuppressedForCause: an answer that will be
\* recorded as a bounce came from an API that declared the recipient unreachable.
BouncesAreHonest ==
    /\ TypeOK
    /\ SuppressedForCause
    /\ \A w \in Workers :
          pc[w] = "answered" /\ outcome[w].kind = "blocked" => job[w] \in unreachable

-----------------------------------------------------------------------------
(* What a comment says, and the code does not do. *)

\* "3 attempts": a row that failed max_attempts times, or for good, is never
\* leased again.
ExhaustedIsNotRetried ==
    \A w \in Workers : InFlight(w) => seen[w] < MaxAttempts
=============================================================================
