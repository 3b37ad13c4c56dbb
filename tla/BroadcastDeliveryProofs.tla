----------------------- MODULE BroadcastDeliveryProofs -----------------------
(***************************************************************************)
(* Theorems about BroadcastDelivery for every set of recipients and        *)
(* workers, every lease, backoff, pause and bound.  Type correctness and   *)
(* the cause of every hard bounce are inductive by themselves.  Everything *)
(* else follows from IInv, in every behaviour in which no send outlives    *)
(* its lease, which SendsFit guarantees.                                   *)
(***************************************************************************)
EXTENDS BroadcastDelivery, TLAPS

(***************************************************************************)
(* How the senders sort an answer: always into one of the five outcomes,   *)
(* with a natural pause, and, off VK, "sent" only for a message that the    *)
(* messenger took.                                                         *)
(***************************************************************************)
LEMMA SortedAnswer ==
    ASSUME NEW a \in Answers
    PROVE  /\ OutcomeOf(a) \in [kind : Kinds, wait : Nat]
           /\ OutcomeOf(a).kind = "sent" /\ Channel # "vk" => MayBeAccepted(a) = {TRUE}
           /\ MayBeAccepted(a) \subseteq BOOLEAN
<1>. DEFINE Unsent(o) == \E k \in Kinds \ {"sent"}, t \in Nat : o = Outcome(k, t)
<1>1. \/ a.code = "ok" /\ OutcomeOf(a) = Outcome("sent", 0)
      \/ a.code # "ok" /\ Unsent(OutcomeOf(a))
  <2>1. CASE Channel = "telegram"
    <3>1. a \in TelegramAnswers /\ OutcomeOf(a) = TelegramOutcome(a)
      BY <2>1 DEF Answers, OutcomeOf
    <3>2. PICK ms \in Nat : ms = CappedPause(a.retryAfter)
      BY <3>1, PauseAssumption DEF TelegramAnswers, Plain, Answer, CappedPause
    <3>3. \/ a.code = "ok" /\ TelegramOutcome(a) = Outcome("sent", 0)
          \/ /\ a.code # "ok"
             /\ \E k \in Kinds \ {"sent"}, t \in {0, ms} : TelegramOutcome(a) = Outcome(k, t)
      BY <3>1, <3>2 DEF TelegramAnswers, TelegramOutcome, Plain, Answer, Kinds
    <3>. QED  BY <3>1, <3>2, <3>3
  <2>2. CASE Channel = "max"
    <3>1. a \in MaxAnswers /\ OutcomeOf(a) = MaxOutcome(a)
      BY <2>2 DEF Answers, OutcomeOf
    <3>2. \/ a.code = "ok" /\ MaxOutcome(a) = Outcome("sent", 0)
          \/ /\ a.code # "ok"
             /\ \E k \in Kinds \ {"sent"}, t \in {0, MaxBackoff} : MaxOutcome(a) = Outcome(k, t)
      BY <3>1 DEF MaxAnswers, MaxOutcome, Plain, Answer, Kinds
    <3>. QED  BY <3>1, <3>2, PauseAssumption
  <2>3. CASE Channel = "vk"
    <3>1. a \in VkAnswers /\ OutcomeOf(a) = VkOutcome(a)
      BY <2>3 DEF Answers, OutcomeOf
    <3>2. \/ a.code = "ok" /\ VkOutcome(a) = Outcome("sent", 0)
          \/ /\ a.code # "ok"
             /\ \E k \in Kinds \ {"sent"}, t \in {0, VkRatePause, VkFloodPause} :
                   VkOutcome(a) = Outcome(k, t)
      BY <3>1 DEF VkAnswers, VkOutcome, Plain, Answer, Kinds
    <3>. QED  BY <3>1, <3>2, PauseAssumption
  <2>. QED  BY <2>1, <2>2, <2>3, ChannelAssumption
<1>2. OutcomeOf(a) \in [kind : Kinds, wait : Nat]
  BY <1>1 DEF Outcome, Kinds
<1>3. OutcomeOf(a).kind = "sent" => a.code = "ok"
  BY <1>1 DEF Outcome
<1>4. a.code = "ok" /\ Channel # "vk" => MayBeAccepted(a) = {TRUE}
  <2>1. Channel # "vk" => a.origin # "text"
    BY ChannelAssumption DEF Answers, TelegramAnswers, MaxAnswers, Plain, Answer
  <2>. QED  BY <2>1 DEF MayBeAccepted
<1>5. MayBeAccepted(a) \subseteq BOOLEAN
  BY DEF MayBeAccepted
<1>. QED  BY <1>2, <1>3, <1>4, <1>5

\* The ways a message may have gone out when nobody knows.
LEMMA WaysType == AnyWay \in SUBSET BOOLEAN /\ \A b : {b = "text"} \in SUBSET BOOLEAN
  BY DEF AnyWay

-----------------------------------------------------------------------------
(* Type correctness. *)

\* Each of the helpers that end a job or settle a row keeps the types of what
\* it writes.
LEMMA ReleaseType ==
    ASSUME TypeOK, NEW w \in Workers, Release(w)
    PROVE  /\ pc' \in [Workers -> {"idle", "checked", "sending", "answered", "paused", "yielding"}]
           /\ job' \in [Workers -> Recipients \cup {NoRow}]
           /\ \A v \in Workers : job'[v] = NoRow <=> pc'[v] = "idle"
           /\ seen' \in [Workers -> Nat]
           /\ left' \in [Workers -> 0..Lease]
           /\ outcome' \in [Workers -> [kind : Kinds, wait : Nat]]
  BY DeliveryAssumption DEF TypeOK, Release, NoOutcome, Outcome, Kinds

LEMMA MarkFailedType ==
    ASSUME TypeOK, NEW w \in Workers, job[w] \in Recipients,
           NEW permanent \in BOOLEAN, MarkFailed(w, permanent)
    PROVE  /\ status' = [status EXCEPT ![job[w]] = "failed"]
           /\ attempts' = [attempts EXCEPT ![job[w]] = Counted(seen[w] + 1)]
           /\ attempts' \in [Recipients -> Nat]
           /\ due' \in [Recipients -> Nat \cup {Null}]
           /\ \A r \in Recipients \ {job[w]} : due'[r] = due[r]
           /\ stamped' = stamped
<1>. DEFINE n == Counted(seen[w] + 1)
<1>1. n \in Nat \ {0} /\ n <= AttemptCap
  BY DeliveryAssumption DEF TypeOK, Counted
<1>2. ~(permanent \/ n >= MaxAttempts) => Backoff[n] \in Nat
  BY <1>1, DeliveryAssumption
<1>3. due' = [due EXCEPT ![job[w]] = IF permanent \/ n >= MaxAttempts THEN Null ELSE Backoff[n]]
  BY DEF MarkFailed
<1>4. attempts' = [attempts EXCEPT ![job[w]] = n]
  BY DEF MarkFailed
<1>. HIDE DEF n
<1>5. due' \in [Recipients -> Nat \cup {Null}] /\ \A r \in Recipients \ {job[w]} : due'[r] = due[r]
  BY <1>2, <1>3 DEF TypeOK
<1>6. attempts' \in [Recipients -> Nat]
  BY <1>1, <1>4 DEF TypeOK
<1>. QED  BY <1>4, <1>5, <1>6 DEF MarkFailed, n

\* What the messenger does with a message keeps the types of the history.
LEMMA DeliveryType ==
    ASSUME TypeOK, NEW r \in Recipients, NEW accepted \in BOOLEAN, NEW forgotten \in BOOLEAN,
           NEW ways \in SUBSET BOOLEAN, Deliveries(r, accepted, ways), Forget(r, forgotten)
    PROVE  /\ copies' \in [Recipients -> Nat]
           /\ keyed' \subseteq Recipients
           /\ lost' \in [Recipients -> Nat]
<1>1. copies' \in [Recipients -> Nat] /\ keyed' \subseteq Recipients
  <2>1. CASE accepted
    <3>1. PICK fallback \in ways : Deliver(r, fallback)
      BY <2>1 DEF Deliveries
    <3>. QED  BY <3>1 DEF TypeOK, Deliver
  <2>2. CASE ~accepted
    BY <2>2 DEF TypeOK, Deliveries
  <2>. QED  BY <2>1, <2>2
<1>2. lost' \in [Recipients -> Nat]
  BY DEF TypeOK, Forget
<1>. QED  BY <1>1, <1>2

\* The initial states have the types.
LEMMA TypeInit == Init => TypeOK
  BY DeliveryAssumption DEF Init, TypeOK, NoOutcome, Outcome, Kinds, Null

\* Every step keeps the types, whether or not a send fits its lease.
LEMMA TypeStep == TypeOK /\ [Next]_vars => TypeOK'
<1>. SUFFICES ASSUME TypeOK, [Next]_vars
              PROVE  TypeOK'
  OBVIOUS
<1>. USE DEF row, jobs, disp, work, world
<1>1. CASE ListActive
  BY <1>1 DEF ListActive, TypeOK
<1>2. CASE ClaimDispatchable
  BY <1>2 DEF ClaimDispatchable, Batches, Claimable, TypeOK
<1>3. ASSUME NEW r \in Recipients, Enqueue(r) PROVE TypeOK'
  BY <1>3 DEF Enqueue, TypeOK
<1>4. ASSUME NEW r \in Recipients, YieldToPause(r) PROVE TypeOK'
  BY <1>4 DEF YieldToPause, TypeOK
<1>5. ASSUME NEW w \in Workers, WorkerStep(w) PROVE TypeOK'
  <2>0. pc[w] # "idle" => job[w] \in Recipients
    BY DEF TypeOK
  <2>1. ASSUME NEW r \in Recipients, PickUp(w, r) PROVE TypeOK'
    <3>1. queue' \in [Recipients -> Nat]
      BY <2>1 DEF PickUp, TypeOK
    <3>2. pc' \in [Workers -> {"idle", "checked", "sending", "answered", "paused", "yielding"}]
      BY <2>1 DEF PickUp, TypeOK
    <3>3. job' \in [Workers -> Recipients \cup {NoRow}]
      BY <2>1 DEF PickUp, TypeOK
    <3>4. \A v \in Workers : job'[v] = NoRow <=> pc'[v] = "idle"
      BY <2>1, DeliveryAssumption DEF PickUp, TypeOK
    <3>. QED  BY <2>1, <3>1, <3>2, <3>3, <3>4 DEF PickUp, TypeOK
  <2>2. CASE LeaseRow(w)
    BY <2>0, <2>2, DeliveryAssumption DEF LeaseRow, TypeOK
  <2>3. CASE SkipRow(w)
    BY <2>3, ReleaseType DEF SkipRow, TypeOK
  <2>4. ASSUME NEW permanent \in BOOLEAN, FailBeforeSend(w, permanent) PROVE TypeOK'
    <3>1. job[w] \in Recipients /\ MarkFailed(w, permanent) /\ Release(w)
      BY <2>0, <2>4 DEF FailBeforeSend
    <3>2. status' \in [Recipients -> {"queued", "sent", "failed", "blocked", "excluded"}]
      BY <3>1, MarkFailedType DEF TypeOK
    <3>. QED  BY <2>4, <3>1, <3>2, ReleaseType, MarkFailedType DEF FailBeforeSend, TypeOK
  <2>5. ASSUME NEW a \in Answers, SendAnswered(w, a) PROVE TypeOK'
    <3>. DEFINE r == job[w]
    <3>1. r \in Recipients
      BY <2>0, <2>5 DEF SendAnswered
    <3>2. PICK accepted \in MayBeAccepted(a) :
            /\ Deliveries(r, accepted, {a.origin = "text"})
            /\ Forget(r, accepted /\ OutcomeOf(a).kind # "sent")
      BY <2>5 DEF SendAnswered
    <3>3. accepted \in BOOLEAN /\ (accepted /\ OutcomeOf(a).kind # "sent") \in BOOLEAN
      BY <3>2, SortedAnswer
    <3>4. /\ copies' \in [Recipients -> Nat]
          /\ keyed' \subseteq Recipients
          /\ lost' \in [Recipients -> Nat]
      BY <3>1, <3>2, <3>3, DeliveryType, WaysType
    <3>5. outcome' \in [Workers -> [kind : Kinds, wait : Nat]]
      BY <2>5, SortedAnswer DEF SendAnswered, TypeOK
    <3>6. pc' \in [Workers -> {"idle", "checked", "sending", "answered", "paused", "yielding"}]
          /\ \A v \in Workers : job[v] = NoRow <=> pc'[v] = "idle"
      BY <2>5 DEF SendAnswered, TypeOK
    <3>7. limits' \in Nat /\ unreachable' \subseteq Recipients
      BY <2>5, <3>1 DEF SendAnswered, TypeOK
    <3>. QED  BY <2>5, <3>4, <3>5, <3>6, <3>7 DEF SendAnswered, TypeOK
  <2>6. CASE SendThrows(w)
    <3>1. job[w] \in Recipients /\ Release(w)
      BY <2>0, <2>6 DEF SendThrows
    <3>2. PICK accepted \in BOOLEAN : Deliveries(job[w], accepted, AnyWay) /\ Forget(job[w], accepted)
      BY <2>6 DEF SendThrows
    <3>3. /\ copies' \in [Recipients -> Nat]
          /\ keyed' \subseteq Recipients
          /\ lost' \in [Recipients -> Nat]
      BY <3>1, <3>2, DeliveryType, WaysType
    <3>. QED  BY <2>6, <3>1, <3>3, ReleaseType DEF SendThrows, TypeOK
  <2>7. CASE RecordSent(w)
    <3>1. /\ status' \in [Recipients -> {"queued", "sent", "failed", "blocked", "excluded"}]
          /\ stamped' \in [Recipients -> BOOLEAN]
      BY <2>0, <2>7 DEF RecordSent, TypeOK
    <3>2. Release(w)
      BY <2>7 DEF RecordSent
    <3>. QED  BY <2>7, <3>1, <3>2, ReleaseType DEF RecordSent, TypeOK
  <2>8. CASE PauseToken(w) \/ RescheduleRow(w) \/ YieldJob(w)
    <3>1. job[w] \in Recipients /\ outcome[w].wait \in Nat
      BY <2>0, <2>8 DEF PauseToken, RescheduleRow, YieldJob, TypeOK
    <3>2. CASE PauseToken(w)
      <4>1. pause' \in Nat
        BY <3>1, <3>2 DEF PauseToken, TypeOK
      <4>2. pc' \in [Workers -> {"idle", "checked", "sending", "answered", "paused", "yielding"}]
            /\ \A v \in Workers : job[v] = NoRow <=> pc'[v] = "idle"
        BY <3>2 DEF PauseToken, TypeOK
      <4>. QED  BY <3>2, <4>1, <4>2 DEF PauseToken, TypeOK
    <3>3. CASE RescheduleRow(w)
      <4>1. /\ status' \in [Recipients -> {"queued", "sent", "failed", "blocked", "excluded"}]
            /\ due' \in [Recipients -> Nat \cup {Null}]
        BY <3>1, <3>3 DEF RescheduleRow, TypeOK
      <4>2. pc' \in [Workers -> {"idle", "checked", "sending", "answered", "paused", "yielding"}]
            /\ \A v \in Workers : job[v] = NoRow <=> pc'[v] = "idle"
        BY <3>3 DEF RescheduleRow, TypeOK
      <4>. QED  BY <3>3, <4>1, <4>2 DEF RescheduleRow, TypeOK
    <3>4. CASE YieldJob(w)
      <4>1. queue' \in [Recipients -> Nat] /\ limiter' \in Nat /\ Release(w)
        BY <3>1, <3>4 DEF YieldJob, TypeOK
      <4>. QED  BY <3>4, <4>1, ReleaseType DEF YieldJob, TypeOK
    <3>. QED  BY <2>8, <3>2, <3>3, <3>4
  <2>9. CASE RecordBlocked(w)
    <3>1. job[w] \in Recipients /\ Release(w)
      BY <2>0, <2>9 DEF RecordBlocked
    <3>2. /\ status' \in [Recipients -> {"queued", "sent", "failed", "blocked", "excluded"}]
          /\ suppression' \in [Recipients -> {"none", "unsubscribe", "hard_bounce"}]
      BY <2>9, <3>1 DEF RecordBlocked, TypeOK
    <3>. QED  BY <2>9, <3>1, <3>2, ReleaseType DEF RecordBlocked, TypeOK
  <2>10. CASE RecordFailed(w)
    <3>1. PICK permanent \in BOOLEAN : MarkFailed(w, permanent)
      BY <2>10 DEF RecordFailed
    <3>2. job[w] \in Recipients /\ Release(w)
      BY <2>0, <2>10 DEF RecordFailed
    <3>3. status' \in [Recipients -> {"queued", "sent", "failed", "blocked", "excluded"}]
      BY <3>1, <3>2, MarkFailedType DEF TypeOK
    <3>. QED  BY <2>10, <3>1, <3>2, <3>3, ReleaseType, MarkFailedType DEF RecordFailed, TypeOK
  <2>11. CASE WorkerCrashes(w)
    <3>1. job[w] \in Recipients /\ Release(w)
      BY <2>0, <2>11 DEF WorkerCrashes
    <3>2. PICK accepted \in BOOLEAN :
            /\ Deliveries(job[w], accepted, AnyWay)
            /\ Forget(job[w], accepted \/ (pc[w] = "answered" /\ outcome[w].kind = "sent"))
      BY <2>11 DEF WorkerCrashes
    <3>3. /\ copies' \in [Recipients -> Nat]
          /\ keyed' \subseteq Recipients
          /\ lost' \in [Recipients -> Nat]
      BY <3>1, <3>2, DeliveryType, WaysType
    <3>4. queue' \in [Recipients -> Nat] /\ faults' \in Nat
      BY <2>11, <3>1 DEF WorkerCrashes, TypeOK
    <3>. QED  BY <2>11, <3>1, <3>3, <3>4, ReleaseType DEF WorkerCrashes, TypeOK
  <2>. QED  BY <1>5, <2>1, <2>2, <2>3, <2>4, <2>5, <2>6, <2>7, <2>8, <2>9, <2>10, <2>11
            DEF WorkerStep
<1>6. ASSUME NEW s \in Moves, SetCampaignStatus(s) PROVE TypeOK'
  BY <1>6, DeliveryAssumption DEF SetCampaignStatus, TypeOK
<1>7. ASSUME NEW r \in Leavers, Unsubscribe(r) PROVE TypeOK'
  BY <1>7, DeliveryAssumption DEF Unsubscribe, TypeOK
<1>8. ASSUME NEW t \in RetryAfters, SupportLimited(t) PROVE TypeOK'
  BY <1>8, PauseAssumption DEF SupportLimited, CappedPause, TypeOK
<1>9. CASE Tick
  <2>1. \A t \in Nat \cup {Null} : Less(t) \in Nat \cup {Null}
    BY DEF Less, Null
  <2>2. \A t \in Nat : Less(t) \in Nat /\ Less(t) <= t
    BY DEF Less
  <2>3. due' \in [Recipients -> Nat \cup {Null}]
    BY <1>9, <2>1 DEF Tick, TypeOK
  <2>4. left' \in [Workers -> 0..Lease]
    BY <1>9, <2>2, DeliveryAssumption DEF Tick, TypeOK
  <2>5. limiter' \in Nat /\ pause' \in Nat
    BY <1>9, <2>2 DEF Tick, TypeOK
  <2>. QED  BY <1>9, <2>3, <2>4, <2>5 DEF Tick, TypeOK
<1>10. CASE UNCHANGED vars
  BY <1>10 DEF vars, TypeOK
<1>. QED  BY <1>1, <1>2, <1>3, <1>4, <1>5, <1>6, <1>7, <1>8, <1>9, <1>10 DEF Next

\* Every variable keeps its type in every behaviour: a due time is a natural
\* number or NULL, a worker's clock never exceeds its lease.
THEOREM TypeCorrect == Spec => []TypeOK
  BY TypeInit, TypeStep, PTL DEF Spec

-----------------------------------------------------------------------------
(* The inductive invariant.  A timely send gives the induction its ground:    *)
(* the clock leaves a worker in flight a rest of its lease, so the lease is   *)
(* still on the row when it writes, and nobody passed the guard meanwhile.    *)

\* A worker in flight owns an open, unstamped row that no other worker is on.
LEMMA OwnerFacts ==
    ASSUME IInv, NEW w \in Workers, InFlight(w)
    PROVE  /\ job[w] \in Recipients
           /\ Open(job[w]) /\ ~stamped[job[w]]
           /\ seen[w] = attempts[job[w]]
           /\ left[w] > 0 /\ due[job[w]] = left[w]
           /\ \A v \in Workers \ {w} : InFlight(v) => job[v] # job[w]
  BY DEF IInv, TypeOK, InFlight, LeaseIsOwned, OneHolder, Holds, SnapshotIsCurrent

\* A worker leaves its row: its job ends, or goes on to wait for the queue.
Leaves(w) ==
    \/ Release(w)
    \/ pc' = [pc EXCEPT ![w] = "yielding"] /\ UNCHANGED <<job, seen, left, outcome>>

\* Whoever leaves a row leaves every other worker in flight in its right, if the
\* rows of those others are left alone.
LEMMA OthersKeepTheirRows ==
    ASSUME IInv, NEW w \in Workers, Leaves(w),
           \A v \in Workers \ {w} : InFlight(v) =>
               /\ status'[job[v]] = status[job[v]]
               /\ attempts'[job[v]] = attempts[job[v]]
               /\ due'[job[v]] = due[job[v]]
               /\ stamped'[job[v]] = stamped[job[v]]
    PROVE  LeaseIsOwned' /\ OneHolder' /\ SnapshotIsCurrent'
<1>1. ~InFlight(w)' /\ \A r \in Recipients : ~Holds(w, r)'
  BY DEF IInv, TypeOK, Leaves, Release, InFlight, Holds
<1>2. \A v \in Workers \ {w} :
        pc'[v] = pc[v] /\ job'[v] = job[v] /\ left'[v] = left[v] /\ seen'[v] = seen[v]
  BY DEF IInv, TypeOK, Leaves, Release
<1>3. LeaseIsOwned'
  BY <1>1, <1>2 DEF IInv, LeaseIsOwned, InFlight
<1>4. OneHolder'
  BY <1>1, <1>2 DEF IInv, OneHolder, Holds, InFlight
<1>5. SnapshotIsCurrent'
  BY <1>1, <1>2 DEF IInv, SnapshotIsCurrent, Open, InFlight
<1>. QED  BY <1>3, <1>4, <1>5

\* A step of one worker changes the account of its own row only.
LEMMA AcceptedElsewhere ==
    ASSUME IInv, NEW w \in Workers, NEW r \in Recipients,
           r # job[w], r # job'[w], status'[r] = status[r],
           \A v \in Workers \ {w} :
               pc'[v] = pc[v] /\ job'[v] = job[v] /\ outcome'[v] = outcome[v]
    PROVE  Accepted(r)' <=> Accepted(r)
  BY DEF Accepted, Holds, InFlight

\* Once the owner of a row has left it, only the status says that it was accepted.
LEMMA AcceptedAfterOwner ==
    ASSUME IInv, NEW w \in Workers, InFlight(w), Leaves(w),
           NEW r \in Recipients, r = job[w]
    PROVE  Accepted(r)' <=> status'[r] = "sent"
<1>1. \A v \in Workers \ {w} : pc'[v] = pc[v] /\ job'[v] = job[v]
  BY DEF IInv, TypeOK, Leaves, Release
<1>2. pc'[w] \in {"idle", "yielding"}
  BY DEF IInv, TypeOK, Leaves, Release
<1>3. \A v \in Workers \ {w} : InFlight(v) => job[v] # r
  BY OwnerFacts
<1>4. \A v \in Workers : ~Holds(v, r)'
  BY <1>1, <1>2, <1>3 DEF InFlight, Holds
<1>. QED  BY <1>4 DEF Accepted

\* The account after the owner w of row r is done: the other rows' accounts are
\* untouched, and r's balances against its status.
LEMMA AccountClosed ==
    ASSUME IInv, NEW w \in Workers, InFlight(w), Leaves(w),
           NEW r \in Recipients, r = job[w],
           \A x \in Recipients \ {r} :
               status'[x] = status[x] /\ copies'[x] = copies[x] /\ lost'[x] = lost[x],
           status'[r] = "sent" => /\ copies'[r] <= lost'[r] + 1
                                  /\ Channel # "vk" => copies'[r] = lost'[r] + 1,
           status'[r] # "sent" => /\ copies'[r] <= lost'[r]
                                  /\ Channel # "vk" => copies'[r] = lost'[r]
    PROVE  CopiesAddUp'
<1>1. \A x \in Recipients \ {r} : Accepted(x)' <=> Accepted(x)
  <2>1. \A v \in Workers \ {w} :
          pc'[v] = pc[v] /\ job'[v] = job[v] /\ outcome'[v] = outcome[v]
    BY DEF IInv, TypeOK, Leaves, Release
  <2>2. \A x \in Recipients \ {r} : x # job'[w]
    BY DeliveryAssumption DEF IInv, TypeOK, Leaves, Release
  <2>. QED  BY <2>1, <2>2, AcceptedElsewhere
<1>2. Accepted(r)' <=> status'[r] = "sent"
  BY AcceptedAfterOwner
<1>3. ASSUME NEW x \in Recipients
      PROVE  /\ Accepted(x)' => copies'[x] <= lost'[x] + 1
             /\ ~Accepted(x)' => copies'[x] <= lost'[x]
             /\ Channel # "vk" /\ Accepted(x)' => copies'[x] = lost'[x] + 1
             /\ Channel # "vk" /\ ~Accepted(x)' => copies'[x] = lost'[x]
  <2>1. CASE x = r
    BY <1>2, <2>1
  <2>2. CASE x # r
    BY <1>1, <2>2 DEF IInv, CopiesAddUp
  <2>. QED  BY <2>1, <2>2
<1>. QED  BY <1>3 DEF CopiesAddUp

\* What the messenger and the history do with one send, in numbers: without an
\* acceptance nothing, with one at most a copy more, exactly one off VK.
LEMMA DeliveryCounts ==
    ASSUME IInv, NEW r \in Recipients, NEW accepted \in BOOLEAN, NEW forgotten \in BOOLEAN,
           NEW ways \in SUBSET BOOLEAN, Deliveries(r, accepted, ways), Forget(r, forgotten)
    PROVE  /\ \A x \in Recipients \ {r} : copies'[x] = copies[x] /\ lost'[x] = lost[x]
           /\ copies'[r] \in {copies[r], copies[r] + 1}
           /\ accepted /\ Channel # "vk" => copies'[r] = copies[r] + 1
           /\ ~accepted => copies'[r] = copies[r]
           /\ lost'[r] = IF forgotten THEN lost[r] + 1 ELSE lost[r]
<1>1. /\ \A x \in Recipients \ {r} : copies'[x] = copies[x]
      /\ copies'[r] \in {copies[r], copies[r] + 1}
      /\ accepted /\ Channel # "vk" => copies'[r] = copies[r] + 1
      /\ ~accepted => copies'[r] = copies[r]
  <2>1. CASE accepted
    <3>1. PICK fallback \in ways : Deliver(r, fallback)
      BY <2>1 DEF Deliveries
    <3>. QED  BY <2>1, <3>1 DEF IInv, TypeOK, Deliver
  <2>2. CASE ~accepted
    BY <2>2 DEF IInv, TypeOK, Deliveries
  <2>. QED  BY <2>1, <2>2
<1>2. /\ \A x \in Recipients \ {r} : lost'[x] = lost[x]
      /\ lost'[r] = IF forgotten THEN lost[r] + 1 ELSE lost[r]
  BY DEF IInv, TypeOK, Forget
<1>. QED  BY <1>1, <1>2

\* While a worker is on a row, its answer alone says whether a copy is pending.
LEMMA AcceptedWhileOwned ==
    ASSUME IInv, NEW w \in Workers, InFlight(w), NEW r \in Recipients, r = job[w]
    PROVE  Accepted(r) <=> pc[w] = "answered" /\ outcome[w].kind = "sent"
<1>1. status[r] # "sent" /\ \A v \in Workers \ {w} : InFlight(v) => job[v] # r
  BY OwnerFacts DEF Open
<1>. QED  BY <1>1 DEF Accepted, Holds, InFlight

\* The end of a job that never took its row changes no account.
LEMMA AcceptedAfterSkip ==
    ASSUME IInv, NEW w \in Workers, ~InFlight(w), Release(w), UNCHANGED status
    PROVE  \A x \in Recipients : Accepted(x)' <=> Accepted(x)
<1>1. \A v \in Workers \ {w} :
        pc'[v] = pc[v] /\ job'[v] = job[v] /\ outcome'[v] = outcome[v]
  BY DEF IInv, TypeOK, Release
<1>2. pc'[w] = "idle"
  BY DEF IInv, TypeOK, Release
<1>. QED  BY <1>1, <1>2 DEF Accepted, Holds, InFlight

\* A step that leaves the rows, the workers and the copies alone keeps IInv.
LEMMA Frame ==
    ASSUME IInv, TypeOK', UNCHANGED <<row, work, copies, lost>>
    PROVE  IInv'
<1>. USE DEF row, work
<1>1. LeaseIsOwned' /\ OneHolder' /\ SnapshotIsCurrent'
  BY DEF IInv, LeaseIsOwned, OneHolder, SnapshotIsCurrent, InFlight, Holds, Open
<1>2. StampedIsSent'
  BY DEF IInv, StampedIsSent
<1>3. CopiesAddUp'
  <2>1. \A r \in Recipients : Accepted(r)' <=> Accepted(r)
    BY DEF Accepted, Holds, InFlight
  <2>. QED  BY <2>1 DEF IInv, CopiesAddUp
<1>. QED  BY <1>1, <1>2, <1>3 DEF IInv

\* The account may change only by the answer that the owner of the row gets.
LEMMA SameAccounts ==
    ASSUME IInv, UNCHANGED <<copies, lost>>,
           \A x \in Recipients : Accepted(x)' <=> Accepted(x)
    PROVE  CopiesAddUp'
  BY DEF IInv, CopiesAddUp

\* Initially nothing is in flight and nothing was sent.
LEMMA IInvInit == Init => IInv
<1>. SUFFICES ASSUME Init PROVE IInv
  OBVIOUS
<1>1. TypeOK
  BY TypeInit
<1>2. \A r \in Recipients : ~Accepted(r)
  BY DEF Init, Accepted, Holds
<1>3. CopiesAddUp
  BY <1>2 DEF Init, CopiesAddUp
<1>4. StampedIsSent
  BY DeliveryAssumption DEF Init, StampedIsSent
<1>. QED  BY <1>1, <1>3, <1>4
          DEF Init, IInv, LeaseIsOwned, InFlight, OneHolder, Holds, SnapshotIsCurrent

\* A failed attempt closes the account of its row without a copy.
LEMMA FailureStep ==
    ASSUME IInv, TypeOK', NEW w \in Workers, InFlight(w), NEW permanent \in BOOLEAN,
           ~(pc[w] = "answered" /\ outcome[w].kind = "sent"),
           MarkFailed(w, permanent), Release(w), UNCHANGED <<copies, lost>>
    PROVE  IInv'
<1>1. PICK x \in Recipients : x = job[w]
  BY OwnerFacts
<1>2. /\ status' = [status EXCEPT ![x] = "failed"]
      /\ attempts' = [attempts EXCEPT ![x] = Counted(seen[w] + 1)]
      /\ \A y \in Recipients \ {x} : due'[y] = due[y]
      /\ stamped' = stamped
  BY <1>1, MarkFailedType DEF IInv
<1>3. LeaseIsOwned' /\ OneHolder' /\ SnapshotIsCurrent'
  <2>1. ASSUME NEW v \in Workers \ {w}, InFlight(v)
        PROVE  /\ status'[job[v]] = status[job[v]]
               /\ attempts'[job[v]] = attempts[job[v]]
               /\ due'[job[v]] = due[job[v]]
               /\ stamped'[job[v]] = stamped[job[v]]
    <3>1. job[v] \in Recipients /\ job[v] # x
      BY <1>1, <2>1, OwnerFacts
    <3>. QED  BY <1>2, <3>1 DEF IInv, TypeOK
  <2>. QED  BY <2>1, OthersKeepTheirRows DEF Leaves
<1>4. StampedIsSent'
  <2>1. Counted(seen[w] + 1) <= AttemptCap
    BY DeliveryAssumption DEF IInv, TypeOK, Counted
  <2>2. ~stamped[x]
    BY <1>1, OwnerFacts
  <2>. QED  BY <1>2, <2>1, <2>2 DEF IInv, TypeOK, StampedIsSent
<1>5. CopiesAddUp'
  <2>1. ~Accepted(x) /\ status'[x] # "sent"
    BY <1>1, <1>2, AcceptedWhileOwned DEF IInv, TypeOK
  <2>2. copies[x] <= lost[x] /\ (Channel # "vk" => copies[x] = lost[x])
    BY <2>1 DEF IInv, CopiesAddUp
  <2>3. \A y \in Recipients \ {x} : status'[y] = status[y]
    BY <1>2
  <2>. QED  BY <1>1, <2>1, <2>2, <2>3, AccountClosed DEF Leaves
<1>. QED  BY <1>3, <1>4, <1>5 DEF IInv

\* A worker that gives up without writing leaves its row as it was, and every
\* copy that it knew of is counted as lost.
LEMMA AbandonStep ==
    ASSUME IInv, TypeOK', NEW w \in Workers, InFlight(w), Release(w), UNCHANGED row,
           NEW accepted \in BOOLEAN, accepted => pc[w] = "sending",
           Deliveries(job[w], accepted, AnyWay),
           Forget(job[w], accepted \/ (pc[w] = "answered" /\ outcome[w].kind = "sent"))
    PROVE  IInv'
<1>. USE DEF row
<1>1. PICK r \in Recipients : r = job[w]
  BY OwnerFacts
<1>2. LeaseIsOwned' /\ OneHolder' /\ SnapshotIsCurrent'
  BY OthersKeepTheirRows DEF Leaves
<1>3. StampedIsSent'
  BY DEF IInv, StampedIsSent
<1>4. CopiesAddUp'
  <2>1. status'[r] # "sent"
    BY <1>1, OwnerFacts DEF Open
  <2>. DEFINE knew == pc[w] = "answered" /\ outcome[w].kind = "sent"
  <2>2. /\ \A x \in Recipients \ {r} : copies'[x] = copies[x] /\ lost'[x] = lost[x]
        /\ copies'[r] \in {copies[r], copies[r] + 1}
        /\ accepted /\ Channel # "vk" => copies'[r] = copies[r] + 1
        /\ ~accepted => copies'[r] = copies[r]
        /\ lost'[r] = IF accepted \/ knew THEN lost[r] + 1 ELSE lost[r]
    <3>1. (accepted \/ knew) \in BOOLEAN
      OBVIOUS
    <3>2. Deliveries(r, accepted, AnyWay) /\ Forget(r, accepted \/ knew)
      BY <1>1
    <3>. HIDE DEF knew
    <3>. QED  BY <3>1, <3>2, DeliveryCounts, WaysType
  <2>3. /\ knew => copies[r] <= lost[r] + 1 /\ (Channel # "vk" => copies[r] = lost[r] + 1)
        /\ ~knew => copies[r] <= lost[r] /\ (Channel # "vk" => copies[r] = lost[r])
    <3>1. Accepted(r) <=> knew
      BY <1>1, AcceptedWhileOwned
    <3>. QED  BY <3>1 DEF IInv, CopiesAddUp
  <2>4. copies[r] \in Nat /\ lost[r] \in Nat
    BY DEF IInv, TypeOK
  <2>5. copies'[r] <= lost'[r] /\ (Channel # "vk" => copies'[r] = lost'[r])
    <3>1. CASE accepted
      BY <2>2, <2>3, <2>4, <3>1
    <3>2. CASE ~accepted /\ knew
      BY <2>2, <2>3, <2>4, <3>2
    <3>3. CASE ~accepted /\ ~knew
      BY <2>2, <2>3, <2>4, <3>3
    <3>. QED  BY <3>1, <3>2, <3>3
  <2>. QED  BY <1>1, <2>1, <2>2, <2>5, AccountClosed DEF Leaves
<1>. QED  BY <1>2, <1>3, <1>4 DEF IInv

\* The lease: the guard found the row free, so its taker is alone on it.
LEMMA LeaseStep ==
    ASSUME IInv, TypeOK', NEW w \in Workers, LeaseRow(w)
    PROVE  IInv'
<1>1. PICK r \in Recipients : r = job[w]
  BY DEF IInv, TypeOK, LeaseRow
<1>2. /\ due' = [due EXCEPT ![r] = Lease]
      /\ seen' = [seen EXCEPT ![w] = attempts[r]]
      /\ left' = [left EXCEPT ![w] = Lease]
      /\ pc' = [pc EXCEPT ![w] = "sending"]
      /\ UNCHANGED <<status, attempts, stamped, job, outcome, copies, lost>>
  BY <1>1 DEF LeaseRow, world
<1>3. pc[w] = "checked" /\ Open(r) /\ due[r] \in {Null, 0}
  BY <1>1 DEF LeaseRow, Dispatchable, Reached
<1>4. \A v \in Workers \ {w} : InFlight(v) => job[v] \in Recipients /\ job[v] # r
  BY <1>3, OwnerFacts DEF Null
<1>5. \A v \in Workers : InFlight(v)' <=> v = w \/ InFlight(v)
  BY <1>2 DEF InFlight, IInv, TypeOK
<1>6. LeaseIsOwned'
  <2>1. Lease > 0 /\ left'[w] = Lease /\ due'[r] = Lease
    BY <1>2, DeliveryAssumption DEF IInv, TypeOK
  <2>2. \A v \in Workers \ {w} : InFlight(v) => left'[v] = left[v] /\ due'[job[v]] = due[job[v]]
    BY <1>2, <1>4 DEF IInv, TypeOK
  <2>3. \A v \in Workers : InFlight(v)' => left'[v] > 0 /\ due'[job'[v]] = left'[v]
    BY <1>1, <1>2, <1>5, <2>1, <2>2 DEF IInv, LeaseIsOwned
  <2>. QED  BY <2>3 DEF LeaseIsOwned
<1>7. OneHolder'
  <2>1. \A v \in Workers : \A x \in Recipients :
          Holds(v, x)' <=> (v = w /\ x = r) \/ (v # w /\ Holds(v, x))
    BY <1>1, <1>2 DEF Holds, IInv, TypeOK, InFlight
  <2>2. \A v \in Workers \ {w} : ~Holds(v, r)
    BY <1>4 DEF Holds, InFlight
  <2>. QED  BY <2>1, <2>2 DEF IInv, OneHolder
<1>8. SnapshotIsCurrent'
  <2>1. ~stamped[r]
    BY <1>3 DEF IInv, StampedIsSent, Open
  <2>2. \A v \in Workers : InFlight(v)' =>
          /\ status'[job'[v]] \in {"queued", "failed"}
          /\ ~stamped'[job'[v]]
          /\ seen'[v] = attempts'[job'[v]]
    BY <1>1, <1>2, <1>3, <2>1 DEF IInv, TypeOK, SnapshotIsCurrent, Open, InFlight
  <2>. QED  BY <2>2 DEF SnapshotIsCurrent, Open
<1>9. StampedIsSent'
  BY <1>2 DEF IInv, StampedIsSent
<1>10. CopiesAddUp'
  <2>1. \A x \in Recipients : Accepted(x)' <=> Accepted(x)
    BY <1>2, <1>3 DEF IInv, TypeOK, Accepted, Holds, InFlight
  <2>. QED  BY <1>2, <2>1, SameAccounts
<1>. QED  BY <1>6, <1>7, <1>8, <1>9, <1>10 DEF IInv

\* The answer: a copy more is pending exactly if the answer was "sent".
LEMMA AnswerStep ==
    ASSUME IInv, TypeOK', NEW w \in Workers, NEW a \in Answers, SendAnswered(w, a)
    PROVE  IInv'
<1>. DEFINE o == OutcomeOf(a)
<1>1. PICK r \in Recipients : r = job[w]
  BY DEF IInv, TypeOK, SendAnswered
<1>2. /\ pc[w] = "sending" /\ pc' = [pc EXCEPT ![w] = "answered"]
      /\ outcome' = [outcome EXCEPT ![w] = o]
      /\ UNCHANGED <<status, attempts, due, stamped, job, seen, left>>
  BY DEF SendAnswered, row
<1>3. InFlight(w) /\ \A v \in Workers : InFlight(v)' <=> InFlight(v)
  BY <1>2 DEF InFlight, IInv, TypeOK
<1>4. LeaseIsOwned' /\ StampedIsSent'
  BY <1>2, <1>3 DEF IInv, LeaseIsOwned, StampedIsSent
<1>5. OneHolder'
  BY <1>2 DEF IInv, TypeOK, OneHolder, Holds, InFlight
<1>6. SnapshotIsCurrent'
  BY <1>2 DEF IInv, TypeOK, SnapshotIsCurrent, Open, InFlight
<1>7. CopiesAddUp'
  <2>1. PICK accepted \in MayBeAccepted(a) :
          Deliveries(r, accepted, {a.origin = "text"}) /\ Forget(r, accepted /\ o.kind # "sent")
    BY <1>1 DEF SendAnswered
  <2>2. accepted \in BOOLEAN /\ (o.kind = "sent" /\ Channel # "vk" => accepted)
    BY <2>1, SortedAnswer
  <2>3. /\ \A x \in Recipients \ {r} : copies'[x] = copies[x] /\ lost'[x] = lost[x]
        /\ copies'[r] \in {copies[r], copies[r] + 1}
        /\ accepted /\ Channel # "vk" => copies'[r] = copies[r] + 1
        /\ ~accepted => copies'[r] = copies[r]
        /\ lost'[r] = IF accepted /\ o.kind # "sent" THEN lost[r] + 1 ELSE lost[r]
    <3>1. (accepted /\ o.kind # "sent") \in BOOLEAN
      OBVIOUS
    <3>. QED  BY <2>1, <2>2, <3>1, DeliveryCounts, WaysType
  <2>4. \A x \in Recipients \ {r} : Accepted(x)' <=> Accepted(x)
    BY <1>1, <1>2 DEF IInv, TypeOK, Accepted, Holds, InFlight
  <2>5. ~Accepted(r)
    BY <1>1, <1>2, <1>3, AcceptedWhileOwned
  <2>6. Accepted(r)' <=> o.kind = "sent"
    <3>1. status'[r] # "sent" /\ \A v \in Workers \ {w} : InFlight(v) => job[v] # r
      BY <1>1, <1>2, <1>3, OwnerFacts DEF Open
    <3>2. pc'[w] = "answered" /\ outcome'[w] = o
      BY <1>2 DEF IInv, TypeOK
    <3>3. \A v \in Workers \ {w} : pc'[v] = pc[v]
      BY <1>2 DEF IInv, TypeOK
    <3>. QED  BY <1>1, <1>2, <3>1, <3>2, <3>3 DEF Accepted, Holds, InFlight
  <2>7. copies[r] \in Nat /\ lost[r] \in Nat /\ copies[r] <= lost[r]
        /\ (Channel # "vk" => copies[r] = lost[r])
    BY <2>5 DEF IInv, TypeOK, CopiesAddUp
  <2>8. /\ o.kind = "sent" => copies'[r] <= lost'[r] + 1 /\ (Channel # "vk" => copies'[r] = lost'[r] + 1)
        /\ o.kind # "sent" => copies'[r] <= lost'[r] /\ (Channel # "vk" => copies'[r] = lost'[r])
    <3>1. CASE o.kind = "sent"
      BY <2>2, <2>3, <2>7, <3>1
    <3>2. CASE o.kind # "sent"
      BY <2>2, <2>3, <2>7, <3>2
    <3>. QED  BY <3>1, <3>2
  <2>9. ASSUME NEW x \in Recipients
        PROVE  /\ Accepted(x)' => copies'[x] <= lost'[x] + 1
               /\ ~Accepted(x)' => copies'[x] <= lost'[x]
               /\ Channel # "vk" /\ Accepted(x)' => copies'[x] = lost'[x] + 1
               /\ Channel # "vk" /\ ~Accepted(x)' => copies'[x] = lost'[x]
    <3>1. CASE x = r
      BY <2>6, <2>8, <3>1
    <3>2. CASE x # r
      BY <2>3, <2>4, <3>2 DEF IInv, CopiesAddUp
    <3>. QED  BY <3>1, <3>2
  <2>. QED  BY <2>9 DEF CopiesAddUp
<1>. QED  BY <1>4, <1>5, <1>6, <1>7 DEF IInv

\* The record of an outcome that settles the row.
LEMMA RecordStep ==
    ASSUME IInv, TypeOK', NEW w \in Workers, RecordSent(w) \/ RecordBlocked(w)
    PROVE  IInv'
<1>1. pc[w] = "answered" /\ InFlight(w) /\ Release(w) /\ UNCHANGED <<attempts, copies, lost>>
  BY DEF RecordSent, RecordBlocked, InFlight, world
<1>2. PICK r \in Recipients : r = job[w]
  BY <1>1, OwnerFacts
<1>3. ~stamped[r] /\ Open(r)
  BY <1>1, <1>2, OwnerFacts
<1>4. \A x \in Recipients \ {r} :
        status'[x] = status[x] /\ due'[x] = due[x] /\ stamped'[x] = stamped[x]
  BY <1>2 DEF IInv, TypeOK, RecordSent, RecordBlocked
<1>5. (stamped'[r] => status'[r] = "sent") /\ (status'[r] = "sent" <=> outcome[w].kind = "sent")
  <2>1. CASE RecordSent(w)
    BY <1>2, <1>3, <2>1 DEF IInv, TypeOK, RecordSent
  <2>2. CASE RecordBlocked(w)
    BY <1>2, <1>3, <2>2 DEF IInv, TypeOK, RecordBlocked
  <2>. QED  BY <2>1, <2>2
<1>6. LeaseIsOwned' /\ OneHolder' /\ SnapshotIsCurrent'
  <2>1. \A v \in Workers \ {w} : InFlight(v) => job[v] \in Recipients \ {r}
    BY <1>1, <1>2, OwnerFacts
  <2>. QED  BY <1>1, <1>4, <2>1, OthersKeepTheirRows DEF Leaves
<1>7. StampedIsSent'
  BY <1>1, <1>4, <1>5 DEF IInv, StampedIsSent
<1>8. CopiesAddUp'
  <2>1. Accepted(r) <=> status'[r] = "sent"
    BY <1>1, <1>2, <1>5, AcceptedWhileOwned
  <2>2. /\ status'[r] = "sent" => /\ copies'[r] <= lost'[r] + 1
                                  /\ Channel # "vk" => copies'[r] = lost'[r] + 1
        /\ status'[r] # "sent" => /\ copies'[r] <= lost'[r]
                                  /\ Channel # "vk" => copies'[r] = lost'[r]
    BY <1>1, <2>1 DEF IInv, CopiesAddUp
  <2>. QED  BY <1>1, <1>2, <1>4, <2>2, AccountClosed DEF Leaves
<1>. QED  BY <1>6, <1>7, <1>8 DEF IInv

\* While the token is paused the worker keeps its row, without a copy pending.
LEMMA PauseStep ==
    ASSUME IInv, TypeOK', NEW w \in Workers, PauseToken(w)
    PROVE  IInv'
<1>1. /\ pc[w] = "answered" /\ outcome[w].kind = "limited" /\ pc' = [pc EXCEPT ![w] = "paused"]
      /\ UNCHANGED <<status, attempts, due, stamped, job, seen, left, outcome, copies, lost>>
  BY DEF PauseToken, row, world
<1>2. \A v \in Workers : InFlight(v)' <=> InFlight(v)
  BY <1>1 DEF IInv, TypeOK, InFlight
<1>3. LeaseIsOwned' /\ OneHolder' /\ SnapshotIsCurrent' /\ StampedIsSent'
  BY <1>1, <1>2
     DEF IInv, LeaseIsOwned, OneHolder, Holds, SnapshotIsCurrent, Open, StampedIsSent
<1>4. \A x \in Recipients : Accepted(x)' <=> Accepted(x)
  <2>1. \A v \in Workers : pc'[v] = "answered" /\ outcome'[v].kind = "sent"
                            <=> pc[v] = "answered" /\ outcome[v].kind = "sent"
    BY <1>1 DEF IInv, TypeOK
  <2>. QED  BY <1>1, <1>2, <2>1 DEF Accepted, Holds
<1>. QED  BY <1>1, <1>3, <1>4, SameAccounts DEF IInv

\* The row is given back without a copy, and nobody else's row is touched.
LEMMA RescheduleStep ==
    ASSUME IInv, TypeOK', NEW w \in Workers, RescheduleRow(w)
    PROVE  IInv'
<1>1. pc[w] = "paused" /\ InFlight(w) /\ UNCHANGED <<attempts, stamped, copies, lost>>
  BY DEF RescheduleRow, InFlight, world
<1>2. PICK r \in Recipients : r = job[w]
  BY <1>1, OwnerFacts
<1>3. Leaves(w)
  BY DEF RescheduleRow, Leaves
<1>4. /\ status'[r] = "queued"
      /\ \A x \in Recipients \ {r} : status'[x] = status[x] /\ due'[x] = due[x]
  BY <1>2 DEF IInv, TypeOK, RescheduleRow
<1>5. LeaseIsOwned' /\ OneHolder' /\ SnapshotIsCurrent'
  <2>1. \A v \in Workers \ {w} : InFlight(v) => job[v] \in Recipients \ {r}
    BY <1>1, <1>2, OwnerFacts
  <2>. QED  BY <1>1, <1>3, <1>4, <2>1, OthersKeepTheirRows
<1>6. StampedIsSent'
  <2>1. ~stamped[r]
    BY <1>1, <1>2, OwnerFacts
  <2>. QED  BY <1>1, <1>4, <2>1 DEF IInv, StampedIsSent
<1>7. CopiesAddUp'
  <2>1. ~Accepted(r)
    BY <1>1, <1>2, AcceptedWhileOwned
  <2>2. copies'[r] <= lost'[r] /\ (Channel # "vk" => copies'[r] = lost'[r])
    BY <1>1, <2>1 DEF IInv, CopiesAddUp
  <2>. QED  BY <1>1, <1>2, <1>3, <1>4, <2>2, AccountClosed
<1>. QED  BY <1>5, <1>6, <1>7 DEF IInv

\* Time takes the same from the lease on the row and from the worker's own clock,
\* and the worker has still some of it left, by SendsFit or in this behaviour.
LEMMA TickStep ==
    ASSUME SendsFit \/ SendsAreTimely', IInv, TypeOK', Tick
    PROVE  IInv'
<1>1. UNCHANGED <<status, attempts, stamped, pc, job, seen, outcome, copies, lost>>
  BY DEF Tick, world
<1>2. LeaseIsOwned'
  <2>1. ASSUME NEW w \in Workers, InFlight(w)
        PROVE  left'[w] > 0 /\ due'[job[w]] = left'[w]
    <3>1. job[w] \in Recipients /\ left[w] > 0 /\ due[job[w]] = left[w]
      BY <2>1, OwnerFacts
    <3>2. left'[w] = Less(left[w]) /\ due'[job[w]] = Less(due[job[w]])
      BY <3>1 DEF Tick
    <3>3. left[w] \in Nat
      BY DeliveryAssumption DEF IInv, TypeOK
    <3>4. CASE SendsFit
      <4>1. left[w] > 1
        BY <2>1, <3>4 DEF Tick, InFlight
      <4>. QED  BY <3>1, <3>2, <3>3, <4>1 DEF Less
    <3>5. CASE SendsAreTimely'
      <4>1. left'[w] > 0
        BY <1>1, <2>1, <3>5 DEF SendsAreTimely, InFlight
      <4>. QED  BY <3>1, <3>2, <4>1
    <3>. QED  BY <3>4, <3>5
  <2>. QED  BY <1>1, <2>1 DEF LeaseIsOwned, InFlight
<1>3. OneHolder' /\ SnapshotIsCurrent' /\ StampedIsSent'
  BY <1>1 DEF IInv, OneHolder, Holds, SnapshotIsCurrent, Open, StampedIsSent, InFlight
<1>4. CopiesAddUp'
  <2>1. \A x \in Recipients : Accepted(x)' <=> Accepted(x)
    BY <1>1 DEF Accepted, Holds, InFlight
  <2>. QED  BY <1>1, <2>1, SameAccounts
<1>. QED  BY <1>2, <1>3, <1>4 DEF IInv

\* Every step keeps the invariant unless it makes a send outlive its lease.
LEMMA IInvStep ==
    IInv /\ [Next]_vars /\ (SendsFit \/ SendsAreTimely') => IInv'
<1>. SUFFICES ASSUME IInv, [Next]_vars, SendsFit \/ SendsAreTimely' PROVE IInv'
  OBVIOUS
<1>0. TypeOK'
  BY TypeStep DEF IInv
<1>1. CASE ListActive
  BY <1>0, <1>1, Frame DEF ListActive, world
<1>2. CASE ClaimDispatchable
  BY <1>0, <1>2, Frame DEF ClaimDispatchable, world
<1>3. ASSUME NEW r \in Recipients, Enqueue(r) \/ YieldToPause(r) PROVE IInv'
  BY <1>0, <1>3, Frame DEF Enqueue, YieldToPause, world
<1>4. ASSUME NEW w \in Workers, WorkerStep(w) PROVE IInv'
  <2>1. ASSUME NEW r \in Recipients, PickUp(w, r) PROVE IInv'
    <3>1. /\ pc[w] = "idle" /\ pc' = [pc EXCEPT ![w] = "checked"]
          /\ job' = [job EXCEPT ![w] = r]
          /\ UNCHANGED <<status, attempts, due, stamped, seen, left, outcome, copies, lost>>
      BY <2>1 DEF PickUp, row, world
    <3>2. \A v \in Workers : InFlight(v)' <=> InFlight(v)
      BY <3>1 DEF IInv, TypeOK, InFlight
    <3>3. \A v \in Workers : InFlight(v) => job'[v] = job[v] /\ pc'[v] = pc[v]
      BY <3>1 DEF IInv, TypeOK, InFlight
    <3>4. LeaseIsOwned' /\ StampedIsSent'
      BY <3>1, <3>2, <3>3 DEF IInv, LeaseIsOwned, StampedIsSent
    <3>5. OneHolder' /\ SnapshotIsCurrent'
      BY <3>1 DEF IInv, TypeOK, OneHolder, Holds, SnapshotIsCurrent, Open, InFlight
    <3>6. \A x \in Recipients : Accepted(x)' <=> Accepted(x)
      BY <3>1 DEF IInv, TypeOK, Accepted, Holds, InFlight
    <3>. QED  BY <1>0, <3>1, <3>4, <3>5, <3>6, SameAccounts DEF IInv
  <2>2. CASE LeaseRow(w)
    BY <1>0, <2>2, LeaseStep
  <2>3. CASE SkipRow(w) \/ YieldJob(w)
    <3>1. ~InFlight(w) /\ Release(w) /\ UNCHANGED <<row, copies, lost>>
      BY <2>3 DEF SkipRow, YieldJob, InFlight, world
    <3>2. LeaseIsOwned' /\ OneHolder' /\ SnapshotIsCurrent'
      BY <3>1, OthersKeepTheirRows DEF row, Leaves
    <3>3. StampedIsSent' /\ CopiesAddUp'
      BY <3>1, AcceptedAfterSkip, SameAccounts DEF IInv, row, StampedIsSent
    <3>. QED  BY <1>0, <3>2, <3>3 DEF IInv
  <2>4. ASSUME NEW permanent \in BOOLEAN, FailBeforeSend(w, permanent) PROVE IInv'
    BY <1>0, <2>4, FailureStep DEF FailBeforeSend, InFlight, world
  <2>5. ASSUME NEW a \in Answers, SendAnswered(w, a) PROVE IInv'
    BY <1>0, <2>5, AnswerStep
  <2>6. CASE SendThrows(w)
    <3>1. pc[w] = "sending" /\ InFlight(w) /\ Release(w) /\ UNCHANGED row
      BY <2>6 DEF SendThrows, InFlight
    <3>2. PICK accepted \in BOOLEAN : Deliveries(job[w], accepted, AnyWay) /\ Forget(job[w], accepted)
      BY <2>6 DEF SendThrows
    <3>3. accepted \/ (pc[w] = "answered" /\ outcome[w].kind = "sent") <=> accepted
      BY <3>1
    <3>4. Forget(job[w], accepted \/ (pc[w] = "answered" /\ outcome[w].kind = "sent"))
      BY <3>2, <3>3 DEF Forget
    <3>. QED  BY <1>0, <3>1, <3>2, <3>4, AbandonStep
  <2>7. CASE RecordSent(w) \/ RecordBlocked(w)
    BY <1>0, <2>7, RecordStep
  <2>10. CASE PauseToken(w) \/ RescheduleRow(w)
    BY <1>0, <2>10, PauseStep, RescheduleStep
  <2>8. CASE RecordFailed(w)
    <3>1. /\ InFlight(w) /\ outcome[w].kind # "sent" /\ Release(w)
          /\ UNCHANGED <<copies, lost>>
      BY <2>8 DEF RecordFailed, InFlight, world
    <3>2. PICK permanent \in BOOLEAN : MarkFailed(w, permanent)
      BY <2>8 DEF RecordFailed
    <3>. QED  BY <1>0, <3>1, <3>2, FailureStep
  <2>9. CASE WorkerCrashes(w)
    <3>1. Release(w) /\ UNCHANGED row
      BY <2>9 DEF WorkerCrashes
    <3>2. PICK accepted \in (IF pc[w] = "sending" THEN BOOLEAN ELSE {FALSE}) :
            /\ Deliveries(job[w], accepted, AnyWay)
            /\ Forget(job[w], accepted \/ (pc[w] = "answered" /\ outcome[w].kind = "sent"))
      BY <2>9 DEF WorkerCrashes
    <3>3. accepted \in BOOLEAN /\ (accepted => pc[w] = "sending")
      BY <3>2
    <3>4. CASE InFlight(w)
      BY <1>0, <3>1, <3>2, <3>3, <3>4, AbandonStep
    <3>5. CASE ~InFlight(w)
      <4>1. ~accepted /\ ~(pc[w] = "answered" /\ outcome[w].kind = "sent")
        BY <3>3, <3>5 DEF InFlight
      <4>2. UNCHANGED <<copies, lost>>
        BY <3>2, <4>1 DEF Deliveries, Forget
      <4>3. LeaseIsOwned' /\ OneHolder' /\ SnapshotIsCurrent'
        BY <3>1, OthersKeepTheirRows DEF row, Leaves
      <4>4. StampedIsSent' /\ CopiesAddUp'
        BY <3>1, <3>5, <4>2, AcceptedAfterSkip, SameAccounts DEF IInv, row, StampedIsSent
      <4>. QED  BY <1>0, <4>3, <4>4 DEF IInv
    <3>. QED  BY <3>4, <3>5
  <2>. QED  BY <1>4, <2>1, <2>2, <2>3, <2>4, <2>5, <2>6, <2>7, <2>8, <2>9, <2>10
           DEF WorkerStep
<1>5. ASSUME NEW s, SetCampaignStatus(s) PROVE IInv'
  BY <1>0, <1>5, Frame DEF SetCampaignStatus, world
<1>6. ASSUME NEW r, Unsubscribe(r) PROVE IInv'
  BY <1>0, <1>6, Frame DEF Unsubscribe, world
<1>7. ASSUME NEW t, SupportLimited(t) PROVE IInv'
  BY <1>0, <1>7, Frame DEF SupportLimited, world
<1>8. CASE Tick
  BY <1>0, <1>8, TickStep
<1>9. CASE UNCHANGED vars
  BY <1>0, <1>9, Frame DEF vars, world
<1>. QED  BY <1>1, <1>2, <1>3, <1>4, <1>5, <1>6, <1>7, <1>8, <1>9 DEF Next

\* When sends fit their lease, the invariant holds in every state.
THEOREM Invariance ==
    ASSUME SendsFit PROVE Spec => []IInv
<1>1. IInv /\ [Next]_vars => IInv'
  BY IInvStep
<1>. QED  BY <1>1, IInvInit, PTL DEF Spec

\* The code bounds no send: a picture may take longer than CLAIM_LEASE_MS.  As
\* long as none does, in a given behaviour, everything holds all the same: two
\* workers on one row, or a copy too many, mean that a lease was outlived.
THEOREM TimelyInvariance ==
    Spec /\ []SendsAreTimely => []IInv
<1>1. IInv /\ [Next]_vars /\ SendsAreTimely' => IInv'
  BY IInvStep
<1>. QED  BY <1>1, IInvInit, PTL DEF Spec

-----------------------------------------------------------------------------
(* What follows from the invariant. *)

\* The lease excludes: no two workers are ever between lease and record on one
\* row, however many workers, crashes and duplicate jobs there are.
THEOREM LeaseExcludes ==
    ASSUME SendsFit PROVE Spec => []OneHolder
<1>1. IInv => OneHolder
  BY DEF IInv
<1>. QED  BY <1>1, Invariance, PTL

\* The row does not change under the worker that sends it, so the number of
\* attempts that markFailed writes back is never stale.
THEOREM SnapshotStaysCurrent ==
    ASSUME SendsFit PROVE Spec => []SnapshotIsCurrent
<1>1. IInv => SnapshotIsCurrent
  BY DEF IInv
<1>. QED  BY <1>1, Invariance, PTL

\* No recipient gets more than one copy beyond those whose record was lost, and
\* a "sent" row stands for exactly that one (off VK, which merges copies).
THEOREM NoUnexplainedCopy ==
    ASSUME SendsFit PROVE Spec => []CopiesAreExplained
<1>1. IInv => CopiesAreExplained
  <2>. SUFFICES ASSUME IInv, NEW r \in Recipients
                PROVE  /\ copies[r] <= lost[r] + 1
                       /\ Channel # "vk" /\ status[r] = "sent" => copies[r] = lost[r] + 1
    BY DEF CopiesAreExplained
  <2>1. status[r] = "sent" => Accepted(r)
    BY DEF Accepted
  <2>2. copies[r] \in Nat /\ lost[r] \in Nat
    BY DEF IInv, TypeOK
  <2>. QED  BY <2>1, <2>2 DEF IInv, CopiesAddUp
<1>. QED  BY <1>1, Invariance, PTL

\* The only steps that write a status, a counter or a stamp are those of the
\* worker that owns the row, and each writes its own row alone.
LEMMA OnlyTheOwnerWrites ==
    ASSUME IInv, [Next]_vars
    PROVE  \/ UNCHANGED <<status, attempts, stamped>>
           \/ \E w \in Workers : \E r \in Recipients :
                 /\ InFlight(w) /\ r = job[w]
                 /\ \A x \in Recipients \ {r} : status'[x] = status[x] /\ stamped'[x] = stamped[x]
                                               /\ attempts'[x] = attempts[x]
                 /\ \/ /\ status'[r] = "failed" /\ attempts'[r] = Counted(seen[w] + 1)
                       /\ UNCHANGED stamped
                    \/ RecordSent(w) \/ RecordBlocked(w) \/ RescheduleRow(w)
<1>. USE DEF row
<1>1. ASSUME NEW w \in Workers, WorkerStep(w),
             ~(\E r \in Recipients : PickUp(w, r)), ~LeaseRow(w), ~SkipRow(w),
             ~(\E a \in Answers : SendAnswered(w, a)), ~SendThrows(w), ~WorkerCrashes(w),
             ~PauseToken(w), ~YieldJob(w)
      PROVE  \E r \in Recipients :
                 /\ InFlight(w) /\ r = job[w]
                 /\ \A x \in Recipients \ {r} : status'[x] = status[x] /\ stamped'[x] = stamped[x]
                                               /\ attempts'[x] = attempts[x]
                 /\ \/ /\ status'[r] = "failed" /\ attempts'[r] = Counted(seen[w] + 1)
                       /\ UNCHANGED stamped
                    \/ RecordSent(w) \/ RecordBlocked(w) \/ RescheduleRow(w)
  <2>1. InFlight(w)
    BY <1>1 DEF WorkerStep, FailBeforeSend, RecordSent, RescheduleRow, RecordBlocked,
                RecordFailed, InFlight
  <2>2. PICK r \in Recipients : r = job[w]
    BY <2>1, OwnerFacts
  <2>3. CASE RecordSent(w) \/ RecordBlocked(w) \/ RescheduleRow(w)
    <3>1. \A x \in Recipients \ {r} : status'[x] = status[x] /\ stamped'[x] = stamped[x]
                                      /\ attempts'[x] = attempts[x]
      BY <2>2, <2>3 DEF IInv, TypeOK, RecordSent, RecordBlocked, RescheduleRow
    <3>. QED  BY <2>1, <2>2, <2>3, <3>1
  <2>4. ASSUME NEW permanent \in BOOLEAN, MarkFailed(w, permanent)
        PROVE  /\ \A x \in Recipients \ {r} : status'[x] = status[x] /\ stamped'[x] = stamped[x]
                                               /\ attempts'[x] = attempts[x]
               /\ status'[r] = "failed" /\ attempts'[r] = Counted(seen[w] + 1)
               /\ UNCHANGED stamped
    BY <2>2, <2>4, MarkFailedType DEF IInv, TypeOK
  <2>5. CASE (\E permanent \in BOOLEAN : FailBeforeSend(w, permanent)) \/ RecordFailed(w)
    <3>1. PICK permanent \in BOOLEAN : MarkFailed(w, permanent)
      BY <2>5 DEF FailBeforeSend, RecordFailed
    <3>. QED  BY <2>1, <2>2, <2>4, <3>1
  <2>. QED  BY <1>1, <2>3, <2>5 DEF WorkerStep
<1>2. ASSUME NEW w \in Workers,
             \/ \E r \in Recipients : PickUp(w, r)
             \/ LeaseRow(w) \/ SkipRow(w)
             \/ \E a \in Answers : SendAnswered(w, a)
             \/ SendThrows(w) \/ WorkerCrashes(w) \/ PauseToken(w) \/ YieldJob(w)
      PROVE  UNCHANGED <<status, attempts, stamped>>
  BY <1>2 DEF PickUp, LeaseRow, SkipRow, SendAnswered, SendThrows, WorkerCrashes, PauseToken,
              YieldJob
<1>3. CASE \E w \in Workers : WorkerStep(w)
  BY <1>1, <1>2, <1>3
<1>4. CASE ~(\E w \in Workers : WorkerStep(w))
  BY <1>4 DEF Next, vars, ListActive, ClaimDispatchable, Enqueue, YieldToPause,
              SetCampaignStatus, Unsubscribe, SupportLimited, Tick
<1>. QED  BY <1>3, <1>4

\* A settled row stays settled and no counted attempt is taken back.
THEOREM StatusMovesForward ==
    ASSUME SendsFit PROVE Spec => ForwardOnly
<1>. DEFINE Forward == \A r \in Recipients :
                /\ ~Open(r) => status'[r] = status[r]
                /\ attempts'[r] \in {attempts[r], attempts[r] + 1}
                /\ stamped[r] => stamped'[r]
<1>1. IInv /\ [Next]_vars => Forward
  <2>. SUFFICES ASSUME IInv, [Next]_vars PROVE Forward
    OBVIOUS
  <2>1. CASE UNCHANGED <<status, attempts, stamped>>
    BY <2>1
  <2>2. ASSUME NEW w \in Workers, NEW r \in Recipients,
               InFlight(w), r = job[w],
               \A x \in Recipients \ {r} : status'[x] = status[x] /\ stamped'[x] = stamped[x]
                                           /\ attempts'[x] = attempts[x],
               \/ /\ status'[r] = "failed" /\ attempts'[r] = Counted(seen[w] + 1)
                  /\ UNCHANGED stamped
               \/ RecordSent(w) \/ RecordBlocked(w) \/ RescheduleRow(w)
        PROVE  Forward
    <3>1. Open(r) /\ ~stamped[r] /\ seen[w] = attempts[r]
      BY <2>2, OwnerFacts
    <3>2. attempts'[r] \in {attempts[r], attempts[r] + 1}
      <4>1. CASE attempts'[r] = Counted(seen[w] + 1)
        <5>1. attempts[r] \in Nat /\ attempts[r] <= AttemptCap
          BY DEF IInv, TypeOK, StampedIsSent
        <5>. QED  BY <3>1, <4>1, <5>1, DeliveryAssumption DEF Counted
      <4>2. CASE RecordSent(w) \/ RecordBlocked(w) \/ RescheduleRow(w)
        BY <4>2 DEF RecordSent, RecordBlocked, RescheduleRow
      <4>. QED  BY <2>2, <4>1, <4>2
    <3>. QED  BY <2>2, <3>1, <3>2
  <2>. QED  BY <2>1, <2>2, OnlyTheOwnerWrites
<1>. QED  BY <1>1, Invariance, PTL DEF Spec, ForwardOnly

-----------------------------------------------------------------------------
(* The engine implements the outbox, on VK the one that merges copies.         *)

States == [r \in Recipients |-> StateOf(r)]

\* An accepted send is a copy that arrives, and nothing else is; on VK it may
\* be merged with an earlier one, so that a send without effect is one, too.
LEMMA DeliveryEffect ==
    ASSUME IInv, NEW r \in Recipients,
           NEW accepted \in BOOLEAN, NEW forgotten \in BOOLEAN,
           NEW ways \in SUBSET BOOLEAN, Deliveries(r, accepted, ways), Forget(r, forgotten)
    PROVE  /\ accepted \/ Channel = "vk" => Outbox!Arrives(r)
           /\ ~accepted => copies' = copies
           /\ lost' = IF forgotten THEN [lost EXCEPT ![r] = @ + 1] ELSE lost
<1>1. accepted => Outbox!Arrives(r)
  <2>1. CASE accepted
    <3>1. PICK fallback \in ways : Deliver(r, fallback)
      BY <2>1 DEF Deliveries
    <3>. QED  BY <3>1 DEF Deliver, Outbox!Arrives
  <2>. QED  BY <2>1
<1>2. ~accepted => copies' = copies
  BY DEF Deliveries
<1>. QED  BY <1>1, <1>2 DEF Forget, Outbox!Arrives

\* The abstract row of a worker in flight is open, with no copy in the balance
\* but the one the worker's answer stands for.
LEMMA OwnedIsOpen ==
    ASSUME IInv, NEW w \in Workers, InFlight(w), NEW r \in Recipients, r = job[w]
    PROVE  /\ States[r] = "open"
           /\ pc[w] = "answered" /\ outcome[w].kind = "sent" => Outbox!Pending(r)
           /\ ~(pc[w] = "answered" /\ outcome[w].kind = "sent") => Outbox!Even(r)
<1>1. States[r] = "open"
  BY OwnerFacts DEF States, StateOf
<1>2. copies[r] \in Nat /\ lost[r] \in Nat
  BY DEF IInv, TypeOK
<1>3. Accepted(r) => Outbox!Pending(r)
  BY <1>2 DEF IInv, CopiesAddUp, Outbox!Pending
<1>4. ~Accepted(r) => Outbox!Even(r)
  BY <1>2 DEF IInv, CopiesAddUp, Outbox!Even
<1>. QED  BY <1>1, <1>3, <1>4, AcceptedWhileOwned

\* A send that nobody answers, or that is answered with a failure, is in the
\* outbox a delivery lost at once, or nothing.
LEMMA UnseenStep ==
    ASSUME IInv, NEW w \in Workers, pc[w] = "sending",
           NEW r \in Recipients, r = job[w], NEW accepted \in BOOLEAN,
           NEW ways \in SUBSET BOOLEAN,
           Deliveries(r, accepted, ways), Forget(r, accepted), UNCHANGED status
    PROVE  Outbox!DeliverUnseen(r) \/ UNCHANGED <<States, copies, lost>>
<1>1. States' = States
  BY DEF States, StateOf, Open
<1>2. States[r] = "open" /\ Outbox!Even(r)
  BY OwnedIsOpen DEF InFlight
<1>3. CASE accepted
  BY <1>1, <1>2, <1>3, DeliveryEffect DEF Outbox!DeliverUnseen, States
<1>4. CASE ~accepted
  BY <1>1, <1>4, DeliveryEffect, WaysType
<1>. QED  BY <1>3, <1>4

\* Every step of a worker is a step of the outbox or invisible to it.
LEMMA WorkerRefines ==
    ASSUME IInv, NEW w \in Workers, WorkerStep(w)
    PROVE  Outbox!Next \/ UNCHANGED <<States, copies, lost>>
<1>. USE DEF row
<1>0. pc[w] # "idle" => job[w] \in Recipients
  BY DEF IInv, TypeOK
<1>1. ASSUME NEW r \in Recipients, PickUp(w, r) PROVE UNCHANGED <<States, copies, lost>>
  BY <1>1 DEF PickUp, world, States, StateOf, Open
<1>2. CASE LeaseRow(w)
  BY <1>2 DEF LeaseRow, world, States, StateOf, Open
<1>3. CASE SkipRow(w) \/ PauseToken(w) \/ YieldJob(w)
  BY <1>3 DEF SkipRow, PauseToken, YieldJob, world, States, StateOf, Open
<1>4. ASSUME NEW permanent \in BOOLEAN, MarkFailed(w, permanent), InFlight(w),
             UNCHANGED <<copies, lost>>
      PROVE  UNCHANGED <<States, copies, lost>>
  <2>1. PICK r \in Recipients : r = job[w]
    BY <1>4, OwnerFacts
  <2>2. Open(r) /\ status' = [status EXCEPT ![r] = "failed"]
    BY <1>4, <2>1, OwnerFacts DEF MarkFailed
  <2>3. \A x \in Recipients : StateOf(x)' = StateOf(x)
    BY <2>2 DEF IInv, TypeOK, StateOf, Open
  <2>. QED  BY <1>4, <2>3 DEF States
<1>5. ASSUME NEW a \in Answers, SendAnswered(w, a)
      PROVE  Outbox!Next \/ UNCHANGED <<States, copies, lost>>
  <2>. DEFINE o == OutcomeOf(a)
  <2>1. pc[w] = "sending" /\ UNCHANGED status
    BY <1>5 DEF SendAnswered
  <2>2. PICK r \in Recipients : r = job[w]
    BY <1>0, <2>1
  <2>3. PICK accepted \in MayBeAccepted(a) :
          Deliveries(r, accepted, {a.origin = "text"}) /\ Forget(r, accepted /\ o.kind # "sent")
    BY <1>5, <2>2 DEF SendAnswered
  <2>4. accepted \in BOOLEAN /\ (o.kind = "sent" /\ Channel # "vk" => accepted)
    BY <2>3, SortedAnswer
  <2>5. CASE o.kind = "sent"
    <3>1. States[r] = "open" /\ Outbox!Even(r) /\ States' = States
      BY <2>1, <2>2, OwnedIsOpen DEF InFlight, States, StateOf, Open
    <3>2. Forget(r, FALSE)
      BY <2>3, <2>5 DEF Forget
    <3>3. Outbox!Arrives(r) /\ lost' = lost
      BY <2>3, <2>4, <2>5, <3>2, DeliveryEffect, WaysType
    <3>4. Outbox!Deliver(r)
      BY <3>1, <3>3 DEF Outbox!Deliver, States
    <3>. QED  BY <3>4 DEF Outbox!Next
  <2>6. CASE o.kind # "sent"
    <3>1. Forget(r, accepted)
      BY <2>3, <2>6 DEF Forget
    <3>. QED  BY <2>1, <2>2, <2>3, <2>4, <3>1, UnseenStep, WaysType DEF Outbox!Next
  <2>. QED  BY <2>5, <2>6
<1>6. CASE SendThrows(w)
  <2>1. pc[w] = "sending" /\ UNCHANGED status
    BY <1>6 DEF SendThrows
  <2>2. PICK r \in Recipients : r = job[w]
    BY <1>0, <2>1
  <2>3. PICK accepted \in BOOLEAN : Deliveries(r, accepted, AnyWay) /\ Forget(r, accepted)
    BY <1>6, <2>2 DEF SendThrows
  <2>. QED  BY <2>1, <2>2, <2>3, UnseenStep, WaysType DEF Outbox!Next
<1>7. CASE RecordSent(w) \/ RecordBlocked(w) \/ RescheduleRow(w)
  <2>1. InFlight(w) /\ UNCHANGED <<copies, lost>>
    BY <1>7 DEF RecordSent, RecordBlocked, RescheduleRow, InFlight, world
  <2>2. PICK r \in Recipients : r = job[w]
    BY <2>1, OwnerFacts
  <2>3. Open(r) /\ ~stamped[r] /\ States[r] = "open"
    BY <2>1, <2>2, OwnerFacts, OwnedIsOpen
  <2>4. CASE RecordSent(w)
    <3>1. status' = [status EXCEPT ![r] = "sent"] /\ Outbox!Pending(r)
      BY <2>1, <2>2, <2>3, <2>4, OwnedIsOpen DEF RecordSent
    <3>2. States' = [States EXCEPT ![r] = "sent"]
      BY <3>1 DEF IInv, TypeOK, States, StateOf, Open
    <3>3. Outbox!SettleSent(r)
      BY <2>1, <2>3, <3>1, <3>2 DEF Outbox!SettleSent, States
    <3>. QED  BY <3>3 DEF Outbox!Next
  <2>5. CASE RecordBlocked(w)
    <3>1. status' = [status EXCEPT ![r] = "blocked"] /\ Outbox!Even(r)
      BY <2>1, <2>2, <2>5, OwnedIsOpen DEF RecordBlocked
    <3>2. States' = [States EXCEPT ![r] = "blocked"]
      BY <3>1 DEF IInv, TypeOK, States, StateOf, Open
    <3>3. Outbox!SettleBlocked(r)
      BY <2>1, <2>3, <3>1, <3>2 DEF Outbox!SettleBlocked, States
    <3>. QED  BY <3>3 DEF Outbox!Next
  <2>6. CASE RescheduleRow(w)
    <3>1. status' = [status EXCEPT ![r] = "queued"]
      BY <2>2, <2>6 DEF RescheduleRow
    <3>2. \A x \in Recipients : StateOf(x)' = StateOf(x)
      BY <2>3, <3>1 DEF IInv, TypeOK, StateOf, Open
    <3>. QED  BY <2>1, <3>2 DEF States
  <2>. QED  BY <1>7, <2>4, <2>5, <2>6
<1>8. CASE (\E permanent \in BOOLEAN : FailBeforeSend(w, permanent)) \/ RecordFailed(w)
  <2>1. InFlight(w) /\ UNCHANGED <<copies, lost>>
        /\ \E permanent \in BOOLEAN : MarkFailed(w, permanent)
    BY <1>8 DEF FailBeforeSend, RecordFailed, InFlight, world
  <2>. QED  BY <1>4, <2>1
<1>9. CASE WorkerCrashes(w)
  <2>1. PICK r \in Recipients : r = job[w]
    BY <1>0, <1>9 DEF WorkerCrashes
  <2>. DEFINE knew == pc[w] = "answered" /\ outcome[w].kind = "sent"
  <2>2. PICK accepted \in (IF pc[w] = "sending" THEN BOOLEAN ELSE {FALSE}) :
          Deliveries(r, accepted, AnyWay) /\ Forget(r, accepted \/ knew)
    BY <1>9, <2>1 DEF WorkerCrashes
  <2>3. UNCHANGED status /\ States' = States
    BY <1>9 DEF WorkerCrashes, States, StateOf, Open
  <2>4. CASE pc[w] = "sending"
    <3>1. Forget(r, accepted)
      BY <2>2, <2>4 DEF Forget
    <3>. QED  BY <2>1, <2>2, <2>3, <2>4, <3>1, UnseenStep, WaysType DEF Outbox!Next
  <2>5. CASE knew
    <3>1. accepted = FALSE
      BY <2>2, <2>5
    <3>2. Deliveries(r, FALSE, AnyWay) /\ Forget(r, TRUE)
      BY <2>2, <2>5, <3>1 DEF Forget
    <3>3. copies' = copies /\ lost' = [lost EXCEPT ![r] = @ + 1]
      BY <3>2, DeliveryEffect, WaysType
    <3>4. States[r] = "open" /\ Outbox!Pending(r)
      BY <2>1, <2>5, OwnedIsOpen DEF InFlight
    <3>5. Outbox!Lose(r)
      BY <2>3, <3>3, <3>4 DEF Outbox!Lose, States
    <3>. QED  BY <3>5 DEF Outbox!Next
  <2>6. CASE pc[w] # "sending" /\ ~knew
    <3>1. UNCHANGED <<copies, lost>>
      BY <2>2, <2>6 DEF Deliveries, Forget
    <3>. QED  BY <2>3, <3>1
  <2>. QED  BY <2>4, <2>5, <2>6
<1>. QED  BY <1>1, <1>2, <1>3, <1>5, <1>6, <1>7, <1>8, <1>9 DEF WorkerStep

\* Under the invariant every step of the engine is one of the outbox, or none.
LEMMA EngineRefines == IInv /\ [Next]_vars => [Outbox!Next]_(Outbox!vars)
<1>. SUFFICES ASSUME IInv, [Next]_vars
              PROVE  Outbox!Next \/ UNCHANGED <<States, copies, lost>>
  BY DEF Outbox!vars, States
<1>1. CASE \E w \in Workers : WorkerStep(w)
  BY <1>1, WorkerRefines
<1>2. CASE ~(\E w \in Workers : WorkerStep(w))
  <2>1. UNCHANGED <<status, copies, lost>>
    BY <1>2 DEF Next, vars, row, world, ListActive, ClaimDispatchable, Enqueue, YieldToPause,
                SetCampaignStatus, Unsubscribe, SupportLimited, Tick
  <2>. QED  BY <2>1 DEF States, StateOf, Open
<1>. QED  BY <1>1, <1>2

\* Nothing was sent or settled when the campaign starts.
LEMMA OutboxInitially == Init => Outbox!Init
  BY DEF Init, Outbox!Init, StateOf, Open

\* Delivery is at least once, with a further copy only after a lost record, and
\* a row is settled once and for good: the engine implements RecipientOutbox.
THEOREM EngineImplementsOutbox ==
    ASSUME SendsFit PROVE Spec => ImplementsOutbox
  BY EngineRefines, OutboxInitially, Invariance, PTL DEF Spec, ImplementsOutbox, Outbox!Spec

\* ... and so does every behaviour of an engine whose sends are not bounded, if
\* it happens to outlive no lease.
THEOREM TimelyEngineImplementsOutbox == Spec /\ []SendsAreTimely => ImplementsOutbox
  BY EngineRefines, OutboxInitially, TimelyInvariance, PTL DEF Spec, ImplementsOutbox, Outbox!Spec

-----------------------------------------------------------------------------
(* Hard bounces.  They need no timely sends: what an answer says of the       *)
(* recipient is true for ever, whoever records it and however late.           *)

\* MAX and VK take a recipient for lost only when their API declares him
\* unreachable.  (On Telegram a 403 of the image host counts as well.)
LEMMA BlockedIsUnreachable ==
    ASSUME Channel # "telegram", NEW a \in Answers, OutcomeOf(a).kind = "blocked"
    PROVE  a.unreachable
<1>1. CASE Channel = "max"
  <2>1. a \in MaxAnswers /\ MaxOutcome(a).kind = "blocked"
    BY <1>1 DEF Answers, OutcomeOf
  <2>2. a.code # "403" => MaxOutcome(a).kind # "blocked"
    BY <2>1 DEF MaxAnswers, MaxOutcome, Outcome, Plain, Answer
  <2>. QED  BY <2>1, <2>2 DEF MaxAnswers, Plain, Answer
<1>2. CASE Channel = "vk"
  <2>1. a \in VkAnswers /\ VkOutcome(a).kind = "blocked"
    BY <1>2 DEF Answers, OutcomeOf
  <2>2. a.code # "901" => VkOutcome(a).kind # "blocked"
    BY <2>1 DEF VkAnswers, VkOutcome, Outcome, Plain, Answer
  <2>. QED  BY <2>1, <2>2 DEF VkAnswers, Plain, Answer
<1>. QED  BY <1>1, <1>2, ChannelAssumption

\* Nobody is suppressed at first, and nothing is in flight.
LEMMA BouncesInit == Init => BouncesAreHonest
<1>1. Init => TypeOK
  BY TypeInit
<1>. QED  BY <1>1 DEF Init, BouncesAreHonest, SuppressedForCause

\* The end of a job leaves the answers of the other workers as they are.
LEMMA BouncesAfterJob ==
    ASSUME BouncesAreHonest, TypeOK', NEW w \in Workers, Release(w), UNCHANGED unreachable,
           SuppressedForCause'
    PROVE  BouncesAreHonest'
<1>1. \A v \in Workers \ {w} :
        pc'[v] = pc[v] /\ job'[v] = job[v] /\ outcome'[v] = outcome[v]
  BY DEF BouncesAreHonest, TypeOK, Release
<1>2. pc'[w] = "idle"
  BY DEF BouncesAreHonest, TypeOK, Release
<1>. QED  BY <1>1, <1>2 DEF BouncesAreHonest

\* Every step of a worker keeps the cause of every bounce.
LEMMA BouncesWorker ==
    ASSUME Channel # "telegram", BouncesAreHonest, TypeOK', NEW w \in Workers, WorkerStep(w)
    PROVE  BouncesAreHonest'
<1>1. ASSUME NEW r \in Recipients, PickUp(w, r) PROVE BouncesAreHonest'
  <2>1. /\ pc' = [pc EXCEPT ![w] = "checked"] /\ job' = [job EXCEPT ![w] = r]
        /\ UNCHANGED <<suppression, outcome, unreachable>>
    BY <1>1 DEF PickUp, world
  <2>. QED  BY <2>1 DEF BouncesAreHonest, TypeOK, SuppressedForCause
<1>2. CASE LeaseRow(w)
  <2>1. /\ pc' = [pc EXCEPT ![w] = "sending"]
        /\ UNCHANGED <<suppression, job, outcome, unreachable>>
    BY <1>2 DEF LeaseRow, world
  <2>. QED  BY <2>1 DEF BouncesAreHonest, TypeOK, SuppressedForCause
<1>3. ASSUME NEW a \in Answers, SendAnswered(w, a) PROVE BouncesAreHonest'
  <2>1. /\ pc[w] = "sending" /\ pc' = [pc EXCEPT ![w] = "answered"]
        /\ outcome' = [outcome EXCEPT ![w] = OutcomeOf(a)]
        /\ unreachable' = IF a.unreachable THEN unreachable \cup {job[w]} ELSE unreachable
        /\ UNCHANGED <<suppression, job>>
    BY <1>3 DEF SendAnswered
  <2>2. unreachable \subseteq unreachable'
    BY <2>1
  <2>3. OutcomeOf(a).kind = "blocked" => job[w] \in unreachable'
    BY <2>1, BlockedIsUnreachable
  <2>4. pc \in [Workers -> {"idle", "checked", "sending", "answered", "paused", "yielding"}]
        /\ outcome \in [Workers -> [kind : Kinds, wait : Nat]]
    BY DEF BouncesAreHonest, TypeOK
  <2>5. ASSUME NEW v \in Workers, pc'[v] = "answered", outcome'[v].kind = "blocked"
        PROVE  job'[v] \in unreachable'
    <3>1. CASE v = w
      BY <2>1, <2>3, <2>4, <2>5, <3>1
    <3>2. CASE v # w
      BY <2>1, <2>2, <2>4, <2>5, <3>2 DEF BouncesAreHonest
    <3>. QED  BY <3>1, <3>2
  <2>6. SuppressedForCause'
    BY <2>1, <2>2 DEF BouncesAreHonest, SuppressedForCause
  <2>. QED  BY <2>5, <2>6 DEF BouncesAreHonest
<1>4. CASE RecordBlocked(w)
  <2>1. /\ pc[w] = "answered" /\ outcome[w].kind = "blocked" /\ Release(w)
        /\ suppression' = IF suppression[job[w]] = "none"
                          THEN [suppression EXCEPT ![job[w]] = "hard_bounce"] ELSE suppression
        /\ UNCHANGED unreachable
    BY <1>4 DEF RecordBlocked, world
  <2>2. job[w] \in unreachable
    BY <2>1 DEF BouncesAreHonest
  <2>3. SuppressedForCause'
    BY <2>1, <2>2 DEF BouncesAreHonest, TypeOK, SuppressedForCause
  <2>. QED  BY <2>1, <2>3, BouncesAfterJob
<1>5. CASE \/ SkipRow(w) \/ SendThrows(w) \/ RecordSent(w) \/ YieldJob(w) \/ RecordFailed(w)
           \/ WorkerCrashes(w) \/ \E permanent \in BOOLEAN : FailBeforeSend(w, permanent)
  <2>1. Release(w) /\ UNCHANGED <<suppression, unreachable>>
    BY <1>5 DEF SkipRow, SendThrows, RecordSent, YieldJob, RecordFailed, WorkerCrashes,
                FailBeforeSend, world
  <2>2. SuppressedForCause'
    BY <2>1 DEF BouncesAreHonest, SuppressedForCause
  <2>. QED  BY <2>1, <2>2, BouncesAfterJob
<1>6. CASE PauseToken(w) \/ RescheduleRow(w)
  <2>1. /\ pc' \in {[pc EXCEPT ![w] = "paused"], [pc EXCEPT ![w] = "yielding"]}
        /\ UNCHANGED <<suppression, job, outcome, unreachable>>
    BY <1>6 DEF PauseToken, RescheduleRow, world
  <2>. QED  BY <2>1 DEF BouncesAreHonest, TypeOK, SuppressedForCause
<1>. QED  BY <1>1, <1>2, <1>3, <1>4, <1>5, <1>6 DEF WorkerStep

\* Every step does; only an unsubscription writes to the list besides.
LEMMA BouncesStep ==
    ASSUME Channel # "telegram" PROVE BouncesAreHonest /\ [Next]_vars => BouncesAreHonest'
<1>. SUFFICES ASSUME BouncesAreHonest, [Next]_vars PROVE BouncesAreHonest'
  OBVIOUS
<1>0. TypeOK'
  BY TypeStep DEF BouncesAreHonest
<1>1. CASE \E w \in Workers : WorkerStep(w)
  BY <1>0, <1>1, BouncesWorker
<1>2. ASSUME NEW r \in Leavers, Unsubscribe(r) PROVE BouncesAreHonest'
  <2>1. r \in Recipients
    BY DeliveryAssumption
  <2>2. /\ suppression' = [suppression EXCEPT ![r] = "unsubscribe"]
        /\ UNCHANGED <<pc, job, outcome, unreachable>>
    BY <1>2 DEF Unsubscribe, work, world
  <2>. QED  BY <1>0, <2>1, <2>2 DEF BouncesAreHonest, TypeOK, SuppressedForCause
<1>3. CASE ~(\E w \in Workers : WorkerStep(w)) /\ ~(\E r \in Leavers : Unsubscribe(r))
  <2>1. UNCHANGED <<suppression, pc, job, outcome, unreachable>>
    BY <1>3 DEF Next, vars, work, world, ListActive, ClaimDispatchable, Enqueue, YieldToPause,
                SetCampaignStatus, SupportLimited, Tick
  <2>. QED  BY <1>0, <2>1 DEF BouncesAreHonest, SuppressedForCause
<1>. QED  BY <1>1, <1>2, <1>3

\* The suppression list is for ever, so an entry must have a cause: off Telegram
\* a hard bounce stands only against a recipient whom the messenger's API itself
\* declared unreachable, through every race, crash and overrun lease.
THEOREM BouncesHaveACause ==
    ASSUME Channel # "telegram" PROVE Spec => []SuppressedForCause
<1>1. BouncesAreHonest => SuppressedForCause
  BY DEF BouncesAreHonest
<1>. QED  BY <1>1, BouncesInit, BouncesStep, PTL DEF Spec
=============================================================================
