---------------------------- MODULE CircuitBreaker ----------------------------
(***************************************************************************)
(* utils/circuit-breaker.ts: the breaker of one external service, one copy *)
(* in every backend process, mirrored to a Redis hash that a new process   *)
(* reads once.  Calls overlap: an answer is counted into whatever state    *)
(* the breaker is in when it comes.                                        *)
(***************************************************************************)
EXTENDS Naturals

CONSTANTS
    Processes,      \* backend processes that use the service
    Calls,          \* callers: each has at most one call under way per process
    Peekers,        \* those that look at getState() first (production-ai, ai-pricing)
    Threshold       \* consecutive failures that open the breaker: 5 for every
                    \* service, since getBreaker passes the constructor a name
                    \* and never the threshold of SERVICE_BREAKERS

ASSUME BreakerAssumption ==
    /\ Peekers \subseteq Calls
    /\ Threshold \in Nat \ {0}

States == {"CLOSED", "OPEN", "HALF_OPEN"}
\* state and failures; the count is cut off at Threshold, beyond which nothing
\* tells it apart
Mirrors == [state : States, failures : 0..Threshold]
\* and cool: cooldownMs have passed since openedAt, which only OPEN asks
Copies == [state : States, failures : 0..Threshold, cool : BOOLEAN]
Mirror(c) == [state |-> c.state, failures |-> c.failures]
Fresh == [state |-> "CLOSED", failures |-> 0, cool |-> TRUE]

VARIABLES
    copy,           \* the breaker of each process
    busy,           \* the calls under way in each process
    redis,          \* the mirror, as a set of at most one hash
    hydration,      \* how far each process is with its one hgetall
    answer          \* what the hgetall read

vars == <<copy, busy, redis, hydration, answer>>

Init ==
    /\ copy = [p \in Processes |-> Fresh]
    /\ busy = [p \in Processes |-> {}]
    /\ redis = {}
    /\ hydration = [p \in Processes |-> "asked"]
    /\ answer = [p \in Processes |-> {}]

\* syncToRedis is not awaited: it arrives or it is lost.
Becomes(p, c) ==
    /\ copy' = [copy EXCEPT ![p] = c]
    /\ redis' \in {redis, {Mirror(c)}}

-----------------------------------------------------------------------------
(* allow *)

EverybodyPeeks(p, c) == copy[p].state # "OPEN"              \* mutant
Gate(p, c) == c \in Peekers => copy[p].state # "OPEN"

\* CLOSED, and HALF_OPEN too, let everybody through.
Admit(p, c) ==
    /\ Gate(p, c) /\ c \notin busy[p]
    /\ copy[p].state # "OPEN"
    /\ busy' = [busy EXCEPT ![p] = @ \cup {c}]
    /\ UNCHANGED <<copy, redis, hydration, answer>>

\* The first to ask after the cooldown
Probe(p, c) ==
    /\ Gate(p, c) /\ c \notin busy[p]
    /\ copy[p].state = "OPEN" /\ copy[p].cool
    /\ Becomes(p, [copy[p] EXCEPT !.state = "HALF_OPEN"])
    /\ busy' = [busy EXCEPT ![p] = @ \cup {c}]
    /\ UNCHANGED <<hydration, answer>>

\* pos-fiscal-retry-sweep asks as well, and has no answer to report.
Ask(p) ==
    /\ copy[p].state = "OPEN" /\ copy[p].cool
    /\ Becomes(p, [copy[p] EXCEPT !.state = "HALF_OPEN"])
    /\ UNCHANGED <<busy, hydration, answer>>

Cool(p) ==
    /\ ~copy[p].cool
    /\ copy' = [copy EXCEPT ![p].cool = TRUE]
    /\ UNCHANGED <<busy, redis, hydration, answer>>

-----------------------------------------------------------------------------
(* withServiceCall: what becomes of a call *)

Over(p, c) == c \in busy[p] /\ busy' = [busy EXCEPT ![p] = @ \ {c}]

ClosesOnly(p) == [copy[p] EXCEPT !.state = "CLOSED"]        \* mutant
Recovered(p) == Fresh

\* A late success closes an open breaker as well.
Success(p, c) == Over(p, c) /\ Becomes(p, Recovered(p)) /\ UNCHANGED <<hydration, answer>>

Counted(p) == IF copy[p].failures < Threshold THEN copy[p].failures + 1 ELSE Threshold

\* The count survives the trip: the first failure of a probe opens it again.
Failure(p, c) ==
    /\ Over(p, c)
    /\ LET n == Counted(p)
       IN Becomes(p, IF n >= Threshold THEN [state |-> "OPEN", failures |-> n, cool |-> FALSE]
                     ELSE [copy[p] EXCEPT !.failures = n])
    /\ UNCHANGED <<hydration, answer>>

\* 429, flood wait: neither a success nor a failure
RateLimited(p, c) == Over(p, c) /\ UNCHANGED <<copy, redis, hydration, answer>>

-----------------------------------------------------------------------------
(* A new process, and the mirror *)

Restart(p) ==
    /\ copy' = [copy EXCEPT ![p] = Fresh]
    /\ busy' = [busy EXCEPT ![p] = {}]
    /\ hydration' = [hydration EXCEPT ![p] = "asked"]
    /\ answer' = [answer EXCEPT ![p] = {}]
    /\ UNCHANGED redis

\* Redis answers hgetall ...
Fetch(p) ==
    /\ hydration[p] = "asked"
    /\ hydration' = [hydration EXCEPT ![p] = "answered"]
    /\ answer' = [answer EXCEPT ![p] = redis]
    /\ UNCHANGED <<copy, busy, redis>>

\* ... and the answer replaces whatever the first calls have made of the breaker.
\* How long ago an open one was opened is the matter of its own clock.
Hydrate(p) ==
    /\ hydration[p] = "answered"
    /\ \/ answer[p] = {} /\ UNCHANGED copy
       \/ \E c \in answer[p], cool \in BOOLEAN :
             /\ cool \/ c.state = "OPEN"
             /\ copy' = [copy EXCEPT ![p] =
                           [state |-> c.state, failures |-> c.failures, cool |-> cool]]
    /\ hydration' = [hydration EXCEPT ![p] = "done"]
    /\ answer' = [answer EXCEPT ![p] = {}]
    /\ UNCHANGED <<busy, redis>>

\* After ten minutes without a change
Expire == redis # {} /\ redis' = {} /\ UNCHANGED <<copy, busy, hydration, answer>>

-----------------------------------------------------------------------------
Answer(p, c) == Success(p, c) \/ Failure(p, c) \/ RateLimited(p, c)

Next ==
    \/ Expire
    \/ \E p \in Processes :
          \/ Cool(p) \/ Ask(p) \/ Restart(p) \/ Fetch(p) \/ Hydrate(p)
          \/ \E c \in Calls : Admit(p, c) \/ Probe(p, c) \/ Answer(p, c)

\* A call has a timeout; time passes; callers that do not look first come back.
Fairness ==
    \A p \in Processes :
        /\ WF_vars(Cool(p))
        /\ \A c \in Calls : WF_vars(Answer(p, c)) /\ WF_vars(Probe(p, c))

Spec == Init /\ [][Next]_vars
FairSpec == Spec /\ Fairness

-----------------------------------------------------------------------------
(* Properties *)

TypeOK ==
    /\ copy \in [Processes -> Copies]
    /\ busy \in [Processes -> SUBSET Calls]
    /\ redis \subseteq Mirrors
    /\ hydration \in [Processes -> {"asked", "answered", "done"}]
    /\ answer \in [Processes -> SUBSET Mirrors]

\* What makes the first failure of a probe open the breaker again, at once and
\* in any process: a breaker is closed exactly while it has counted fewer than
\* Threshold failures since the last success, through late answers, through
\* half-open breakers that let everybody pass, through restarts and through
\* copies that others wrote.
TrippedWhenCounted(c) == c.state = "CLOSED" <=> c.failures < Threshold
TrippedIffCounted == \A p \in Processes : TrippedWhenCounted(copy[p])

IInv ==
    /\ TypeOK
    /\ TrippedIffCounted
    /\ \A c \in redis : TrippedWhenCounted(c)
    /\ \A p \in Processes : \A c \in answer[p] : TrippedWhenCounted(c)

\* A failure that is answered while the breaker is open or half open leaves it
\* open, with its cooldown started anew, however many others are under way and
\* whoever wrote the copy it is counted into.
FailureReopens ==
    [][\A p \in Processes, c \in Calls :
          copy[p].state # "CLOSED" /\ Failure(p, c) =>
              copy'[p].state = "OPEN" /\ ~copy'[p].cool]_vars

\* A breaker does not stay open for ever: the failures of calls that were under
\* way start the cooldown anew, but there are only so many of them.  It takes a
\* caller that asks allow(): those that turn away on getState() = 'OPEN' never
\* let the breaker try.
OpenIsProbed ==
    \A p \in Processes : copy[p].state = "OPEN" ~> copy[p].state # "OPEN"
=============================================================================
