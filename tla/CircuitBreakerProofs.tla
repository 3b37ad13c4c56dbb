------------------------- MODULE CircuitBreakerProofs -------------------------
(***************************************************************************)
(* The safety of CircuitBreaker for every set of processes and callers and *)
(* for every threshold.                                                    *)
(***************************************************************************)
EXTENDS CircuitBreaker, TLAPS

\* A closed breaker without failures, and one that has counted its last: both
\* agree with their count.
LEMMA CopiesThatAgree ==
    /\ Fresh \in Copies /\ TrippedWhenCounted(Fresh)
    /\ \A c \in Copies : /\ Mirror(c) \in Mirrors
                         /\ TrippedWhenCounted(c) => TrippedWhenCounted(Mirror(c))
  BY BreakerAssumption DEF Fresh, Copies, Mirrors, Mirror, States, TrippedWhenCounted

\* Whatever a step makes of a breaker it makes of its mirror, or the mirror stays.
LEMMA BecomingKeeps ==
    ASSUME IInv, NEW p \in Processes, NEW c \in Copies, TrippedWhenCounted(c),
           Becomes(p, c), busy' \in [Processes -> SUBSET Calls],
           UNCHANGED <<hydration, answer>>
    PROVE  IInv'
<1>1. /\ copy' \in [Processes -> Copies]
      /\ \A q \in Processes : TrippedWhenCounted(copy'[q])
  BY DEF IInv, TypeOK, TrippedIffCounted, Becomes
<1>2. /\ redis' \subseteq Mirrors
      /\ \A r \in redis' : TrippedWhenCounted(r)
  BY CopiesThatAgree DEF IInv, TypeOK, Becomes
<1>. QED  BY <1>1, <1>2 DEF IInv, TypeOK, TrippedIffCounted, TrippedWhenCounted

\* The same with nothing written.
LEMMA CopyKeeps ==
    ASSUME IInv, NEW p \in Processes, NEW c \in Copies, TrippedWhenCounted(c),
           copy' = [copy EXCEPT ![p] = c]
    PROVE  copy' \in [Processes -> Copies] /\ TrippedIffCounted'
  BY DEF IInv, TypeOK, TrippedIffCounted, TrippedWhenCounted

\* The breaker agrees with its count after every call, every answer, every
\* restart and every copy read from Redis: IInv is inductive.
THEOREM BreakerInvariance == Spec => []IInv
<1>1. Init => IInv
  BY CopiesThatAgree DEF Init, IInv, TypeOK, TrippedIffCounted
<1>2. IInv /\ [Next]_vars => IInv'
  <2>. SUFFICES ASSUME IInv, [Next]_vars PROVE IInv'
    OBVIOUS
  <2>1. CASE UNCHANGED vars
    BY <2>1 DEF vars, IInv, TypeOK, TrippedIffCounted, TrippedWhenCounted
  <2>2. CASE Expire
    BY <2>2 DEF Expire, IInv, TypeOK, TrippedIffCounted, TrippedWhenCounted
  <2>3. ASSUME NEW p \in Processes PROVE copy[p] \in Copies /\ TrippedWhenCounted(copy[p])
    BY DEF IInv, TypeOK, TrippedIffCounted
  <2>4. ASSUME NEW p \in Processes, Cool(p) PROVE IInv'
    <3>. DEFINE c == [copy[p] EXCEPT !.cool = TRUE]
    <3>1. c \in Copies /\ TrippedWhenCounted(c)
      BY <2>3 DEF Copies, TrippedWhenCounted
    <3>2. copy' = [copy EXCEPT ![p] = c]
      BY <2>4 DEF Cool, IInv, TypeOK
    <3>3. copy' \in [Processes -> Copies] /\ TrippedIffCounted'
      BY <3>1, <3>2, CopyKeeps
    <3>. QED  BY <2>4, <3>3 DEF Cool, IInv, TypeOK, TrippedWhenCounted
  <2>5. ASSUME NEW p \in Processes, copy[p].state = "OPEN"
        PROVE  LET c == [copy[p] EXCEPT !.state = "HALF_OPEN"]
               IN c \in Copies /\ TrippedWhenCounted(c)
    BY <2>3, <2>5 DEF Copies, States, TrippedWhenCounted
  <2>6. ASSUME NEW p \in Processes, Ask(p) PROVE IInv'
    BY <2>5, <2>6, BecomingKeeps DEF Ask, IInv, TypeOK
  <2>7. ASSUME NEW p \in Processes, Restart(p) PROVE IInv'
    <3>1. copy' \in [Processes -> Copies] /\ TrippedIffCounted'
      BY <2>7, CopyKeeps, CopiesThatAgree DEF Restart
    <3>. QED  BY <2>7, <3>1 DEF Restart, IInv, TypeOK, TrippedWhenCounted
  <2>8. ASSUME NEW p \in Processes, Fetch(p) PROVE IInv'
    BY <2>8 DEF Fetch, IInv, TypeOK, TrippedIffCounted, TrippedWhenCounted
  <2>9. ASSUME NEW p \in Processes, Hydrate(p) PROVE IInv'
    <3>1. copy' \in [Processes -> Copies] /\ TrippedIffCounted'
      <4>1. CASE answer[p] = {} /\ UNCHANGED copy
        BY <4>1 DEF IInv, TypeOK, TrippedIffCounted, TrippedWhenCounted
      <4>2. ASSUME NEW r \in answer[p], NEW cool \in BOOLEAN,
                   copy' = [copy EXCEPT ![p] =
                               [state |-> r.state, failures |-> r.failures, cool |-> cool]]
            PROVE  copy' \in [Processes -> Copies] /\ TrippedIffCounted'
        <5>. DEFINE c == [state |-> r.state, failures |-> r.failures, cool |-> cool]
        <5>1. r \in Mirrors /\ TrippedWhenCounted(r)
          BY DEF IInv, TypeOK
        <5>2. c \in Copies /\ TrippedWhenCounted(c)
          BY <5>1 DEF Copies, Mirrors, TrippedWhenCounted
        <5>. QED  BY <4>2, <5>2, CopyKeeps
      <4>. QED  BY <2>9, <4>1, <4>2 DEF Hydrate
    <3>2. /\ answer' \in [Processes -> SUBSET Mirrors]
          /\ hydration' \in [Processes -> {"asked", "answered", "done"}]
          /\ \A q \in Processes : \A r \in answer'[q] : r \in answer[q]
      BY <2>9 DEF Hydrate, IInv, TypeOK
    <3>. QED  BY <2>9, <3>1, <3>2 DEF Hydrate, IInv, TypeOK, TrippedWhenCounted
  <2>10. ASSUME NEW p \in Processes, NEW k \in Calls, Admit(p, k) PROVE IInv'
    BY <2>10 DEF Admit, IInv, TypeOK, TrippedIffCounted, TrippedWhenCounted
  <2>11. ASSUME NEW p \in Processes, NEW k \in Calls, Probe(p, k) PROVE IInv'
    <3>1. busy' \in [Processes -> SUBSET Calls]
      BY <2>11 DEF Probe, IInv, TypeOK
    <3>. QED  BY <2>5, <2>11, <3>1, BecomingKeeps DEF Probe
  <2>12. ASSUME NEW p \in Processes, NEW k \in Calls, Over(p, k)
         PROVE  busy' \in [Processes -> SUBSET Calls]
    BY <2>12 DEF Over, IInv, TypeOK
  <2>13. ASSUME NEW p \in Processes, NEW k \in Calls, Success(p, k) PROVE IInv'
    BY <2>12, <2>13, BecomingKeeps, CopiesThatAgree DEF Success, Recovered
  <2>14. ASSUME NEW p \in Processes, NEW k \in Calls, Failure(p, k) PROVE IInv'
    <3>. DEFINE n == Counted(p)
                c == IF n >= Threshold THEN [state |-> "OPEN", failures |-> n, cool |-> FALSE]
                     ELSE [copy[p] EXCEPT !.failures = n]
    <3>1. /\ copy[p].failures \in 0..Threshold /\ copy[p].state \in States
          /\ copy[p].cool \in BOOLEAN
          /\ copy[p] = [state |-> copy[p].state, failures |-> copy[p].failures,
                         cool |-> copy[p].cool]
      BY <2>3 DEF Copies
    <3>2. n \in 1..Threshold /\ Threshold \in Nat
      BY <3>1, BreakerAssumption DEF Counted
    <3>3. c \in Copies /\ TrippedWhenCounted(c)
      <4>1. CASE n >= Threshold
        <5>. HIDE DEF n
        <5>. QED  BY <3>2, <4>1 DEF Copies, States, TrippedWhenCounted
      <4>2. CASE ~(n >= Threshold)
        <5>1. copy[p].failures < Threshold
          BY <3>1, <3>2, <4>2 DEF Counted
        <5>2. copy[p].state = "CLOSED"
          BY <2>3, <5>1 DEF TrippedWhenCounted
        <5>3. c = [state |-> copy[p].state, failures |-> n, cool |-> copy[p].cool]
          BY <3>1, <4>2
        <5>. HIDE DEF n
        <5>. QED  BY <3>1, <3>2, <4>2, <5>2, <5>3 DEF Copies, TrippedWhenCounted
      <4>. QED  BY <4>1, <4>2
    <3>4. UNCHANGED <<hydration, answer>> /\ Becomes(p, c)
      BY <2>14 DEF Failure
    <3>. HIDE DEF c
    <3>. QED  BY <2>12, <2>14, <3>3, <3>4, BecomingKeeps DEF Failure
  <2>15. ASSUME NEW p \in Processes, NEW k \in Calls, RateLimited(p, k) PROVE IInv'
    BY <2>12, <2>15 DEF RateLimited, IInv, TypeOK, TrippedIffCounted, TrippedWhenCounted
  <2>. QED  BY <2>1, <2>2, <2>4, <2>6, <2>7, <2>8, <2>9, <2>10, <2>11, <2>13, <2>14, <2>15
           DEF Next, Answer
<1>. QED  BY <1>1, <1>2, PTL DEF Spec

\* A breaker that is not closed has counted Threshold failures, whoever else
\* wrote it: the first failure of its probe opens it again.
THEOREM CountDecides == Spec => []TrippedIffCounted
<1>1. IInv => TrippedIffCounted
  BY DEF IInv
<1>. QED  BY <1>1, BreakerInvariance, PTL

\* One call that fails says enough of a breaker that is not closed: its count has
\* been at the threshold ever since it opened, also in the copies of processes
\* that took it over from Redis.
THEOREM OneFailureReopens == Spec => FailureReopens
<1>. DEFINE Reopens ==
        \A p \in Processes, c \in Calls :
            copy[p].state # "CLOSED" /\ Failure(p, c) =>
                copy'[p].state = "OPEN" /\ ~copy'[p].cool
<1>1. ASSUME IInv, NEW p \in Processes, NEW c \in Calls,
             copy[p].state # "CLOSED", Failure(p, c)
      PROVE  copy'[p].state = "OPEN" /\ ~copy'[p].cool
  <2>1. copy \in [Processes -> Copies] /\ copy[p].failures \in 0..Threshold
        /\ ~(copy[p].failures < Threshold)
    BY <1>1 DEF IInv, TypeOK, TrippedIffCounted, TrippedWhenCounted, Copies
  <2>2. Counted(p) = Threshold /\ Threshold >= Threshold
    BY <2>1, BreakerAssumption DEF Counted
  <2>3. copy' = [copy EXCEPT ![p] = [state |-> "OPEN", failures |-> Counted(p), cool |-> FALSE]]
    BY <1>1, <2>2 DEF Failure, Becomes
  <2>. QED  BY <2>1, <2>3
<1>2. IInv /\ [Next]_vars => [Reopens]_vars
  BY <1>1
<1>3. [][Reopens]_vars <=> FailureReopens
  BY DEF FailureReopens
<1>. QED  BY <1>2, <1>3, BreakerInvariance, PTL DEF Spec
=============================================================================
