--------------------------- MODULE SchedulerLeader ---------------------------
(***************************************************************************)
(* services/scheduler-leader.ts: every backend process stands for leader   *)
(* by pg_try_advisory_lock on a session of its own; the leader runs the    *)
(* schedulers and sends a heartbeat on that session, the others try again  *)
(* every thirty seconds and terminate a holder whose session was silent    *)
(* for two minutes.                                                        *)
(*                                                                         *)
(* The lock belongs to a session, the leadership to a process: either may  *)
(* end without the other knowing.  What a leader starts and what it stops  *)
(* differ too: a monolith (server.ts) starts the broadcast dispatchers     *)
(* with its schedulers and stops them only by exiting.                     *)
(***************************************************************************)
EXTENDS Naturals

CONSTANTS
    Processes,      \* the processes that stand for leader
    Monoliths,      \* those of server.ts; the others are scheduler.ts
    Nobody,         \* the holder of a free lock
    Stray,          \* the holder is a session that no process knows of any more
    TryCap,         \* bound: attempts of one process under way at once
    FaultCap        \* bound: broken sessions, failed queries, dead or stopped processes

ASSUME LeaderAssumption ==
    /\ Monoliths \subseteq Processes
    /\ Nobody \notin Processes /\ Stray \notin Processes /\ Nobody # Stray
    /\ TryCap \in Nat \ {0} /\ FaultCap \in Nat

VARIABLES
    holder,         \* whose session has the advisory lock in PostgreSQL
    silent,         \* the holder's session was idle for more than 120 s
    pc,             \* "down", "up", "stopping": not unlocked yet, "leaving": unlocked
    leads,          \* isLeader
    runs,           \* the schedulers are started
    dispatches,     \* the 30 s timers of the broadcast dispatchers are started
    retry,          \* retryTimer is armed
    booting,        \* initLeaderElection still awaits its first attempt
    tries,          \* calls of tryAcquire under way
    orphaned,       \* history: leaders whose session ended under them
    demoted,        \* history: who lost the leadership and still dispatches
    faults

lock  == <<holder, silent>>
work  == <<runs, dispatches, demoted>>
stand == <<retry, booting, tries>>
vars  == <<lock, pc, leads, work, stand, orphaned, faults>>

Init ==
    /\ holder = Nobody
    /\ silent = FALSE
    /\ pc = [p \in Processes |-> "down"]
    /\ leads = {} /\ runs = {} /\ dispatches = {}
    /\ retry = {} /\ booting = {}
    /\ tries = [p \in Processes |-> 0]
    /\ orphaned = {} /\ demoted = {}
    /\ faults = 0

Fault == faults < FaultCap /\ faults' = faults + 1

NoHolder == holder' = Nobody /\ silent' = FALSE
\* The session of the lock ends: its leader is not told.
SessionEnds == NoHolder /\ orphaned' = orphaned \cup ({holder} \cap leads)
\* The session of p ends, and the lock with it if it has the lock ...
Released(p) == IF holder = p THEN NoHolder ELSE UNCHANGED lock
\* ... or outlives its process in the database.
Strays(p) == holder = p /\ holder' = Stray /\ UNCHANGED silent

-----------------------------------------------------------------------------
(* tryAcquire *)

\* initLeaderElection awaits a first attempt, and arms the timer afterwards.
Boot(p) ==
    /\ pc[p] = "down"
    /\ pc' = [pc EXCEPT ![p] = "up"]
    /\ booting' = booting \cup {p}
    /\ tries' = [tries EXCEPT ![p] = 1]
    /\ UNCHANGED <<lock, leads, work, retry, orphaned, faults>>

\* The interval asks only for isLeader: a slow attempt is overtaken by the next.
Tick(p) ==
    /\ p \in retry /\ p \notin leads /\ tries[p] < TryCap
    /\ tries' = [tries EXCEPT ![p] = @ + 1]
    /\ UNCHANGED <<lock, pc, leads, work, retry, booting, orphaned, faults>>

\* An attempt is over, whatever it came to.
Finish(p) ==
    /\ tries[p] > 0
    /\ tries' = [tries EXCEPT ![p] = @ - 1]
    /\ booting' = booting \ {p}
    /\ retry' = IF p \in booting THEN retry \cup {p} ELSE retry

WithoutLock == TRUE                     \* mutant
LockIsFree == holder = Nobody

\* onBecomeLeader; also of a leader whose session ended during a slow attempt,
\* which then has a session with the lock again
Acquire(p) ==
    /\ LockIsFree
    /\ Finish(p)
    /\ holder' = p /\ silent' = FALSE
    /\ leads' = leads \cup {p} /\ runs' = runs \cup {p}
    /\ dispatches' = dispatches \cup ({p} \cap Monoliths)
    /\ orphaned' = orphaned \ {p} /\ demoted' = demoted \ {p}
    /\ UNCHANGED <<pc, faults>>

NeverStale == FALSE                     \* mutant
Stale == silent

\* Somebody else has the lock: a stale session is terminated, and its process
\* is not told.
Refused(p) ==
    /\ holder # Nobody
    /\ Finish(p)
    /\ IF Stale THEN SessionEnds ELSE UNCHANGED <<lock, orphaned>>
    /\ UNCHANGED <<pc, leads, work, faults>>

\* pool.connect or a query throws. The client is not released: if only the
\* answer was lost, its session has the lock from now on.
AttemptFails(p) ==
    /\ Finish(p) /\ Fault
    /\ UNCHANGED lock \/ (LockIsFree /\ holder' = Stray /\ silent' = FALSE)
    /\ UNCHANGED <<pc, leads, work, orphaned>>

-----------------------------------------------------------------------------
(* The leader *)

\* Two minutes without a heartbeat that the database has seen
FallSilent ==
    /\ holder \in Processes /\ ~silent
    /\ silent' = TRUE
    /\ Fault
    /\ UNCHANGED <<holder, pc, leads, work, stand, orphaned>>

Heartbeat(p) ==
    /\ p \in leads /\ holder = p /\ silent
    /\ silent' = FALSE
    /\ UNCHANGED <<holder, pc, leads, work, stand, orphaned, faults>>

\* The database or the network ends the lock's session.
SessionBreaks ==
    /\ holder # Nobody
    /\ SessionEnds /\ Fault
    /\ UNCHANGED <<pc, leads, work, stand>>

\* The unlock is sent and not insisted upon: it may never arrive.
GivesBack(p) == Released(p) \/ Strays(p)

KeepsTheSchedulers(p) == UNCHANGED runs                     \* mutant
\* onLoseLeadership stops all that onBecomeLeader starts; onLoseLeadershipMonolith
\* stops the schedulers and leaves the queue workers, the broadcast workers with
\* their dispatchers among them
StopsSchedulers(p) == runs' = runs \ {p}

\* A failed heartbeat or the client's error event: both timers are cleared, and
\* nothing arms the retry timer again.
LoseLeadership(p) ==
    /\ p \in leads
    /\ leads' = leads \ {p} /\ StopsSchedulers(p)
    /\ retry' = retry \ {p}
    /\ orphaned' = orphaned \ {p}
    /\ demoted' = demoted \cup ({p} \cap dispatches)
    /\ GivesBack(p)
    /\ UNCHANGED <<pc, dispatches, booting, tries>>

SessionIsGone(p) == p \in leads /\ holder # p /\ LoseLeadership(p) /\ UNCHANGED faults
\* ... or an error event of a client that an overlapping attempt has replaced
HeartbeatFails(p) == holder = p /\ LoseLeadership(p) /\ Fault

-----------------------------------------------------------------------------
(* Processes stop and die. *)

\* stopLeaderElection. An attempt that is under way may still win.
HandsOver(p) ==
    /\ pc' = [pc EXCEPT ![p] = "leaving"]
    /\ leads' = leads \ {p} /\ retry' = retry \ {p} /\ orphaned' = orphaned \ {p}
    /\ GivesBack(p)
    /\ UNCHANGED <<work, booting, tries>>

\* gracefulCleanup of server.ts stops the schedulers first, and neither timer of
\* the election; cleanup of scheduler.ts unlocks first.
BeginStop(p) ==
    /\ pc[p] = "up" /\ Fault
    /\ IF p \in Monoliths
       THEN /\ pc' = [pc EXCEPT ![p] = "stopping"]
            /\ StopsSchedulers(p)
            /\ UNCHANGED <<lock, leads, dispatches, demoted, stand, orphaned>>
       ELSE HandsOver(p)

HandOver(p) == pc[p] = "stopping" /\ HandsOver(p) /\ UNCHANGED faults

\* Nothing of a process outlives it but, perhaps, its session.
Gone(p) ==
    /\ pc' = [pc EXCEPT ![p] = "down"]
    /\ leads' = leads \ {p} /\ retry' = retry \ {p} /\ booting' = booting \ {p}
    /\ runs' = runs \ {p} /\ dispatches' = dispatches \ {p}
    /\ tries' = [tries EXCEPT ![p] = 0]
    /\ orphaned' = orphaned \ {p} /\ demoted' = demoted \ {p}

\* The rest of the shutdown, or its time limit. The schedulers of scheduler.ts,
\* and the dispatchers of server.ts, have run until now.
Exit(p) ==
    /\ pc[p] \in {"stopping", "leaving"}
    /\ Gone(p) /\ Released(p)
    /\ UNCHANGED faults

\* The host dies: PostgreSQL notices at once, or keeps the session open.
Die(p) == pc[p] # "down" /\ Fault /\ Gone(p) /\ GivesBack(p)

\* A session nobody uses any more turns stale by itself.
Ripen ==
    /\ holder = Stray /\ ~silent
    /\ silent' = TRUE
    /\ UNCHANGED <<holder, pc, leads, work, stand, orphaned, faults>>

-----------------------------------------------------------------------------
Step(p) ==
    \/ Boot(p) \/ Tick(p) \/ Acquire(p) \/ Refused(p) \/ AttemptFails(p)
    \/ Heartbeat(p) \/ SessionIsGone(p) \/ HeartbeatFails(p)
    \/ BeginStop(p) \/ HandOver(p) \/ Exit(p) \/ Die(p)

Next == \/ \E p \in Processes : Step(p)
        \/ FallSilent \/ SessionBreaks \/ Ripen

\* Timers fire, queries end, and the heartbeat of a dead session fails; whether a
\* process that went down is started again is nobody's promise.
Fairness ==
    /\ WF_vars(Ripen)
    /\ \A p \in Processes :
          /\ WF_vars(Tick(p)) /\ WF_vars(Acquire(p) \/ Refused(p))
          /\ WF_vars(SessionIsGone(p)) /\ WF_vars(Exit(p))

Spec == Init /\ [][Next]_vars
FairSpec == Spec /\ Fairness

-----------------------------------------------------------------------------
(* Properties *)

TypeOK ==
    /\ holder \in Processes \cup {Nobody, Stray}
    /\ silent \in BOOLEAN
    /\ pc \in [Processes -> {"down", "up", "stopping", "leaving"}]
    /\ leads \subseteq Processes /\ runs \subseteq Processes
    /\ dispatches \subseteq Monoliths
    /\ retry \subseteq Processes /\ booting \subseteq Processes
    /\ tries \in [Processes -> 0..TryCap]
    /\ orphaned \subseteq leads /\ demoted \subseteq dispatches
    /\ faults \in Nat

\* A process that stands for leader, runs something or tries is there.
TheDeadDoNothing ==
    \A p \in Processes :
        pc[p] = "down" =>
            /\ p \notin leads \cup runs \cup dispatches \cup retry \cup booting
            /\ tries[p] = 0

\* The lock is with a leader, with nobody, or with a stray session.
HoldersLead == holder \in Processes => holder \in leads

\* Orphaned are exactly the leaders whose session has not got the lock: one of
\* them comes by the lock again only by an attempt that finds it free, never
\* because another holder lost it, so that until then the heartbeat fails.
OrphansLackTheLock == \A p \in leads : p \in orphaned <=> holder # p

\* Schedulers run under a leader or in a process that is about to exit; the
\* dispatchers also in a process that has lost the leadership.
Leaving(p) == pc[p] = "leaving"
RunnersAreExplained == \A p \in runs : p \in leads \/ Leaving(p)
DispatchersAreExplained == \A p \in dispatches : p \in leads \cup demoted \/ Leaving(p)

\* "Only one instance (leader) runs schedulers" (header of scheduler-leader.ts):
\* what the code gives is that a second one runs them only while its heartbeat
\* has not yet told it that its session ended, or in the rest of a shutdown
\* after the unlock.  The broadcast dispatchers, which loseLeadership does not
\* stop, may besides run in any monolith that once lost the leadership.
SchedulersRunOnce ==
    /\ \A p, q \in runs : p # q => \E x \in {p, q} : x \in orphaned \/ Leaving(x)
    /\ \A p, q \in dispatches :
          p # q => \E x \in {p, q} : x \in orphaned \cup demoted \/ Leaving(x)

IInv ==
    /\ TypeOK /\ TheDeadDoNothing
    /\ HoldersLead /\ OrphansLackTheLock
    /\ RunnersAreExplained /\ DispatchersAreExplained

\* Whatever became of the last leader, a process whose retry timer is armed is
\* not left standing while nobody leads: a free lock is taken, and a session
\* that outlived its process is found stale and terminated.  (Nothing is
\* promised when nobody stands, which is the case once every process has lost
\* the leadership once: see LoseLeadership.)
LeadershipPassesOn ==
    \A p \in Processes : p \in retry ~> p \notin retry \/ holder \in leads

\* A leader whose session ended under it stops its schedulers in the end, or
\* has the lock again.  (Not its dispatchers: see StopsSchedulers.)
OrphanStepsDown ==
    \A p \in Processes : p \in orphaned ~> p \notin runs \/ holder = p
=============================================================================
