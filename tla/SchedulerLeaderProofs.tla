------------------------ MODULE SchedulerLeaderProofs ------------------------
(***************************************************************************)
(* Mutual exclusion of the schedulers and of the dispatchers, and exactly  *)
(* where it ends, for every set of backend processes.                      *)
(***************************************************************************)
EXTENDS SchedulerLeader, TLAPS

\* How the lock may change hands in a step of the process that has it: that
\* process is not the holder afterwards, and nobody else's lock is touched.
LEMMA LockSteps ==
    ASSUME TypeOK, NEW p \in Processes
    PROVE  /\ GivesBack(p) => /\ holder' \in Processes \cup {Nobody, Stray}
                              /\ silent' \in BOOLEAN
                              /\ holder' # p
                              /\ \A q \in Processes \ {p} : holder' = q <=> holder = q
           /\ Released(p) => GivesBack(p)
  BY LeaderAssumption DEF TypeOK, GivesBack, Released, Strays, NoHolder, lock

\* A leader whose session ends is told of nothing, and remembered.
LEMMA SessionSteps ==
    ASSUME TypeOK, SessionEnds
    PROVE  /\ holder' = Nobody /\ silent' = FALSE
           /\ orphaned' = orphaned \cup ({holder} \cap leads)
  BY DEF NoHolder, SessionEnds

\* A step that leaves the lock and every process's part in the election alone.
LEMMA NothingMoves ==
    ASSUME IInv, UNCHANGED <<holder, leads, orphaned, pc, work, retry, booting>>,
           silent' \in BOOLEAN, faults' \in Nat,
           tries' \in [Processes -> 0..TryCap],
           \A q \in Processes : pc[q] = "down" => tries'[q] = tries[q]
    PROVE  IInv'
  BY DEF IInv, TypeOK, TheDeadDoNothing, HoldersLead, OrphansLackTheLock,
         RunnersAreExplained, DispatchersAreExplained, Leaving, work

\* A process that turns its back on the leadership leaves the others as they are.
LEMMA SteppingDownKeeps ==
    ASSUME IInv, NEW p \in Processes,
           leads' = leads \ {p}, orphaned' = orphaned \ {p}, retry' = retry \ {p},
           GivesBack(p), faults' \in Nat
    PROVE  /\ HoldersLead' /\ OrphansLackTheLock'
           /\ leads' \subseteq Processes /\ orphaned' \subseteq leads'
           /\ retry' \subseteq Processes
           /\ holder' \in Processes \cup {Nobody, Stray} /\ silent' \in BOOLEAN
  BY LockSteps DEF IInv, TypeOK, HoldersLead, OrphansLackTheLock

\* The lock's session ends under its leader, if it has one.
LEMMA SessionEndKeeps ==
    ASSUME IInv, SessionEnds, UNCHANGED leads
    PROVE  HoldersLead' /\ OrphansLackTheLock'
<1>1. holder' = Nobody /\ orphaned' = orphaned \cup ({holder} \cap leads)
  BY SessionSteps DEF IInv
<1>2. \A q \in leads : q # Nobody
  BY LeaderAssumption DEF IInv, TypeOK
<1>. QED  BY <1>1, <1>2, LeaderAssumption DEF IInv, HoldersLead, OrphansLackTheLock

\* The end of an attempt touches only the timer and the count of its process.
LEMMA FinishKeeps ==
    ASSUME IInv, NEW p \in Processes, Finish(p)
    PROVE  /\ tries' \in [Processes -> 0..TryCap]
           /\ pc[p] # "down"
           /\ \A q \in Processes \ {p} : tries'[q] = tries[q]
           /\ retry' \subseteq retry \cup {p} /\ retry' \subseteq Processes
           /\ booting' = booting \ {p}
<1>1. tries[p] \in 0..TryCap /\ tries[p] > 0 /\ tries' = [tries EXCEPT ![p] = @ - 1]
  BY DEF Finish, IInv, TypeOK
<1>2. tries[p] - 1 \in 0..TryCap
  BY <1>1, LeaderAssumption
<1>3. pc[p] # "down"
  BY <1>1 DEF IInv, TheDeadDoNothing
<1>. QED  BY <1>1, <1>2, <1>3 DEF Finish, IInv, TypeOK

\* The lock is with a leader or with no process, orphans are the leaders without
\* it, and whatever runs is explained: IInv is inductive.
THEOREM LeaderInvariance == Spec => []IInv
<1>1. Init => IInv
  <2>. SUFFICES ASSUME Init PROVE IInv
    OBVIOUS
  <2>1. TypeOK
    <3>1. 0 \in 0..TryCap
      BY LeaderAssumption
    <3>. QED  BY <3>1 DEF Init, TypeOK
  <2>2. TheDeadDoNothing
    BY DEF Init, TheDeadDoNothing
  <2>3. HoldersLead /\ OrphansLackTheLock /\ RunnersAreExplained /\ DispatchersAreExplained
    BY LeaderAssumption
       DEF Init, HoldersLead, OrphansLackTheLock, RunnersAreExplained, DispatchersAreExplained
  <2>. QED  BY <2>1, <2>2, <2>3 DEF IInv
<1>2. IInv /\ [Next]_vars => IInv'
  <2>. SUFFICES ASSUME IInv, [Next]_vars PROVE IInv'
    OBVIOUS
  <2>1. CASE UNCHANGED vars
    BY <2>1, NothingMoves DEF vars, lock, work, stand, IInv, TypeOK
  <2>2. ASSUME NEW p \in Processes, Boot(p) PROVE IInv'
    <3>1. /\ pc' = [pc EXCEPT ![p] = "up"] /\ tries' = [tries EXCEPT ![p] = 1]
          /\ booting' = booting \cup {p} /\ pc[p] = "down"
          /\ UNCHANGED <<holder, silent, leads, runs, dispatches, demoted, retry, orphaned, faults>>
      BY <2>2 DEF Boot, lock, work
    <3>2. p \notin leads /\ p \notin runs /\ p \notin dispatches
      BY <3>1 DEF IInv, TheDeadDoNothing
    <3>3. 1 \in 0..TryCap
      BY LeaderAssumption
    <3>. QED  BY <3>1, <3>2, <3>3
              DEF IInv, TypeOK, TheDeadDoNothing, HoldersLead, OrphansLackTheLock,
                  RunnersAreExplained, DispatchersAreExplained, Leaving
  <2>3. ASSUME NEW p \in Processes, Tick(p) PROVE IInv'
    <3>1. tries[p] + 1 \in 0..TryCap
      BY <2>3, LeaderAssumption DEF Tick, IInv, TypeOK
    <3>2. pc[p] # "down"
      BY <2>3 DEF Tick, IInv, TheDeadDoNothing
    <3>. QED  BY <2>3, <3>1, <3>2, NothingMoves DEF Tick, lock, work, IInv, TypeOK
  <2>4. ASSUME NEW p \in Processes, Acquire(p) PROVE IInv'
    <3>1. /\ leads' = leads \cup {p} /\ runs' = runs \cup {p}
          /\ dispatches' = dispatches \cup ({p} \cap Monoliths)
          /\ orphaned' = orphaned \ {p} /\ demoted' = demoted \ {p}
          /\ pc' = pc /\ faults' = faults
          /\ holder = Nobody /\ holder' = p /\ silent' = FALSE /\ Finish(p)
      BY <2>4 DEF Acquire, LockIsFree
    <3>2. TypeOK'
      BY <3>1, FinishKeeps DEF IInv, TypeOK
    <3>3. TheDeadDoNothing'
      BY <3>1, FinishKeeps DEF IInv, TheDeadDoNothing
    <3>4. \A q \in leads : q \in orphaned
      BY <3>1, LeaderAssumption DEF IInv, TypeOK, OrphansLackTheLock
    <3>5. HoldersLead' /\ OrphansLackTheLock'
      BY <3>1, <3>4 DEF HoldersLead, OrphansLackTheLock
    <3>6. RunnersAreExplained' /\ DispatchersAreExplained'
      BY <3>1 DEF IInv, TypeOK, RunnersAreExplained, DispatchersAreExplained, Leaving
    <3>. QED  BY <3>2, <3>3, <3>5, <3>6 DEF IInv
  <2>5. ASSUME NEW p \in Processes, Refused(p) PROVE IInv'
    <3>1. Finish(p) /\ UNCHANGED <<pc, leads, runs, dispatches, demoted, faults>>
      BY <2>5 DEF Refused, work
    <3>2. SessionEnds \/ UNCHANGED <<holder, silent, orphaned>>
      BY <2>5 DEF Refused, lock
    <3>3. TypeOK'
      BY <3>1, <3>2, FinishKeeps, SessionSteps DEF IInv, TypeOK
    <3>4. TheDeadDoNothing'
      BY <3>1, FinishKeeps DEF IInv, TheDeadDoNothing
    <3>5. HoldersLead' /\ OrphansLackTheLock'
      BY <3>1, <3>2, SessionEndKeeps DEF IInv, HoldersLead, OrphansLackTheLock
    <3>6. RunnersAreExplained' /\ DispatchersAreExplained'
      BY <3>1 DEF IInv, RunnersAreExplained, DispatchersAreExplained, Leaving
    <3>. QED  BY <3>3, <3>4, <3>5, <3>6 DEF IInv
  <2>6. ASSUME NEW p \in Processes, AttemptFails(p) PROVE IInv'
    <3>1. /\ Finish(p) /\ UNCHANGED <<pc, leads, runs, dispatches, demoted, orphaned>>
          /\ faults' \in Nat
      BY <2>6 DEF AttemptFails, Fault, work, IInv, TypeOK
    <3>2. \/ UNCHANGED <<holder, silent>>
          \/ holder = Nobody /\ holder' = Stray /\ silent' = FALSE
      BY <2>6 DEF AttemptFails, LockIsFree, lock
    <3>3. TypeOK'
      BY <3>1, <3>2, FinishKeeps DEF IInv, TypeOK
    <3>4. TheDeadDoNothing'
      BY <3>1, FinishKeeps DEF IInv, TheDeadDoNothing
    <3>5. \A q \in Processes : holder' = q <=> holder = q
      BY <3>2, LeaderAssumption
    <3>6. HoldersLead' /\ OrphansLackTheLock'
      BY <3>1, <3>5 DEF IInv, TypeOK, HoldersLead, OrphansLackTheLock
    <3>7. RunnersAreExplained' /\ DispatchersAreExplained'
      BY <3>1 DEF IInv, RunnersAreExplained, DispatchersAreExplained, Leaving
    <3>. QED  BY <3>3, <3>4, <3>6, <3>7 DEF IInv
  <2>7. ASSUME FallSilent \/ Ripen \/ \E p \in Processes : Heartbeat(p) PROVE IInv'
    <3>1. /\ UNCHANGED <<holder, pc, leads, work, stand, orphaned>>
          /\ silent' \in BOOLEAN /\ faults' \in Nat
      <4>1. CASE FallSilent
        BY <4>1 DEF FallSilent, Fault, IInv, TypeOK
      <4>2. CASE Ripen
        BY <4>2 DEF Ripen, IInv, TypeOK
      <4>3. ASSUME NEW p \in Processes, Heartbeat(p)
            PROVE  /\ UNCHANGED <<holder, pc, leads, work, stand, orphaned, faults>>
                   /\ silent' \in BOOLEAN
        BY <4>3 DEF Heartbeat
      <4>. QED  BY <2>7, <4>1, <4>2, <4>3 DEF IInv, TypeOK
    <3>. QED  BY <3>1, NothingMoves DEF stand, IInv, TypeOK
  <2>8. CASE SessionBreaks
    <3>1. /\ SessionEnds /\ faults' \in Nat
          /\ UNCHANGED <<pc, leads, runs, dispatches, demoted, retry, booting, tries>>
      BY <2>8 DEF SessionBreaks, Fault, work, stand, IInv, TypeOK
    <3>2. TypeOK'
      BY <3>1, SessionSteps DEF IInv, TypeOK
    <3>3. TheDeadDoNothing' /\ RunnersAreExplained' /\ DispatchersAreExplained'
      BY <3>1
         DEF IInv, TheDeadDoNothing, RunnersAreExplained, DispatchersAreExplained, Leaving
    <3>. QED  BY <3>1, <3>2, <3>3, SessionEndKeeps DEF IInv
  <2>9. ASSUME NEW p \in Processes, SessionIsGone(p) \/ HeartbeatFails(p) PROVE IInv'
    <3>1. LoseLeadership(p) /\ faults' \in Nat
      BY <2>9 DEF SessionIsGone, HeartbeatFails, Fault, IInv, TypeOK
    <3>2. /\ leads' = leads \ {p} /\ runs' = runs \ {p} /\ retry' = retry \ {p}
          /\ orphaned' = orphaned \ {p} /\ demoted' = demoted \cup ({p} \cap dispatches)
          /\ GivesBack(p) /\ UNCHANGED <<pc, dispatches, booting, tries>>
      BY <3>1 DEF LoseLeadership, StopsSchedulers
    <3>3. TypeOK' /\ HoldersLead' /\ OrphansLackTheLock'
      BY <3>1, <3>2, SteppingDownKeeps DEF IInv, TypeOK
    <3>4. TheDeadDoNothing' /\ RunnersAreExplained' /\ DispatchersAreExplained'
      BY <3>2
         DEF IInv, TheDeadDoNothing, RunnersAreExplained, DispatchersAreExplained, Leaving
    <3>. QED  BY <3>3, <3>4 DEF IInv
  <2>10. ASSUME NEW p \in Processes, pc[p] \in {"up", "stopping"}, HandsOver(p), faults' \in Nat
         PROVE  IInv'
    <3>1. /\ leads' = leads \ {p} /\ retry' = retry \ {p} /\ orphaned' = orphaned \ {p}
          /\ GivesBack(p) /\ pc' = [pc EXCEPT ![p] = "leaving"]
          /\ UNCHANGED <<runs, dispatches, demoted, booting, tries>>
      BY <2>10 DEF HandsOver, work
    <3>2. TypeOK' /\ HoldersLead' /\ OrphansLackTheLock'
      BY <2>10, <3>1, SteppingDownKeeps DEF IInv, TypeOK
    <3>3. TheDeadDoNothing' /\ RunnersAreExplained' /\ DispatchersAreExplained'
      BY <3>1
         DEF IInv, TypeOK, TheDeadDoNothing, RunnersAreExplained, DispatchersAreExplained, Leaving
    <3>. QED  BY <3>2, <3>3 DEF IInv
  <2>11. ASSUME NEW p \in Processes, BeginStop(p) PROVE IInv'
    <3>1. pc[p] = "up" /\ faults' \in Nat
      BY <2>11 DEF BeginStop, Fault, IInv, TypeOK
    <3>2. CASE p \in Monoliths
      <4>1. /\ pc' = [pc EXCEPT ![p] = "stopping"] /\ runs' = runs \ {p}
            /\ UNCHANGED <<holder, silent, leads, dispatches, demoted, retry, booting, tries,
                           orphaned>>
        BY <2>11, <3>2 DEF BeginStop, StopsSchedulers, lock, stand
      <4>. QED  BY <3>1, <4>1
                DEF IInv, TypeOK, TheDeadDoNothing, HoldersLead, OrphansLackTheLock,
                    RunnersAreExplained, DispatchersAreExplained, Leaving
    <3>3. CASE p \notin Monoliths
      BY <2>10, <2>11, <3>1, <3>3 DEF BeginStop
    <3>. QED  BY <3>2, <3>3
  <2>12. ASSUME NEW p \in Processes, HandOver(p) PROVE IInv'
    BY <2>10, <2>12 DEF HandOver, IInv, TypeOK
  <2>13. ASSUME NEW p \in Processes, Exit(p) \/ Die(p) PROVE IInv'
    <3>1. Gone(p) /\ faults' \in Nat
      BY <2>13 DEF Exit, Die, Fault, IInv, TypeOK
    <3>2. GivesBack(p)
      BY <2>13, LockSteps DEF Exit, Die, IInv
    <3>3. /\ leads' = leads \ {p} /\ retry' = retry \ {p} /\ booting' = booting \ {p}
          /\ runs' = runs \ {p} /\ dispatches' = dispatches \ {p}
          /\ tries' = [tries EXCEPT ![p] = 0] /\ pc' = [pc EXCEPT ![p] = "down"]
          /\ orphaned' = orphaned \ {p} /\ demoted' = demoted \ {p}
      BY <3>1 DEF Gone
    <3>4. tries' \in [Processes -> 0..TryCap]
      BY <3>3, LeaderAssumption DEF IInv, TypeOK
    <3>5. TypeOK' /\ HoldersLead' /\ OrphansLackTheLock'
      BY <3>1, <3>2, <3>3, <3>4, SteppingDownKeeps DEF IInv, TypeOK
    <3>6. TheDeadDoNothing' /\ RunnersAreExplained' /\ DispatchersAreExplained'
      BY <3>3
         DEF IInv, TypeOK, TheDeadDoNothing, RunnersAreExplained, DispatchersAreExplained, Leaving
    <3>. QED  BY <3>5, <3>6 DEF IInv
  <2>. QED  BY <2>1, <2>2, <2>3, <2>4, <2>5, <2>6, <2>7, <2>8, <2>9, <2>11, <2>12, <2>13
           DEF Next, Step
<1>. QED  BY <1>1, <1>2, PTL DEF Spec

\* Two processes run the schedulers at once only while one of them has not been
\* told that its session ended, or is past the unlock of its shutdown; two run
\* the broadcast dispatchers also when one lost the leadership earlier.
THEOREM RunOnce == Spec => []SchedulersRunOnce
<1>1. IInv => SchedulersRunOnce
  BY DEF IInv, OrphansLackTheLock, RunnersAreExplained, DispatchersAreExplained,
         SchedulersRunOnce, TypeOK
<1>. QED  BY <1>1, LeaderInvariance, PTL

\* While every session is intact, nobody is past its unlock and no monolith has
\* lost the leadership since it was started, schedulers and dispatchers all run
\* in one process.
THEOREM HealthyExclusion ==
    Spec => [](orphaned \cup demoted = {} /\ (\A p \in Processes : ~Leaving(p))
                 => \A p, q \in runs \cup dispatches : p = q)
<1>1. IInv => (orphaned \cup demoted = {} /\ (\A p \in Processes : ~Leaving(p))
                 => \A p, q \in runs \cup dispatches : p = q)
  <2>. SUFFICES ASSUME IInv, orphaned = {}, demoted = {}, \A p \in Processes : ~Leaving(p),
                       NEW p \in runs \cup dispatches
                PROVE  p = holder
    OBVIOUS
  <2>1. p \in leads
    BY LeaderAssumption DEF IInv, TypeOK, RunnersAreExplained, DispatchersAreExplained
  <2>. QED  BY <2>1 DEF IInv, OrphansLackTheLock
<1>. QED  BY <1>1, LeaderInvariance, PTL

\* Orphaned are exactly the leaders without the lock, however many others take
\* it, lose it or have it taken from them in the meantime: until it steps down
\* or acquires the lock anew, an orphan's heartbeat finds no session with it.
THEOREM OrphansCannotLead == Spec => []OrphansLackTheLock
  BY LeaderInvariance, PTL DEF IInv
=============================================================================
