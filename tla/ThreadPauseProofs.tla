------------------------- MODULE ThreadPauseProofs -------------------------
(***************************************************************************)
(* Proofs about ThreadPause, for every set of threads and every number of  *)
(* rounds.                                                                 *)
(***************************************************************************)
EXTENDS ThreadPause, TLAPS

\* The next-state relation, one disjunct for every action: how every step below
\* is taken apart.
LEMMA StepCases ==
    ASSUME [Next]_vars
    PROVE  \/ \E t \in Threads : Spawn(t)
           \/ \E t \in Threads : Exit(t)
           \/ Pause \/ List \/ Sort \/ Suspend \/ Fail \/ FailSnapshot
           \/ Resume \/ GetStatus
           \/ UNCHANGED vars
BY DEF Next, Application, EventLoop

\* The environment does not change.
LEMMA EnvStep ==
    ASSUME [Next]_vars
    PROVE  /\ Faults' = Faults
           /\ DaemonsSpawn' = DaemonsSpawn
           /\ StartPaused' = StartPaused
<1>1. env' = env
    BY StepCases DEF Spawn, Exit, Pause, List, Sort, Suspend, Fail, FailSnapshot, Finish,
                     Resume, GetStatus, vars
<1> QED
    BY <1>1 DEF Faults, DaemonsSpawn, StartPaused

\* The initial states satisfy the invariant.
LEMMA InitIInv == Init => IInv
<1> SUFFICES ASSUME Init PROVE IInv
    OBVIOUS
<1> USE ThreadsAssumption, MaxIterAssumption, EnvsAssumption
    DEF Init, Faults, DaemonsSpawn, StartPaused
<1>1. TypeOK
    BY DEF TypeOK, Apps, Replies
<1>2. Busy /\ Known /\ Stopped /\ Released
    BY DEF Busy, Known, Stopped, Released, FrozenAreKnown, StatusIsTrue,
           PausedMeansStopped, ResumeMeansRunning, Apps
<1>3. Counted
    BY DEF Counted, RaceNeedsBirths
<1> QED
    BY <1>1, <1>2, <1>3 DEF IInv

\* Every step keeps the variables in their types.
LEMMA TypeStep == TypeOK /\ Busy /\ [Next]_vars => TypeOK'
<1> SUFFICES ASSUME TypeOK, Busy, [Next]_vars PROVE TypeOK'
    OBVIOUS
<1> USE MaxIterAssumption, EnvsAssumption DEF TypeOK, Replies
<1>1. ASSUME NEW t \in Threads, Spawn(t) PROVE TypeOK'
    BY <1>1 DEF Spawn, agent, Apps
<1>2. ASSUME NEW t \in Threads, Exit(t) PROVE TypeOK'
    BY <1>2 DEF Exit, agent
<1>3. CASE Pause \/ List \/ GetStatus
    BY <1>3 DEF Pause, List, GetStatus
<1>4. CASE Sort
    BY <1>4 DEF Sort, Running, Suspended, Finish, Apps
<1>5. CASE Suspend
    BY <1>5 DEF Suspend, Busy
<1>6. CASE Fail \/ FailSnapshot
    BY <1>6 DEF Fail, FailSnapshot, Finish
<1>7. CASE Resume
    BY <1>7 DEF Resume
<1>8. CASE UNCHANGED vars
    BY <1>8 DEF vars, agent
<1> QED
    BY <1>1, <1>2, <1>3, <1>4, <1>5, <1>6, <1>7, <1>8, StepCases

\* Every step keeps Busy.
LEMMA BusyStep == TypeOK /\ Busy /\ [Next]_vars => Busy'
<1> SUFFICES ASSUME TypeOK, Busy, [Next]_vars PROVE Busy'
    OBVIOUS
<1> USE MaxIterAssumption DEF TypeOK, Busy
<1>1. ASSUME NEW t \in Threads, Spawn(t) PROVE Busy'
    BY <1>1 DEF Spawn, agent
<1>2. ASSUME NEW t \in Threads, Exit(t) PROVE Busy'
    BY <1>2 DEF Exit, Runs, agent
<1>3. CASE Pause \/ List \/ GetStatus
    BY <1>3 DEF Pause, List, GetStatus
<1>4. CASE Sort
    BY <1>4 DEF Sort, Suspended, Running, Finish
<1>5. CASE Suspend
    BY <1>5 DEF Suspend
<1>6. CASE Fail \/ FailSnapshot
    BY <1>6 DEF Fail, FailSnapshot, Finish
<1>7. CASE Resume
    BY <1>7 DEF Resume
<1>8. CASE UNCHANGED vars
    BY <1>8 DEF vars, agent
<1> QED
    BY <1>1, <1>2, <1>3, <1>4, <1>5, <1>6, <1>7, <1>8, StepCases

\* Every step keeps Known.
LEMMA KnownStep == TypeOK /\ Busy /\ Known /\ [Next]_vars => Known'
<1> SUFFICES ASSUME TypeOK, Busy, Known, [Next]_vars, ~Faults, ~Faults' PROVE Known'
    BY EnvStep DEF Known, FrozenAreKnown, StatusIsTrue
<1> USE DEF Faults, TypeOK, Busy, Known, FrozenAreKnown, StatusIsTrue
<1>1. ASSUME NEW t \in Threads, Spawn(t) PROVE Known'
    BY <1>1 DEF Spawn, agent
<1>2. ASSUME NEW t \in Threads, Exit(t) PROVE Known'
    BY <1>2 DEF Exit, agent
<1>3. CASE Pause \/ List
    BY <1>3 DEF Pause, List
<1>4. CASE Sort
    <2>1. Suspended = {frozen}
        BY <1>4 DEF Sort, Suspended
    <2> QED
        BY <1>4, <2>1 DEF Sort, Finish
<1>5. CASE Suspend
    BY <1>5 DEF Suspend
<1>6. CASE GetStatus
    BY <1>6 DEF GetStatus
<1>7. CASE Resume
    BY <1>7 DEF Resume
<1>8. CASE UNCHANGED vars
    BY <1>8 DEF vars, agent
<1> QED
    BY <1>1, <1>2, <1>3, <1>4, <1>5, <1>6, <1>7, <1>8, StepCases DEF Fail, FailSnapshot

\* Every step keeps Stopped.
LEMMA StoppedStep == TypeOK /\ Busy /\ Stopped /\ [Next]_vars => Stopped'
<1> SUFFICES ASSUME TypeOK, Busy, Stopped, [Next]_vars, ~Faults, ~DaemonsSpawn
             PROVE  Stopped'
    BY EnvStep DEF Stopped
<1> USE DEF Faults, DaemonsSpawn, TypeOK, Busy, Stopped, PausedMeansStopped, Loose
<1>1. ASSUME NEW t \in Threads, Spawn(t) PROVE Stopped'
    <2>1. Loose # {}
        BY <1>1 DEF Spawn, Runs, Apps
    <2> QED
        BY <1>1, <2>1 DEF Spawn, agent
<1>2. ASSUME NEW t \in Threads, Exit(t) PROVE Stopped'
    BY <1>2 DEF Exit, agent
<1>3. CASE Pause \/ List \/ GetStatus
    BY <1>3 DEF Pause, List, GetStatus
<1>4. CASE Sort
    BY <1>4 DEF Sort, Suspended, Running, Finish
<1>5. CASE Suspend
    BY <1>5 DEF Suspend
<1>7. CASE Resume
    BY <1>7 DEF Resume
<1>8. CASE UNCHANGED vars
    BY <1>8 DEF vars, agent
<1> QED
    BY <1>1, <1>2, <1>3, <1>4, <1>5, <1>7, <1>8, StepCases DEF Fail, FailSnapshot

\* Every step keeps Counted.
LEMMA CountedStep == TypeOK /\ Busy /\ Counted /\ [Next]_vars => Counted'
<1> SUFFICES ASSUME TypeOK, Busy, Counted, [Next]_vars, ~Faults PROVE Counted'
    BY EnvStep DEF Counted
<1> USE MaxIterAssumption DEF Faults, TypeOK, Busy, Counted, RaceNeedsBirths, Loose
<1>1. ASSUME NEW t \in Threads, Spawn(t) PROVE Counted'
    BY <1>1 DEF Spawn, agent
<1>2. ASSUME NEW t \in Threads, Exit(t) PROVE Counted'
    BY <1>2 DEF Exit, agent
<1>3. CASE Pause
    BY <1>3 DEF Pause
<1>4. CASE List
    BY <1>4 DEF List
<1>5. CASE Sort
    BY <1>5 DEF Sort, Suspended, Running, Finish
<1>6. CASE Suspend
    BY <1>6 DEF Suspend
<1>7. CASE Resume \/ GetStatus
    BY <1>7 DEF Resume, GetStatus
<1>8. CASE UNCHANGED vars
    BY <1>8 DEF vars, agent
<1> QED
    BY <1>1, <1>2, <1>3, <1>4, <1>5, <1>6, <1>7, <1>8, StepCases DEF Fail, FailSnapshot

\* Every step keeps Released.
LEMMA ReleasedStep == TypeOK /\ Busy /\ Known /\ Released /\ [Next]_vars => Released'
<1> SUFFICES ASSUME TypeOK, Busy, Known, Released, [Next]_vars, ~StartPaused
             PROVE  Released'
    BY EnvStep DEF Released
<1> USE DEF Faults, StartPaused, TypeOK, Busy, Known, FrozenAreKnown, Released, ResumeMeansRunning
<1>1. ASSUME NEW t \in Threads, Spawn(t) \/ Exit(t) PROVE Released'
    BY <1>1 DEF Spawn, Exit, agent
<1>2. CASE Pause \/ List \/ GetStatus
    BY <1>2 DEF Pause, List, GetStatus
<1>3. CASE Sort
    BY <1>3 DEF Sort, Finish
<1>4. CASE Suspend
    BY <1>4 DEF Suspend
<1>5. CASE Resume
    BY <1>5 DEF Resume
<1>6. CASE Fail \/ FailSnapshot
    BY <1>6 DEF Fail, FailSnapshot, Finish
<1>7. CASE UNCHANGED vars
    BY <1>7 DEF vars, agent
<1> QED
    BY <1>1, <1>2, <1>3, <1>4, <1>5, <1>6, <1>7, StepCases

-----------------------------------------------------------------------------
\* The invariant behind the properties holds in every reachable state.
THEOREM IInvHolds == Spec => []IInv
<1>1. IInv /\ [Next]_vars => IInv'
    BY TypeStep, BusyStep, KnownStep, StoppedStep, CountedStep, ReleasedStep DEF IInv
<1> QED
    BY <1>1, InitIInv, PTL DEF Spec

\* Every variable keeps its type.
THEOREM TypeCorrect == Spec => []TypeOK
<1>1. IInv => TypeOK
    BY DEF IInv
<1> QED
    BY <1>1, IInvHolds, PTL

\* As long as no call fails and no daemon starts application threads, a pause
\* that is answered with ok has stopped every application thread, however many
\* the application started meanwhile (ps_thread_pause_suspend).
THEOREM PausedMeansStoppedHolds == Spec => []PausedMeansStopped
<1>1. IInv => PausedMeansStopped
    BY DEF IInv, Stopped, PausedMeansStopped
<1> QED
    BY <1>1, IInvHolds, PTL

\* As long as no call fails, the list of suspended threads is exact between
\* requests, also after a pause that gave up (build_snapshot).
THEOREM FrozenAreKnownHolds == Spec => []FrozenAreKnown
<1>1. IInv => FrozenAreKnown
    BY DEF IInv, Known
<1> QED
    BY <1>1, IInvHolds, PTL

\* As long as no call fails, what get_status answers is true, and stays true
\* until the next request changes it (handle_usr_rq_get_status).
THEOREM StatusIsTrueHolds == Spec => []StatusIsTrue
<1>1. IInv => StatusIsTrue
    BY DEF IInv, Known
<1> QED
    BY <1>1, IInvHolds, PTL

\* As long as no call fails, a pause gives up only if at least MaxIter threads
\* were started while it ran (convergence_check).
THEOREM RaceNeedsBirthsHolds == Spec => []RaceNeedsBirths
<1>1. IInv => RaceNeedsBirths
    BY DEF IInv, Counted, RaceNeedsBirths
<1> QED
    BY <1>1, IInvHolds, PTL

\* Without a start-up pause, and as long as no call fails, the JVM runs when a
\* resume has been answered (handle_usr_rq_resume).
THEOREM ResumeMeansRunningHolds == Spec => []ResumeMeansRunning
<1>1. IInv => ResumeMeansRunning
    BY DEF IInv, Released, ResumeMeansRunning
<1> QED
    BY <1>1, IInvHolds, PTL
=============================================================================
