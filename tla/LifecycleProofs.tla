-------------------------- MODULE LifecycleProofs --------------------------
(***************************************************************************)
(* Proofs about Lifecycle, for any number and kinds of requests.           *)
(***************************************************************************)
EXTENDS Lifecycle, TLAPS

\* The initial states satisfy the invariant.
LEMMA InitIInv == Init => IInv
BY DEF Init, IInv, Counts, Held, Final, Unused

\* The semaphores stay numbers, and the queue in its type.
LEMMA CountsStep == Counts /\ [Next]_vars => Counts'
<1> SUFFICES ASSUME Counts, [Next]_vars PROVE Counts'
    OBVIOUS
<1> USE RequestsAssumption, EnvsAssumption
    DEF Counts, vars, server, stats, sems, jvm,
        StopCollector, PauseOnStart, PauseOnExit, Signals, Faults
<1>1. CASE StartAgent
    BY <1>1 DEF StartAgent
<1>2. CASE StartFails
    BY <1>2 DEF StartFails
<1>3. CASE FinishStart
    BY <1>3 DEF FinishStart
<1>4. CASE Proceed
    BY <1>4 DEF Proceed
<1>5. CASE MainExits
    BY <1>5 DEF MainExits, BeginExit
<1>6. CASE Signal
    BY <1>6 DEF Signal, BeginExit
<1>7. CASE CloserExits
    BY <1>7 DEF CloserExits, BeginExit
<1>8. CASE HookEnters
    BY <1>8 DEF HookEnters
<1>9. CASE HookStarts
    BY <1>9 DEF HookStarts
<1>10. CASE HookReleased
    BY <1>10 DEF HookReleased
<1>11. CASE HookEnds
    BY <1>11 DEF HookEnds
<1>12. CASE Unload
    BY <1>12 DEF Unload
<1>13. CASE Destroy
    BY <1>13 DEF Destroy
<1>14. CASE Halt
    BY <1>14 DEF Halt
<1>15. CASE HandleStatus
    BY <1>15 DEF HandleStatus, Take
<1>16. CASE HandlePause
    BY <1>16 DEF HandlePause, Take
<1>17. CASE HandleResume
    BY <1>17 DEF HandleResume, Take
<1>18. CASE HandleShutdownPaused
    BY <1>18 DEF HandleShutdownPaused, Take
<1>19. CASE HandleShutdown
    <2>1. started' \in Int /\ hold' \in Int /\ done' \in Int
        BY <1>19 DEF HandleShutdown
    <2>2. queue' \in Seq(Requests \cup {"starting", "stop"})
        BY <1>19 DEF HandleShutdown, Take
    <2>3. env' = env
        BY <1>19 DEF HandleShutdown
    <2> QED
        BY <2>1, <2>2, <2>3
<1>20. CASE HandleStarting
    BY <1>20 DEF HandleStarting, Take
<1>21. CASE HandleStop
    BY <1>21 DEF HandleStop, Take
<1>22. CASE LoopEnds
    BY <1>22 DEF LoopEnds
<1>23. ASSUME NEW request \in Requests, Ask(request) PROVE Counts'
    BY <1>23 DEF Ask
<1>24. CASE TickBegins
    BY <1>24 DEF TickBegins
<1>25. CASE TickEnds
    BY <1>25 DEF TickEnds
<1>26. CASE CollectorStops
    BY <1>26 DEF CollectorStops
<1>27. CASE UNCHANGED vars
    BY <1>27
<1> QED
    BY <1>1, <1>2, <1>3, <1>4, <1>5, <1>6, <1>7, <1>8, <1>9, <1>10, <1>11,
       <1>12, <1>13, <1>14, <1>15, <1>16, <1>17, <1>18, <1>19, <1>20, <1>21,
       <1>22, <1>23, <1>24, <1>25, <1>26, <1>27
       DEF Next, Start, Exiting, Hook, EventLoop, Collector

\* Every step keeps Held.
LEMMA HeldStep == Counts /\ Held /\ [Next]_vars => Held'
<1> SUFFICES ASSUME Counts, Held, [Next]_vars PROVE Held'
    OBVIOUS
<1> USE RequestsAssumption, EnvsAssumption
    DEF Counts, Held, vars, server, stats, sems, jvm,
        StopCollector, PauseOnStart, PauseOnExit, Signals, Faults
<1>1. CASE StartAgent
    BY <1>1 DEF StartAgent
<1>2. CASE StartFails
    BY <1>2 DEF StartFails
<1>3. CASE FinishStart
    BY <1>3 DEF FinishStart
<1>4. CASE Proceed
    BY <1>4 DEF Proceed
<1>5. CASE MainExits
    BY <1>5 DEF MainExits, BeginExit
<1>6. CASE Signal
    BY <1>6 DEF Signal, BeginExit
<1>7. CASE CloserExits
    BY <1>7 DEF CloserExits, BeginExit
<1>8. CASE HookEnters
    BY <1>8 DEF HookEnters
<1>9. CASE HookStarts
    BY <1>9 DEF HookStarts
<1>10. CASE HookReleased
    BY <1>10 DEF HookReleased
<1>11. CASE HookEnds
    BY <1>11 DEF HookEnds
<1>12. CASE Unload
    BY <1>12 DEF Unload
<1>13. CASE Destroy
    BY <1>13 DEF Destroy
<1>14. CASE Halt
    BY <1>14 DEF Halt
<1>15. CASE HandleStatus
    BY <1>15 DEF HandleStatus, Take
<1>16. CASE HandlePause
    BY <1>16 DEF HandlePause, Take
<1>17. CASE HandleResume
    BY <1>17 DEF HandleResume, Take
<1>18. CASE HandleShutdownPaused
    BY <1>18 DEF HandleShutdownPaused, Take
<1>19. CASE HandleShutdown
    BY <1>19 DEF HandleShutdown, Take
<1>20. CASE HandleStarting
    BY <1>20 DEF HandleStarting, Take
<1>21. CASE HandleStop
    BY <1>21 DEF HandleStop, Take
<1>22. CASE LoopEnds
    BY <1>22 DEF LoopEnds
<1>23. ASSUME NEW request \in Requests, Ask(request) PROVE Held'
    BY <1>23 DEF Ask
<1>24. CASE TickBegins
    BY <1>24 DEF TickBegins
<1>25. CASE TickEnds
    BY <1>25 DEF TickEnds
<1>26. CASE CollectorStops
    BY <1>26 DEF CollectorStops
<1>27. CASE UNCHANGED vars
    BY <1>27
<1> QED
    BY <1>1, <1>2, <1>3, <1>4, <1>5, <1>6, <1>7, <1>8, <1>9, <1>10, <1>11,
       <1>12, <1>13, <1>14, <1>15, <1>16, <1>17, <1>18, <1>19, <1>20, <1>21,
       <1>22, <1>23, <1>24, <1>25, <1>26, <1>27
       DEF Next, Start, Exiting, Hook, EventLoop, Collector

\* Every step keeps Final.
LEMMA FinalStep == Counts /\ Held /\ Final /\ [Next]_vars => Final'
<1> SUFFICES ASSUME Counts, Held, Final, [Next]_vars PROVE Final'
    OBVIOUS
<1> USE RequestsAssumption, EnvsAssumption
    DEF Counts, Held, Final, vars, server, stats, sems, jvm,
        StopCollector, PauseOnStart, PauseOnExit, Signals, Faults
<1>1. CASE StartAgent
    BY <1>1 DEF StartAgent
<1>2. CASE StartFails
    BY <1>2 DEF StartFails
<1>3. CASE FinishStart
    BY <1>3 DEF FinishStart
<1>4. CASE Proceed
    BY <1>4 DEF Proceed
<1>5. CASE MainExits
    BY <1>5 DEF MainExits, BeginExit
<1>6. CASE Signal
    BY <1>6 DEF Signal, BeginExit
<1>7. CASE CloserExits
    BY <1>7 DEF CloserExits, BeginExit
<1>8. CASE HookEnters
    BY <1>8 DEF HookEnters
<1>9. CASE HookStarts
    BY <1>9 DEF HookStarts
<1>10. CASE HookReleased
    BY <1>10 DEF HookReleased
<1>11. CASE HookEnds
    BY <1>11 DEF HookEnds
<1>12. CASE Unload
    BY <1>12 DEF Unload
<1>13. CASE Destroy
    BY <1>13 DEF Destroy
<1>14. CASE Halt
    BY <1>14 DEF Halt
<1>15. CASE HandleStatus
    BY <1>15 DEF HandleStatus, Take
<1>16. CASE HandlePause
    BY <1>16 DEF HandlePause, Take
<1>17. CASE HandleResume
    BY <1>17 DEF HandleResume, Take
<1>18. CASE HandleShutdownPaused
    BY <1>18 DEF HandleShutdownPaused, Take
<1>19. CASE HandleShutdown
    BY <1>19 DEF HandleShutdown, Take
<1>20. CASE HandleStarting
    BY <1>20 DEF HandleStarting, Take
<1>21. CASE HandleStop
    BY <1>21 DEF HandleStop, Take
<1>22. CASE LoopEnds
    BY <1>22 DEF LoopEnds
<1>23. ASSUME NEW request \in Requests, Ask(request) PROVE Final'
    BY <1>23 DEF Ask
<1>24. CASE TickBegins
    BY <1>24 DEF TickBegins
<1>25. CASE TickEnds
    BY <1>25 DEF TickEnds
<1>26. CASE CollectorStops
    BY <1>26 DEF CollectorStops
<1>27. CASE UNCHANGED vars
    BY <1>27
<1> QED
    BY <1>1, <1>2, <1>3, <1>4, <1>5, <1>6, <1>7, <1>8, <1>9, <1>10, <1>11,
       <1>12, <1>13, <1>14, <1>15, <1>16, <1>17, <1>18, <1>19, <1>20, <1>21,
       <1>22, <1>23, <1>24, <1>25, <1>26, <1>27
       DEF Next, Start, Exiting, Hook, EventLoop, Collector

\* Every step keeps Unused.
LEMMA UnusedStep == Counts /\ Held /\ Unused /\ [Next]_vars => Unused'
<1> SUFFICES ASSUME Counts, Held, Unused, [Next]_vars PROVE Unused'
    OBVIOUS
<1> USE RequestsAssumption, EnvsAssumption
    DEF Counts, Held, Unused, vars, server, stats, sems, jvm,
        StopCollector, PauseOnStart, PauseOnExit, Signals, Faults
<1>1. CASE StartAgent
    BY <1>1 DEF StartAgent
<1>2. CASE StartFails
    BY <1>2 DEF StartFails
<1>3. CASE FinishStart
    BY <1>3 DEF FinishStart
<1>4. CASE Proceed
    BY <1>4 DEF Proceed
<1>5. CASE MainExits
    BY <1>5 DEF MainExits, BeginExit
<1>6. CASE Signal
    BY <1>6 DEF Signal, BeginExit
<1>7. CASE CloserExits
    BY <1>7 DEF CloserExits, BeginExit
<1>8. CASE HookEnters
    BY <1>8 DEF HookEnters
<1>9. CASE HookStarts
    BY <1>9 DEF HookStarts
<1>10. CASE HookReleased
    BY <1>10 DEF HookReleased
<1>11. CASE HookEnds
    BY <1>11 DEF HookEnds
<1>12. CASE Unload
    BY <1>12 DEF Unload
<1>13. CASE Destroy
    BY <1>13 DEF Destroy
<1>14. CASE Halt
    BY <1>14 DEF Halt
<1>15. CASE HandleStatus
    BY <1>15 DEF HandleStatus, Take
<1>16. CASE HandlePause
    BY <1>16 DEF HandlePause, Take
<1>17. CASE HandleResume
    BY <1>17 DEF HandleResume, Take
<1>18. CASE HandleShutdownPaused
    BY <1>18 DEF HandleShutdownPaused, Take
<1>19. CASE HandleShutdown
    BY <1>19 DEF HandleShutdown, Take
<1>20. CASE HandleStarting
    BY <1>20 DEF HandleStarting, Take
<1>21. CASE HandleStop
    BY <1>21 DEF HandleStop, Take
<1>22. CASE LoopEnds
    BY <1>22 DEF LoopEnds
<1>23. ASSUME NEW request \in Requests, Ask(request) PROVE Unused'
    BY <1>23 DEF Ask
<1>24. CASE TickBegins
    BY <1>24 DEF TickBegins
<1>25. CASE TickEnds
    BY <1>25 DEF TickEnds
<1>26. CASE CollectorStops
    BY <1>26 DEF CollectorStops
<1>27. CASE UNCHANGED vars
    BY <1>27
<1> QED
    BY <1>1, <1>2, <1>3, <1>4, <1>5, <1>6, <1>7, <1>8, <1>9, <1>10, <1>11,
       <1>12, <1>13, <1>14, <1>15, <1>16, <1>17, <1>18, <1>19, <1>20, <1>21,
       <1>22, <1>23, <1>24, <1>25, <1>26, <1>27
       DEF Next, Start, Exiting, Hook, EventLoop, Collector

-----------------------------------------------------------------------------
\* The invariant behind the properties holds in every reachable state.
THEOREM IInvHolds == Spec => []IInv
<1>1. IInv /\ [Next]_vars => IInv'
    BY CountsStep, HeldStep, FinalStep, UnusedStep DEF IInv
<1> QED
    BY <1>1, InitIInv, PTL DEF Spec

\* With PauseOnExit, and once the agent thread has been started, the agent is
\* never unloaded before a client's shutdown request, whoever started the exit
\* and whatever the clients asked; of all the calls that may fail, only those of
\* the hook before its wait let the exit go on (README.md:30, invoke_callbacks).
THEOREM ExitHeldHolds == Spec => []ExitHeld
<1>1. IInv => ExitHeld
    BY DEF IInv, Held, ExitHeld
<1> QED
    BY <1>1, IInvHolds, PTL

\* As long as no call fails, the status is right while the exit is held, and the
\* collector begins no tick: it has been interrupted before the hook went on to
\* its wait, and may only finish the tick it was in (jvm_prepare_shutdown,
\* ProfilerRegistry.collect).
THEOREM HeldIsFinalHolds == Spec => HeldIsFinal
<1> DEFINE Step == ~Faults /\ hook = "wait2" /\ closer = "none" =>
                       shutting /\ (collector' = "ticks" => collector = "ticks")
<1>1. ASSUME IInv, [Next]_vars PROVE Step
    <2> SUFFICES ASSUME ~Faults, hook = "wait2", closer = "none"
                 PROVE shutting /\ (collector' = "ticks" => collector = "ticks")
        OBVIOUS
    <2>1. shutting /\ told
        BY <1>1 DEF IInv, Final
    <2>2. ~TickBegins
        BY <2>1 DEF TickBegins
    <2>3. CASE Collector
        BY <2>1, <2>2, <2>3 DEF Collector, TickEnds, CollectorStops
    <2>4. CASE StartAgent
        BY <2>1, <2>4 DEF StartAgent
    <2>5. CASE UNCHANGED collector
        BY <2>1, <2>5
    <2>6. Collector \/ StartAgent \/ UNCHANGED collector
        BY <1>1 DEF Next, vars, stats, Start, Exiting, Hook, EventLoop,
           StartFails, FinishStart, Proceed, MainExits, Signal, CloserExits,
           HookEnters, HookStarts, HookReleased, HookEnds, Unload, Destroy, Halt,
           HandleStatus, HandlePause, HandleResume, HandleShutdownPaused,
           HandleShutdown, HandleStarting, HandleStop, LoopEnds, Ask
    <2> QED
        BY <2>3, <2>4, <2>5, <2>6
<1> QED
    BY <1>1, IInvHolds, PTL DEF Spec, HeldIsFinal

\* When the application ends the JVM, ps_destroy frees ps only when nobody uses
\* it, whatever clients ask meanwhile and whichever call fails (ps_destroy,
\* event_loop).
THEOREM FreedOnlyWhenUnusedHolds == Spec => []FreedOnlyWhenUnused
<1>1. IInv => FreedOnlyWhenUnused
    BY DEF IInv, Held, Unused, FreedOnlyWhenUnused
<1> QED
    BY <1>1, IInvHolds, PTL
=============================================================================
