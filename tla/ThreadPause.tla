---------------------------- MODULE ThreadPause ----------------------------
(***************************************************************************)
(* Pausing and resuming the application (ps-thread-state.c and the pause,  *)
(* resume and status handlers of prof-server.c).  JVMTI has no call that   *)
(* stops the application at once: the agent lists the threads, suspends    *)
(* the running ones one by one, and starts again until a listing shows no  *)
(* running thread, MaxIter times at most.  The threads that still run go   *)
(* on starting others and exiting meanwhile.                               *)
(*                                                                         *)
(* A thread stands for a slot: once it has exited, and the agent holds no  *)
(* reference to it, its name is free for another thread.  The agent thread *)
(* is not in Threads: it never suspends itself.                            *)
(***************************************************************************)
EXTENDS Integers, FiniteSets

CONSTANTS Threads,
          Daemons,       \* the threads with is_daemon set, never suspended
          Main,          \* the thread that runs the VMInit callback
          MaxIter,       \* MAX_SUSPEND_ITERATIONS
          Envs           \* the environments that are looked at

ASSUME ThreadsAssumption ==
    Daemons \subseteq Threads /\ Main \in Threads \ Daemons
ASSUME MaxIterAssumption == MaxIter \in Nat \ {0}
ASSUME EnvsAssumption ==
    Envs \subseteq [start : BOOLEAN, spawning : BOOLEAN, faults : BOOLEAN]

Apps == Threads \ Daemons

VARIABLES env,       \* the environment of this process, which never changes
          alive,     \* the live threads
          frozen,    \* the threads JVMTI has suspended
          blocked,   \* ps->paused: Main waits in ps_wait_for_resume
          snapshot,  \* state->suspended_threads
          act,       \* what the event loop is doing
          round,     \* i of ps_thread_pause_suspend
          listed,    \* the threads of the listing at hand still to be handled
          reply,     \* the last answer to the client
          births     \* threads started since the pause began, MaxIter at most

agent == <<snapshot, act, round, listed, reply>>
vars == <<env, alive, frozen, blocked, births, agent>>

StartPaused  == env.start     \* JAUTO_PROF_PAUSE_ON_START
DaemonsSpawn == env.spawning  \* do daemons start application threads?
Faults       == env.faults    \* may JVMTI, JNI or malloc fail?

Replies == {"none", "pending", "ok", "race", "error", "unblocked", "nochange",
            "paused", "running"}

TypeOK ==
    /\ env \in Envs
    /\ alive \subseteq Threads
    /\ frozen \subseteq Apps
    /\ blocked \in BOOLEAN
    /\ snapshot \subseteq Apps
    /\ act \in {"idle", "list", "sort", "suspend"}
    /\ round \in 0..MaxIter
    /\ listed \subseteq Threads
    /\ reply \in Replies
    /\ births \in 0..MaxIter

Init ==
    /\ env \in Envs
    /\ alive = {Main} \cup Daemons
    /\ frozen = {}
    /\ blocked = StartPaused
    /\ snapshot = {}
    /\ act = "idle"
    /\ round = 0
    /\ listed = {}
    /\ reply = "none"
    /\ births = 0

-----------------------------------------------------------------------------
(* The application.                                                        *)

Runs(t) == t \in alive \ frozen /\ ~(blocked /\ t = Main)

Spawn(t) ==
    /\ t \in Apps \ (alive \cup listed)
    /\ \E p \in Threads : Runs(p) /\ (p \in Daemons => DaemonsSpawn)
    /\ alive' = alive \cup {t}
    /\ births' = IF births < MaxIter THEN births + 1 ELSE births
    /\ UNCHANGED <<env, frozen, blocked, agent>>

Exit(t) ==
    /\ Runs(t)
    /\ alive' = alive \ {t}
    /\ UNCHANGED <<env, frozen, blocked, births, agent>>

-----------------------------------------------------------------------------
(* pause_threads: ps_thread_pause_suspend.                                 *)

Pause ==
    /\ act = "idle"
    /\ act' = "list"
    /\ round' = 0
    /\ births' = 0
    /\ reply' = "pending"
    /\ UNCHANGED <<env, alive, frozen, blocked, snapshot, listed>>

\* fetch_threads: GetAllThreads.
List ==
    /\ act = "list"
    /\ listed' = alive
    /\ act' = "sort"
    /\ UNCHANGED <<env, alive, frozen, blocked, births, snapshot, round, reply>>

Finish(answer) ==
    /\ act' = "idle"
    /\ listed' = {}
    /\ reply' = answer
    /\ UNCHANGED <<env, alive, frozen, blocked, births, round>>

\* Mutant: only the threads this pause has suspended are kept.
SuspendedNow == {(listed \cap frozen \cap Apps) \ snapshot}

\* The rest of fetch_threads: the listed threads are looked at one by one.  The
\* ones JVMTI reports as suspended; a call that fails makes one look running.
Suspended == {(listed \cap frozen \cap Apps) \ missed :
                missed \in IF Faults THEN SUBSET frozen ELSE {{}}}

\* The others.  JVMTI answers for a thread that has exited meanwhile, which
\* counts as running; one it fails to describe is left out.
Running(suspended) == {(listed \cap Apps) \ (suspended \cup skipped) :
                         skipped \in IF Faults THEN SUBSET listed ELSE {{}}}

\* Mutant: the last listing is not looked at.
SortTrustsLast ==
    /\ act = "sort"
    /\ \E suspended \in Suspended : \E running \in Running(suspended) :
        \/ /\ running = {} \/ round = MaxIter
           /\ snapshot' = suspended
           /\ Finish("ok")
        \/ /\ running # {}
           /\ round < MaxIter
           /\ listed' = running
           /\ act' = "suspend"
           /\ UNCHANGED <<env, alive, frozen, blocked, births, snapshot, round, reply>>

\* Mutant: a pause that gives up keeps no list.
SortForgetsRace ==
    /\ act = "sort"
    /\ \E suspended \in Suspended : \E running \in Running(suspended) :
        \/ /\ running = {} \/ round = MaxIter
           /\ snapshot' = IF running = {} THEN suspended ELSE snapshot
           /\ Finish(IF running = {} THEN "ok" ELSE "race")
        \/ /\ running # {}
           /\ round < MaxIter
           /\ listed' = running
           /\ act' = "suspend"
           /\ UNCHANGED <<env, alive, frozen, blocked, births, snapshot, round, reply>>

\* suspend_new_threads and, after the last round, convergence_check: the threads
\* the listing shows as suspended replace the list of the pause before
\* (build_snapshot) unless others are to be suspended first.
Sort ==
    /\ act = "sort"
    /\ \E suspended \in Suspended : \E running \in Running(suspended) :
        \/ /\ running = {} \/ round = MaxIter
           /\ snapshot' = suspended
           /\ Finish(IF running = {} THEN "ok" ELSE "race")
        \/ /\ running # {}
           /\ round < MaxIter
           /\ listed' = running
           /\ act' = "suspend"
           /\ UNCHANGED <<env, alive, frozen, blocked, births, snapshot, round, reply>>

\* Mutant: one thread for every listing.
SuspendFirst ==
    /\ act = "suspend"
    /\ \E t \in listed : frozen' = frozen \cup ({t} \cap alive)
    /\ listed' = {}
    /\ act' = "list"
    /\ round' = round + 1
    /\ UNCHANGED <<env, alive, blocked, births, snapshot, reply>>

\* Mutant: the rounds are not counted.
SuspendUncounted ==
    /\ act = "suspend"
    /\ \E t \in listed :
        /\ \/ frozen' = frozen \cup ({t} \cap alive)
           \/ Faults /\ frozen' = frozen
        /\ listed' = listed \ {t}
        /\ IF listed = {t} THEN act' = "list" ELSE UNCHANGED act
    /\ UNCHANGED <<env, alive, blocked, births, snapshot, round, reply>>

\* SuspendThreadList, thread by thread.  A thread that has exited is passed
\* over, and so is, but for a warning in the log, one that cannot be suspended.
Suspend ==
    /\ act = "suspend"
    /\ \E t \in listed :
        /\ \/ frozen' = frozen \cup ({t} \cap alive)
           \/ Faults /\ frozen' = frozen
        /\ listed' = listed \ {t}
        /\ IF listed = {t} THEN act' = "list" /\ round' = round + 1
                           ELSE UNCHANGED <<act, round>>
    /\ UNCHANGED <<env, alive, blocked, births, snapshot, reply>>

\* A listing or an allocation fails: what was suspended stays so.
Fail ==
    /\ Faults
    /\ act \in {"list", "sort"}
    /\ Finish("error")
    /\ UNCHANGED snapshot

\* build_snapshot fails: the list before it is gone as well.
FailSnapshot ==
    /\ Faults
    /\ act = "sort"
    /\ round = MaxIter \/ \E suspended \in Suspended : {} \in Running(suspended)
    /\ Finish("error")
    /\ snapshot' = {}

-----------------------------------------------------------------------------
(* resume and get_status.                                                  *)

\* handle_usr_rq_resume: a start-up pause is lifted first, and then the
\* suspended threads are left alone.
Resume ==
    /\ act = "idle"
    /\ \/ /\ blocked
          /\ blocked' = FALSE
          /\ reply' = "unblocked"
          /\ UNCHANGED <<frozen, snapshot>>
       \/ /\ ~blocked
          /\ snapshot # {}
          /\ \/ frozen' = frozen \ snapshot
             \/ Faults /\ \E stuck \in SUBSET snapshot :
                             frozen' = frozen \ (snapshot \ stuck)
          /\ snapshot' = {}
          /\ reply' = "unblocked"
          /\ UNCHANGED blocked
       \/ /\ ~blocked
          /\ snapshot = {}
          /\ reply' = "nochange"
          /\ UNCHANGED <<frozen, snapshot, blocked>>
    /\ UNCHANGED <<env, alive, births, act, round, listed>>

\* Mutant: only the start-up pause counts.
GetStatusStartup ==
    /\ act = "idle"
    /\ reply' = IF blocked THEN "paused" ELSE "running"
    /\ UNCHANGED <<env, alive, frozen, blocked, births, snapshot, act, round, listed>>

\* handle_usr_rq_get_status.
GetStatus ==
    /\ act = "idle"
    /\ reply' = IF blocked \/ snapshot # {} THEN "paused" ELSE "running"
    /\ UNCHANGED <<env, alive, frozen, blocked, births, snapshot, act, round, listed>>

-----------------------------------------------------------------------------
Application == \E t \in Threads : Spawn(t) \/ Exit(t)

EventLoop == List \/ Sort \/ Suspend \/ Fail \/ FailSnapshot

Next == Application \/ EventLoop \/ Pause \/ Resume \/ GetStatus

Spec == Init /\ [][Next]_vars

\* The agent thread is never suspended: it goes on with the request at hand.
FairSpec == Spec /\ WF_vars(EventLoop)

-----------------------------------------------------------------------------
(* Properties.                                                             *)

\* "Suspends every non-daemon application thread so the JVM stops making
\* progress" (mcp_server.py, pause_threads): when a pause is answered with ok,
\* no application thread is left running, those started during the pause
\* included, and none is started later.  A daemon that starts threads undoes it.
PausedMeansStopped ==
    ~Faults /\ ~DaemonsSpawn /\ reply = "ok" => alive \cap Apps \subseteq frozen

\* Between two requests the threads that are suspended are exactly the ones a
\* resume will free and get_status goes by, also after a pause that gave up.
FrozenAreKnown == ~Faults /\ act = "idle" => frozen = snapshot

\* A pause gives up only because the application kept starting threads
\* (prof_client.py:399-402), at least one for every round.
RaceNeedsBirths == ~Faults /\ reply = "race" => births = MaxIter

\* After a resume is answered, with unblocked or nochange, the JVM is running:
\* no thread is suspended and Main is not held (mcp_server.py:410-411).  With a
\* start-up hold this fails: one resume does not lift both kinds of pause.
ResumeMeansRunning ==
    ~Faults /\ ~StartPaused /\ reply \in {"unblocked", "nochange"} =>
        frozen = {} /\ ~blocked

\* get_status says paused exactly when some thread is held (mcp_server.py,
\* get_status), by either kind of pause or both.
StatusIsTrue ==
    ~Faults =>
        /\ reply = "paused" => frozen # {} \/ blocked
        /\ reply = "running" => frozen = {} /\ ~blocked

\* A pause request is answered however fast the application starts threads, and
\* whatever fails.
PauseAnswered == reply = "pending" ~> reply # "pending"

-----------------------------------------------------------------------------
(* What the properties need to be inductive.                               *)

Loose == (alive \cap Apps) \ frozen   \* the application threads that run

\* A request is under way until it is answered, and a thread that is suspended
\* stays alive and shows up in the listing after.
Busy ==
    /\ act # "idle" => reply = "pending"
    /\ act = "suspend" => listed \subseteq Apps /\ round < MaxIter
    /\ frozen \subseteq alive
    /\ act = "sort" => frozen \subseteq listed

Known == FrozenAreKnown /\ StatusIsTrue

\* With no thread running in the listing, there is none to start another.
Stopped ==
    ~Faults /\ ~DaemonsSpawn =>
        /\ PausedMeansStopped
        /\ act = "sort" /\ listed \cap Apps \subseteq frozen => Loose = {}

\* Every listing but the first has one running thread for a birth at least; one
\* that runs and is not in it has been started since.
Counted ==
    ~Faults =>
        /\ act = "list" =>
              /\ births + 1 >= round
              /\ Loose # {} => births >= round
        /\ act = "sort" /\ ~(listed \cap Apps \subseteq frozen) =>
              /\ births >= round
              /\ Loose \ listed # {} /\ round < MaxIter => births > round
        /\ act = "sort" => births + 1 >= round
        /\ act = "suspend" =>
              /\ births >= round
              /\ Loose \ listed # {} => births > round
        /\ RaceNeedsBirths

Released == ~StartPaused => ~blocked /\ ResumeMeansRunning

IInv == TypeOK /\ Busy /\ Known /\ Stopped /\ Counted /\ Released
=============================================================================
