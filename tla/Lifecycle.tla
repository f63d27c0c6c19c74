----------------------------- MODULE Lifecycle -----------------------------
(***************************************************************************)
(* How the agent starts, holds the JVM before main() and at its exit, and  *)
(* goes away (prof-server.c, jvm-shutdown.c, jvmti-hooks.c, SysUtils.java, *)
(* ShutdownHook.java).  Five parties run: the main thread, the event loop  *)
(* on the agent thread, the shutdown hook, the thread that leads the JVM   *)
(* through its exit, and the clients, whose requests the listener thread   *)
(* puts on the event queue.  They meet at that queue, at resume_mutex, at  *)
(* three semaphores and at the Java monitors of Runtime.exit.              *)
(*                                                                         *)
(* Pausing is one step here; ThreadPause has the steps.  Every request     *)
(* that only reads, or works on instruments, is the one called "status".   *)
(***************************************************************************)
EXTENDS Integers, Sequences

CONSTANTS Requests,  \* the kinds of request the clients make
          MaxReq,    \* how many they make (bound)
          Envs       \* the environments of the agent that are looked at

ASSUME EnvsAssumption ==
    Envs \subseteq [start : BOOLEAN, exit : BOOLEAN, signals : BOOLEAN, faults : BOOLEAN]
ASSUME RequestsAssumption == Requests \subseteq {"status", "pause", "resume", "shutdown"}
ASSUME MaxReqAssumption == MaxReq \in Nat

VARIABLES env,      \* the environment of this process, which never changes
          main,     \* the main thread: VMInit callback, main(), exit
          running,  \* ps->thread_running
          paused,   \* ps->paused
          loop,     \* the agent thread
          queue,    \* ps->ev_q
          sent,     \* requests made so far
          frozen,   \* suspended threads, which are also the snapshot
          hook,     \* the shutdown hook thread
          started,  \* blocker->started_sem
          hold,     \* blocker->sem
          done,     \* ps->shutdown_sem
          exit,     \* how far the exit of the JVM is
          leader,   \* the thread that leads the JVM through its exit
          closer,   \* the thread of SysUtils.jniSafeExit
          shutting, \* ps->shutting_down
          collector,  \* the thread that records the statistics, tick by tick
          told        \* has it been interrupted?

server == <<running, paused, shutting>>
stats  == <<collector, told>>
sems   == <<started, hold, done>>
jvm    == <<hook, exit, leader>>
vars   == <<env, main, loop, queue, sent, frozen, closer, server, stats, sems, jvm>>

PauseOnStart == env.start    \* JAUTO_PROF_PAUSE_ON_START
PauseOnExit  == env.exit     \* JAUTO_PROF_PAUSE_ON_EXIT
Signals      == env.signals  \* may a signal (SIGINT, SIGTERM) end the JVM?
Faults       == env.faults   \* may JNI, JVMTI or malloc fail?

TypeOK ==
    /\ env \in Envs
    /\ main \in {"boot", "launched", "wait", "run", "exit"}
    /\ running \in BOOLEAN /\ paused \in BOOLEAN
    /\ loop \in {"none", "run", "leaving", "done"}
    /\ queue \in Seq(Requests \cup {"starting", "stop"})
    /\ sent \in 0..MaxReq
    /\ frozen \subseteq {"main", "hook"}
    /\ hook \in {"unset", "set", "java", "wait1", "wait2", "back", "done", "missed", "skipped"}
    /\ started \in 0..3 /\ hold \in 0..1 /\ done \in 0..1
    /\ exit \in {"no", "hooks", "unload", "freed", "gone"}
    /\ leader \in {"none", "main", "closer", "signal"}
    /\ closer \in {"none", "new", "exit", "failed"}
    /\ shutting \in BOOLEAN /\ told \in BOOLEAN
    /\ collector \in {"none", "waits", "ticks", "ended"}

\* ps_init, in Agent_OnLoad: the socket is open before the JVM is initialised.
Init ==
    /\ env \in Envs
    /\ main = "boot" /\ loop = "none" /\ hook = "unset" /\ closer = "none"
    /\ running = FALSE
    /\ paused = PauseOnStart
    /\ queue = <<>> /\ sent = 0
    /\ frozen = {}
    /\ started = 0 /\ hold = 0 /\ done = 0
    /\ exit = "no" /\ leader = "none"
    /\ shutting = FALSE
    /\ collector = "none" /\ told = FALSE

\* Nothing runs in a process that is gone.
Up == exit # "gone"

-----------------------------------------------------------------------------
(* Start-up, in the VMInit callback.                                       *)

\* ps_start as far as RunAgentThread, and init_refs of the event loop, which
\* loads ProfilerRegistry.  A hook cannot be set during the exit.
StartAgent ==
    /\ Up /\ main = "boot" /\ exit = "no"
    /\ main' = "launched"
    /\ hook' = "set"
    /\ \/ loop' = "run" /\ collector' = "waits" /\ UNCHANGED done
       \/ /\ Faults                              \* init_refs fails
          /\ loop' = "done" /\ done' = 1
          /\ collector' \in {"none", "waits"}
    /\ UNCHANGED <<env, queue, sent, frozen, closer, server, told, started, hold, exit, leader>>

\* ps_start fails: main goes on without the agent thread, and does not wait.
\* The hook is set if RunAgentThread is what fails.
StartFails ==
    /\ Up /\ main = "boot"
    /\ Faults \/ exit # "no"
    /\ main' = "run"
    /\ (exit = "no" /\ hook' = "set") \/ UNCHANGED hook
    /\ UNCHANGED <<env, loop, queue, sent, frozen, closer, server, stats, sems, exit, leader>>

\* The end of ps_start.
FinishStart ==
    /\ Up /\ main = "launched"
    /\ main' = "wait"
    /\ running' = TRUE
    /\ UNCHANGED <<env, loop, queue, sent, frozen, closer, paused, shutting, stats, sems, jvm>>

\* ps_wait_for_resume returns.
Proceed ==
    /\ Up /\ main = "wait" /\ ~paused
    /\ main' = "run"
    /\ UNCHANGED <<env, loop, queue, sent, frozen, closer, server, stats, sems, jvm>>

-----------------------------------------------------------------------------
(* The exit of the JVM.                                                    *)

\* Runtime.exit, and the exit of the last application thread: the first caller
\* starts the hooks and leads, a later one waits until the JVM is gone.
BeginExit(thread) ==
    IF exit = "no" THEN /\ exit' = "hooks"
                        /\ hook' = IF hook = "set" THEN "java" ELSE "done"
                        /\ leader' = thread
                   ELSE UNCHANGED jvm

MainExits ==
    /\ Up /\ main = "run" /\ "main" \notin frozen
    /\ main' = "exit"
    /\ BeginExit("main")
    /\ UNCHANGED <<env, loop, queue, sent, frozen, closer, server, stats, sems>>

\* The JVM's own handler of a signal calls System.exit on a daemon thread.
Signal ==
    /\ Up /\ Signals /\ exit = "no"
    /\ BeginExit("signal")
    /\ UNCHANGED <<env, main, loop, queue, sent, frozen, closer, server, stats, sems>>

\* SysUtils.jniSafeExit: the new thread is a daemon, as its parent is.
CloserExits ==
    /\ Up /\ closer = "new"
    /\ closer' = "exit"
    /\ BeginExit("closer")
    /\ UNCHANGED <<env, main, loop, queue, sent, frozen, server, stats, sems>>

\* Mutant: the hook does not wait until the collector is stopped.
HookEntersAtOnce ==
    /\ Up /\ hook = "java" /\ "hook" \notin frozen
    /\ hook' = IF PauseOnExit THEN "wait2" ELSE "back"
    /\ queue' = IF PauseOnExit THEN Append(queue, "starting") ELSE queue
    /\ UNCHANGED <<env, main, loop, sent, frozen, closer, server, stats, sems, exit, leader>>

\* nativeShutdownCallback: invoke_callbacks, and shutdown_wait_callback unless
\* JNI fails before it is reached.
HookEnters ==
    /\ Up /\ hook = "java" /\ "hook" \notin frozen
    /\ \/ /\ ~PauseOnExit
          /\ hook' = "back"
          /\ UNCHANGED <<queue, started>>
       \/ /\ Faults
          /\ hook' = "missed"
          /\ UNCHANGED <<queue, started>>
       \/ /\ PauseOnExit
          /\ hook' = "wait1"
          /\ \/ queue' = Append(queue, "starting") /\ UNCHANGED started
             \/ Faults /\ started' = started + 1 /\ UNCHANGED queue
    /\ UNCHANGED <<env, main, loop, sent, frozen, closer, server, stats, hold, done, exit, leader>>

HookStarts ==
    /\ Up /\ hook = "wait1" /\ started > 0
    /\ hook' = "wait2"
    /\ started' = started - 1
    /\ UNCHANGED <<env, main, loop, queue, sent, frozen, closer, server, stats, hold, done,
                   exit, leader>>

HookReleased ==
    /\ Up /\ hook = "wait2" /\ hold > 0
    /\ hook' = "back"
    /\ hold' = hold - 1
    /\ UNCHANGED <<env, main, loop, queue, sent, frozen, closer, server, stats, started, done,
                   exit, leader>>

\* A suspended thread leaves native code only once it is resumed.
HookEnds ==
    /\ Up /\ hook \in {"back", "missed"} /\ "hook" \notin frozen
    /\ hook' = IF hook = "back" THEN "done" ELSE "skipped"
    /\ UNCHANGED <<env, main, loop, queue, sent, frozen, closer, server, stats, sems, exit,
                   leader>>

\* The leader has joined the hook and calls Agent_OnUnload; ps_destroy asks the
\* event loop to stop.
Unload ==
    /\ Up /\ exit = "hooks" /\ hook \in {"done", "skipped"} /\ leader \notin frozen
    /\ exit' = "unload"
    /\ \/ running /\ queue' = Append(queue, "stop")
       \/ (running => Faults) /\ UNCHANGED queue
    /\ UNCHANGED <<env, main, loop, sent, frozen, closer, server, stats, sems, hook, leader>>

\* Mutant: the event loop is told to stop, and not waited for.
DestroyAtOnce ==
    /\ exit = "unload"
    /\ exit' = "freed"
    /\ queue' = <<>>
    /\ UNCHANGED <<env, main, loop, sent, frozen, closer, server, stats, sems, hook, leader>>

\* The rest of ps_destroy: sockets, queue, semaphores and ps itself are freed.
Destroy ==
    /\ exit = "unload"
    /\ running => done > 0
    /\ exit' = "freed"
    /\ done' = IF running THEN done - 1 ELSE done
    /\ queue' = <<>>
    /\ UNCHANGED <<env, main, loop, sent, frozen, closer, server, stats, started, hold, hook,
                   leader>>

Halt ==
    /\ exit = "freed"
    /\ exit' = "gone"
    /\ UNCHANGED <<env, main, loop, queue, sent, frozen, closer, server, stats, sems, hook,
                   leader>>

-----------------------------------------------------------------------------
(* The clients and the event loop.                                         *)

\* ps_uif_handler, until uif_destroy has joined the listener thread.
Ask(request) ==
    /\ exit \notin {"freed", "gone"} /\ sent < MaxReq
    /\ sent' = sent + 1
    /\ queue' = Append(queue, request)
    /\ UNCHANGED <<env, main, loop, frozen, closer, server, stats, sems, jvm>>

\* evq_wait and dispatch.
Take(message) ==
    /\ Up /\ loop = "run" /\ queue # <<>>
    /\ Head(queue) = message
    /\ queue' = Tail(queue)

HandleStatus ==
    /\ Take("status")
    /\ UNCHANGED <<env, main, loop, sent, frozen, closer, server, stats, sems, jvm>>

\* handle_usr_rq_pause_threads: main and the hook are not daemons.
HandlePause ==
    /\ Take("pause")
    /\ frozen' = {"main"} \cup (IF hook \in {"set", "done", "skipped"} THEN {} ELSE {"hook"})
    /\ UNCHANGED <<env, main, loop, sent, closer, server, stats, sems, jvm>>

HandleResume ==
    /\ Take("resume")
    /\ paused' = FALSE
    /\ frozen' = IF paused THEN frozen ELSE {}
    /\ UNCHANGED <<env, main, loop, sent, closer, running, shutting, stats, sems, jvm>>

\* handle_shutdown_request while main waits: _exit.
HandleShutdownPaused ==
    /\ Take("shutdown")
    /\ paused
    /\ exit' = "gone"
    /\ UNCHANGED <<env, main, loop, sent, frozen, closer, server, stats, sems, hook, leader>>

\* jni_stop_profiler_collector: an interrupt, which nobody waits for.
StopCollector == told' = TRUE \/ (Faults /\ UNCHANGED told)

\* Mutant: the hook is not released.
HandleShutdownHolds ==
    /\ Take("shutdown")
    /\ ~paused
    /\ closer' = "new"
    /\ loop' = "leaving"
    /\ UNCHANGED <<env, main, sent, frozen, server, stats, sems, jvm>>

\* handle_shutdown_request otherwise: System.exit, with the hook released.
HandleShutdown ==
    /\ Take("shutdown")
    /\ ~paused
    /\ IF PauseOnExit THEN /\ StopCollector
                           /\ started' = started + 1
                           /\ hold' = hold + 1
                      ELSE UNCHANGED <<told, started, hold>>
    /\ \/ closer' = "new"
       \/ Faults /\ closer' = "failed"  \* jni_system_exit finds no SysUtils
    /\ loop' = "leaving"
    /\ UNCHANGED <<env, main, sent, frozen, server, collector, done, jvm>>

\* Mutant: the hook is released as well.
HandleStartingReleases ==
    /\ Take("starting")
    /\ shutting' = TRUE
    /\ StopCollector
    /\ started' = started + 1
    /\ hold' = hold + 1
    /\ UNCHANGED <<env, main, loop, sent, frozen, closer, running, paused, collector, done, jvm>>

\* handle_shutdown_starting and jvm_prepare_shutdown.
HandleStarting ==
    /\ Take("starting")
    /\ shutting' = TRUE
    /\ StopCollector
    /\ started' = started + 1
    /\ UNCHANGED <<env, main, loop, sent, frozen, closer, running, paused, collector, hold,
                   done, jvm>>

HandleStop ==
    /\ Take("stop")
    /\ loop' = "leaving"
    /\ UNCHANGED <<env, main, sent, frozen, closer, server, stats, sems, jvm>>

\* The end of event_loop.
LoopEnds ==
    /\ Up /\ loop = "leaving"
    /\ loop' = "done"
    /\ done' = done + 1
    /\ UNCHANGED <<env, main, queue, sent, frozen, closer, server, stats, started, hold, jvm>>

-----------------------------------------------------------------------------
(* The collector, a daemon of its own.                                     *)

\* The time of the next tick has come, and no interrupt before it.
TickBegins ==
    /\ Up /\ collector = "waits" /\ ~told
    /\ collector' = "ticks"
    /\ UNCHANGED <<env, main, loop, queue, sent, frozen, closer, server, told, sems, jvm>>

\* The entries are recorded, and zeros for the ticks that were missed.
TickEnds ==
    /\ Up /\ collector = "ticks"
    /\ collector' = "waits"
    /\ UNCHANGED <<env, main, loop, queue, sent, frozen, closer, server, told, sems, jvm>>

\* The interrupt is seen at the head of the loop or ends the sleep.
CollectorStops ==
    /\ Up /\ collector = "waits" /\ told
    /\ collector' = "ended"
    /\ UNCHANGED <<env, main, loop, queue, sent, frozen, closer, server, told, sems, jvm>>

-----------------------------------------------------------------------------
Start == StartAgent \/ StartFails \/ FinishStart \/ Proceed

Exiting == CloserExits \/ Unload \/ Destroy \/ Halt

Hook == HookEnters \/ HookStarts \/ HookReleased \/ HookEnds

Collector == TickBegins \/ TickEnds \/ CollectorStops

EventLoop ==
    \/ HandleStatus \/ HandlePause \/ HandleResume
    \/ HandleShutdown \/ HandleShutdownPaused
    \/ HandleStarting \/ HandleStop \/ LoopEnds

Next ==
    \/ Start \/ Exiting \/ Hook \/ EventLoop \/ Collector
    \/ MainExits \/ Signal
    \/ \E request \in Requests : Ask(request)

Spec == Init /\ [][Next]_vars

\* Threads that can run do; the application need not end, nor a client ask.
FairSpec ==
    Spec /\ WF_vars(Start) /\ WF_vars(Exiting) /\ WF_vars(Hook) /\ WF_vars(EventLoop)

-----------------------------------------------------------------------------
(* Properties.                                                             *)

\* With PauseOnExit, "the target will also pause on JVM exit until the profiler
\* client sends a shutdown command" (README.md:30): the agent is not unloaded
\* before, whoever started the exit and whatever the clients asked, once the
\* agent thread has been started and unless the hook itself fails before its
\* wait (invoke_callbacks).
ExitHeld ==
    PauseOnExit /\ loop # "none" /\ exit \in {"unload", "freed"} =>
        closer # "none" \/ hook = "skipped"

\* While the exit is held so that final statistics can be collected
\* (README.md:30-31), get_status says that the JVM is shutting down and the
\* collector begins no tick: what it may still record is the tick it was in
\* when it was interrupted (ProfilerRegistry.collect).  Without faults: the
\* hook goes on by itself when its message cannot be allocated.
HeldIsFinal ==
    [][~Faults /\ hook = "wait2" /\ closer = "none" =>
           shutting /\ (collector' = "ticks" => collector = "ticks")]_vars

\* A shutdown request that is taken up ends the JVM, whatever holds it at its
\* exit and whoever leads, if no thread is suspended then.
ShutdownCompletes == closer \in {"new", "exit"} /\ frozen = {} ~> exit = "gone"

\* When the application ends the JVM, ps is freed only once no thread is left
\* inside the agent: not the event loop, and not main in ps_start or in
\* ps_wait_for_resume.
FreedOnlyWhenUnused ==
    exit = "freed" /\ leader = "main" =>
        loop \in {"none", "done"} /\ main \in {"run", "exit"}

\* "Request the profiled JVM to shut down cleanly via System.exit(0)"
\* (mcp_server.py:374-377): a shutdown request that is taken up ends the JVM.
ShutdownEndsJVM == closer \in {"new", "exit"} ~> exit = "gone"

-----------------------------------------------------------------------------
(* What the safety properties need to be inductive.                        *)

Counts ==
    /\ env \in Envs
    /\ started \in Int /\ hold \in Int /\ done \in Int
    /\ queue \in Seq(Requests \cup {"starting", "stop"})

\* The exit is past the hook only if a shutdown request has posted hold, the hook
\* failed, or it was never set, and then there is no agent thread.
Held ==
    /\ hold > 0 => closer # "none"
    /\ exit = "no" => hook \in {"unset", "set"}
    /\ hook \in {"unset", "set"} => exit \in {"no", "gone"}
    /\ hook = "unset" => loop = "none"
    /\ PauseOnExit /\ hook = "back" => closer # "none"
    /\ PauseOnExit /\ hook = "done" => closer # "none" \/ loop = "none"
    /\ exit \in {"unload", "freed"} => hook \in {"done", "skipped"}

\* started is posted only once the collector is told, and a hook that got past
\* it while no shutdown was asked for got past it by its own message.
Final ==
    ~Faults =>
        /\ started > 0 => told /\ (shutting \/ closer # "none")
        /\ hook = "wait2" /\ closer = "none" => shutting /\ told

\* When main ends the JVM it has left the agent; and the event loop posts done
\* as the last thing.
Unused ==
    /\ done > 0 => loop = "done"
    /\ main = "boot" => loop = "none"
    /\ running => main \in {"wait", "run", "exit"}
    /\ ~running /\ main \in {"wait", "run", "exit"} => loop = "none"
    /\ exit = "no" => leader = "none"
    /\ leader = "main" =>
           /\ main = "exit"
           /\ running /\ exit = "freed" => loop = "done"

IInv == Counts /\ Held /\ Final /\ Unused
=============================================================================
