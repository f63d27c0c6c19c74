# jauto-profiler: TLA+ models, checks and proofs

jauto-profiler is a JVMTI agent (C), a small Java library that it loads into the
profiled JVM, and a client library (Python) with an MCP server and a command line on
top. A client asks over a socket for methods or line ranges to be instrumented; the
agent rewrites the classes; the woven probes count calls and time; a collector thread
takes a snapshot of every probe at every tick; the client fetches the snapshots.

The modules here model what the program keeps and does in that loop, TLC checks small
instances of them, and TLAPS proves part of it for all instances. All paths below are
relative to the repository, C sources to `c-src/main`.

## 1. The system

| component | state | operations | runs on |
|---|---|---|---|
| instrument handler (`instrument-handler.c`, `master-instruments.c`, `queued-instrument.c`, `class-info*.c`) | table of instruments by id, queue of sides that wait for a class, list of classes with the probes of each | instrument method / line, deinstrument, class loaded | event loop |
| class loading (`jvmti-hooks.c`, `jni/jni-profiler.c`) | the bytecode each class runs | load hook, retransform | any JVM thread, event loop |
| bytecode transformer (`BytecodeTransformer.java`, `jni/bc-instrument.c`) | none | weave the probes of a class | event loop |
| profilers (`ProfilerRegistry.java`, `ProfilerEntry.java`, `Profiler.java`) | slots, counters, per-thread depth, rings of snapshots | create, remove, enter, exit, enterLine, exitLine, record, backfill, stop | event loop, application threads, collector |
| error log (`prof-err-log.c`) | ring of messages | push, iterate | event loop |
| thread pause (`ps-thread-state.c`) | list of suspended threads | suspend, resume | event loop, against the application's threads |
| life cycle (`prof-server.c`, `jvm-shutdown.c`, `jni/jni-shutdown.c`, `ShutdownHook.java`, `SysUtils.java`) | paused and running flags, three semaphores, event queue | start, hold before main, hold at exit, shutdown, unload | main, event loop, hook, the thread that leads the exit |
| socket server (`user-if.c`, `prof-server-ev.c`) | connections, reference counts, buffers | accept, read, hang up, queue, answer, close | listener thread, event loop |
| event queue (`util/ev-queue.c`) | messages, free nodes, a condition | push, wait | every thread of the agent |
| message formats (`ps-uif-handler.c`, `uif-response.c`, `user-if.h`, `pstring.h`, `prof_client.py`) | none | pack and unpack, twice | listener, event loop, client |
| client library (`prof_client.py`) | one connection | call, retry, close | client process |
| hash table (`util/hash-tab.c`) | table of entries and list through them | add, look up, remove, iterate | event loop |

How they interact. The listener thread reads requests, takes a reference to the client
structure and puts a message on the event queue. The load hook, on whatever thread
loads a class, puts a class-loaded message there; the shutdown hook and the unloading
put theirs. The event loop takes one message after the other and is the only thread
that touches the instrument handler, the error log and the thread pause; it calls the
Java library and the JVM, and writes the answer to the client's descriptor. Application
threads and the collector meet the event loop only in the slots of the registry.

What is hard here:

- *Concurrency.* Class loading against the class-loaded message; threads that start
  while others are suspended; frames that run replaced bytecode with the number of a
  slot that has been given away; two counters read while they are written; a
  descriptor closed and reused while an answer is written; five parties at the exit.
- *Failure.* A rewrite that fails for the second class of a line, a class version that
  lacks the instrumented line, a pause that fails half-way, a handler with no answer.
- *Ordering and timeouts.* Two kinds of pause and one resume; shutdown while paused; a
  request sent again after a timeout; ticks the collector has missed.

What makes each component correct:

- instrument handler: its four tables say the same thing at all times; nothing is lost
  without a message to the error log; ids are unique; what is reported as applied runs,
  what is reported as removed does not; a deferred instrument is applied when its class
  loads.
- profilers: snapshots are cumulative and gapless and count no call without its time;
  depths equal the frames; calls go to the instrument they were woven for.
- error log: the most recent entries, oldest first.
- thread pause: ok means stopped; the suspended threads are known; resume and status
  tell the truth; every pause is answered.
- life cycle: the exit is held until a shutdown request, no new tick changes the
  statistics meanwhile, a shutdown request ends the JVM, nothing is freed under a thread.
- bytecode transformer: enter and exit balance however a method is left; lines are seen
  wherever they begin; the method does what it did before; nothing asked for is missing.
- requests: one answer to one call, its own; references match; every call ends.
- wire: however bytes are cut up, the request carried out is the one sent and the result
  returned the one answered; buffers fit; queue nodes are neither lost nor shared.
- hash table: a dictionary.

`PROJECT.json` lists under `hazards` the places where these can go wrong and the
properties that watch them.

## 2. The modules

| module | what it is | MC module | proofs |
|---|---|---|---|
| `Instruments`, `InstrumentLife` | instrument handler, class loading, slots, bytecode; what a client is told of an instrument | `MCInstruments` | `InstrumentsProofs` |
| `Weave`, `MethodRun` | the bytecode transformer and a method with its probes; the method without them | `MCWeave` | `WeaveProofs` |
| `Profilers` | registry, probes, counters, collector | `MCProfilers` | `ProfilersProofs` |
| `ErrLog`, `RecentErrors` | the ring, and the log it implements | `MCErrLog` | `ContainerProofs` |
| `ThreadPause` | suspending and resuming the application | `MCThreadPause` | `ThreadPauseProofs` |
| `Lifecycle` | start-up, holds, shutdown, exit | `MCLifecycle` | `LifecycleProofs` |
| `Requests` | client library, sockets, listener, event loop, with whole messages | `MCRequests` | `RequestsProofs` |
| `Wire`, `Codec`, `EvQueue`, `RemoteCall` | the same way in bytes: framing, formats, queue nodes; the remote call it implements | `MCWire` | `WireProofs` |
| `HashTab`, `Dictionary` | the hash table, and the dictionary it implements | `MCHashTab` | `ContainerProofs` |

Definitions carry the names of the functions they model or the name of the step; the
`map` of `PROJECT.json` gives the lines. Definitions whose comment begins with *Mutant*
are not part of a specification: each is what one plausible mistake would make of the
definition below it, and is used to see that a property notices it.

### Instruments

A handler runs to completion on the event loop, so a request is one action. The
class-loaded handler has loops in which the JVM's steps matter (a class can be defined
between two retransformations), so it is cut into one action per iteration, with `cur`
keeping other handlers out. `Apply` gives every outcome of building new bytecode and
retransforming a class: not built, built and refused, applied to the class of the right
loader or to one of the same name, or, when the hook of the retransformation has no memory,
answered ok with the class as it was compiled, from which the JVM starts every
retransformation. `Install` is the common end of an immediate and a deferred instrument. Sides ("method", "enter", "exit") are deferred one by one.

Abstractions. The code keeps two lists per class, of methods and of lines; their sites
are disjoint, so one list searched by site finds the same element. The queue is a set:
two elements of one class are handled in either order. A slot is chosen as the registry
does, as the first inactive index. `errs` is the set of ids whose loss was logged and
`dropped` of those whose message the log had no memory for; the order and text of the log
are in `ErrLog`. The server may have no memory for a class-loaded message (`LoadHook`) or
for the class (`ForgetClass`), which then stays unknown. A class-loaded message may be
handled before its class is defined; `early` is a history variable with the versions of
which that happened. What a class contains is the constant
`Content`, by loader, so that a version of a class can lack what another one has. The
set-up failures of a request (no memory, no profiler) are the one disjunct
`InstrumentRefused`, under `Faults`; `jni_remove_profiler` fails only for a slot number
that does not exist, and is taken to succeed. The clean-up of a failed reapply drops the
list element by element, where the code drops it at the end and reads it nowhere else.
The internal instruments called var_bind have no request and no profiler and are left
out. A handler branch for a missing class is dead code by `DeferredIffUnknown` and is
not modelled.

`InstrumentLife` is what the documentation tells a client: an id is given out once; the
instrument is refused, active or deferred; a deferred one becomes active, is removed or
is lost; of what is lost the log of errors is told by the time it is gone, and it keeps
the message unless it has no memory for it. Its state is read off the master table (there
or not, deferred sides), `told`, `errs` and `dropped`. The log may name an instrument
before it is gone, since the class-loaded handler logs all instruments of a class it
could not rewrite before it drops the first. A global reference to a loader is taken to
be made.

### Weave

A class is a function from signatures to methods, a method a sequence of instructions
and an exception table. An instruction works, branches, returns or throws; whether it
completes, jumps or throws is a choice. `WithProbes` and `WithLineProbes` are the two
adapters: block `b` of the new code is what is emitted for instruction `b`, block 0 what
`visitCode` emits and block `n + 1` what `visitMaxs` appends. Labels are blocks, because
ASM visits a label before the line number and the instruction behind it. The properties
are about the activation of such a method: what has run of it and of the probes.
`MethodRun` is the method as it was written, with the JVM's rule for exception tables.

`entered` and `exited` count calls of the registry in one activation, `fired` the line
probes since the start of the block. Probes themselves do not throw, and neither does a
return instruction. `IsMethod` asks for a return or a throw at the end: a method that ends
in a jump backwards, as `while (true)` does, is here the one with a return behind it that
is never reached. Operand stacks, stack maps
(`COMPUTE_FRAMES`, `getCommonSuperClass`) and the class file's layout belong to ASM.

### Profilers

A frame carries the slot number woven into the code it runs, because a thread inside a
method whose bytecode is replaced goes on with the old bytecode. `exit` adds to
`totalNanos` first and to `callCount` after; `record` reads `callCount` first: both are
two steps here, and the order is what `TimeIsIncluded` rests on. It is a property of one
snapshot, and so of the time per call since the probe was set; what it leaves to the
difference of two is in section 4. A call lasts one unit.
Missed ticks are filled in one after the other, as many as the scheduler makes it.
`Quiet` restricts removal to probes no thread is inside of, which is what a client can
arrange with `pause_threads` only for threads that happen to be elsewhere.

### ErrLog

`Push` is `do_push`; reading the ring is one step, since the response is filled by the
thread that pushes. `RecentErrors` is the documented promise: a sequence of the last
`Cap` messages, oldest first. The refinement maps it to what the iterator returns.

### ThreadPause

The suspend loop is split into listing, sorting the listing and suspending thread by
thread; the application spawns and exits between any two steps. A thread stands for a
slot: its name is reused once it is dead and not in the agent's listing. Under `Faults`
a listing, an allocation, the description of a thread, its state, its suspension and its
resumption may each fail. `births` counts the threads started since the pause began; it
is a history variable that `RaceNeedsBirths` is stated with. A resume is one step: the
threads it has freed cannot be told from those it is about to free, and the agent takes
no other request in between.

### Lifecycle

Main, the event loop, the hook, the leader of the exit and the thread of
`SysUtils.jniSafeExit` are each a variable. The exit follows the JVM: the first caller
of `Runtime.exit` leads, runs the hooks, joins them, unloads the agent and halts; later
callers block. A pause is one step (`ThreadPause` has the steps); what matters here is
that it suspends the hook. The collector waits for its tick, is in it, or has ended; the
server only interrupts it, and it sees that when its tick is over (`StopCollector`,
`TickEnds`, `CollectorStops`). A JNI failure in `invoke_callbacks` lets the hook end
before its wait (`missed`, then `skipped`). `ps_destroy` is asked in `Unload` and done in
`Destroy`.

### Requests

A call is a number and its answer is the same number, so `returned` shows whether a call
got its own answer. The listener's closing of a client is two steps (flag, then
descriptor), and so is an answer (look at the flag, then write), with the kernel free to
give the descriptor to the next connection in between. A client is closed when it has gone
(`Hangup`) and when its message is too large or finds no memory (`Reject`). Messages are
whole here; `Wire` has their bytes. All requests are answered alike; what they do is in the
other modules.

### Wire

`Wire` follows the bytes: `sendall` and `recv` in pieces, a socket that holds a few
bytes, the listener's buffer with `bytes_read`, `buf_expected` and `buf_alloc`, parsing,
the nodes of the queue, dispatch and `write_exact` in pieces. `Codec` has the formats
twice, as the two programs have them: `PackRequest` and `ReadAnswer` are
`prof_client.py`, `ParseRequest` and `PackAnswer` are `ps-uif-handler.c` and
`uif-response.c`. A byte of a number is a triple that tells which byte of which number it
is, so that a reader that is off by one field or one byte finds nonsense; widths are in
proportion (u8 and u16 1, u32 2, u64 3). `EvQueue` is the queue with its list of free
nodes; every operation is under one mutex and is one step, except that the event loop
sleeps in between.

`RemoteCall` is what a client relies on: a request is carried out once at most, as it was
asked, and the call returns what was answered, or raises. The refinement maps `returned`
to what `ReadAnswer` makes of the bytes that came. Where memory runs out (`faults`) a
buffer that cannot grow closes the connection, and a request or an answer may be dropped on
the way, in the handler, the queue, the event loop or `uif_respond_*`; `denied` has the
clients whose call gets no answer then. Clients wait as long as it takes and
stay connected; those that do not are in `Requests`. A client may be stuck: it stops
sending or reading at any point. The request to shut down has no answer: it is a step of
`Lifecycle` and of `Requests`, not of `Wire`.

### HashTab

`hash_tab_remove` is a loop that moves entries; it is one action per iteration, so that
the dictionary and the list are seen to be right in between. Pointers are positions; the
list is a sequence. The loop of `rehash` is a recursive function of the number of entries
moved. A failed allocation changes nothing and is not a step. The
refinement maps the table to `Dictionary`; an iteration of the loop is a stutter.

## 3. The runs

The modules `ThreadPause`, `Lifecycle`, `Requests` and `Wire` have a variable `env` that is
chosen in the initial state and never changes: the environment variables of the agent,
and what may happen to the process (signals, faults, timeouts, clients that quit). One
run looks at many environments, and a property names what it needs of the environment.

| run | instance | shows |
|---|---|---|
| `InstrTables` | 2 classes, 2 loaders for one of them, 1 method, 1 line, 2 ids, 2 slots, faults, one class version without sites | tables agree; instruments live as their client is told |
| `InstrBenign` | the same classes with all sites, no faults | deferred instruments are handled, and given up only when the message overtook a definition; until then applied instruments run and there are no orphan probes |
| `ErrLogRing` | ring of 3, 3 messages | the ring is the bounded log |
| `Pause` | main, 3 threads, 1 daemon, 2 rounds; every environment without faults and the richest with faults | ok means stopped; list, status and resume are right; a pause is answered |
| `Life` | 3 requests of 4 kinds; all 16 environments | the exit is held unless the hook fails, no tick begins meanwhile, nothing freed under a thread, shutdown ends the JVM |
| `Prof` | 2 threads, a method and a line instrument on one slot, depth 2, 3 ticks, ring of 2 | cumulative, gapless history; depths and counts across reuse of the slot |
| `Req` | 2 clients, 2 calls; shutdown alone, with a client in a hurry, with clients that quit; faults with a client that quits | references match, clients are freed; own answers, once; calls end |
| `Calls` | 2 clients; mixed requests with class loads, every request and answer once, memory running out (two environments), a client that is stuck with answers that fit its socket or do not | a remote call; buffers fit, nodes are kept, cut-off requests refused, calls return unless they were dropped for want of memory |
| `Weaving` | all methods of 3 instructions over 3 line patterns, up to 2 handlers; 6 requests | balance, lines seen, nothing missing, runs as before |
| `HashTable` | 4 keys of which three collide at the end of the table, capacity 4 to 8 | a dictionary, never full |

Two more runs are expected to find a violation (section 4).

`TypeOK` is part of the inductive invariants of section 5; in the modules without proofs
it documents the variables.

The bounds and why they are enough. Two classes and two ids give every combination of
sides known and unknown, one instrument removed or lost while the other stays, and a
slot reused; two loaders of one of the classes (`Versions`) give one replaced version. In
`Pause` two rounds are the loop
and its last check, and three threads besides main let one be started while another is
suspended. Three requests in `Life` suffice for pause, resume and shutdown in every
order. In `Prof` three ticks make a ring of two wrap around, and one slot makes the
second instrument take over the first one's. Two descriptors and two clients let one be
given to the other client. In `HashTable` the run of collisions wraps around the end of
the table and a rehash separates it. In `Calls` the sockets hold 2, 3 or 6 bytes, less than
a header or just more, so that every message is cut at every place; the initial free
list has one node, so that nodes are made, used and used again. In `Weaving` three
instructions give a protected range, its handler and what is behind it, in every order,
loops into the protected range included, and a table with one handler inside another.
Deadlock is not checked where the system may stop:
ids, ticks, calls and requests are bounded, an application may do nothing, and the
process ends. In `ErrLogRing` and `HashTable` it is.

Fairness. Only the agent's own threads and the JVM's are fair: the event loop goes on
with the message at hand and takes the next one (`WF` of its actions), because it is
never suspended and holds no lock while it waits; a class whose load hook has fired is
defined; the exit goes on. That the server is destroyed once its loop has ended is not
assumed in `Requests`: a suspended hook can keep it, as the run `LifePausedExit` shows.
Clients that wait read what arrives, and in `Calls` one that is not stuck goes on with its
call; the application is never assumed to do anything. In `Calls` each connection is fair by itself, because `epoll_wait` reports
every connection that has something to read. No strong fairness is used.

## 4. Where the code does something else

Two runs are expected to find a violation; `findings` in `PROJECT.json` has the lines
and the quotations.

| run | what happens |
|---|---|
| `InstrOrphan` | a line refused for its exit class leaves its entry probe running |
| `LifePausedExit` | shutdown with the hook suspended never ends the JVM |

The passing runs show the same properties under the condition that the violation
breaks: every exit class has its line (`InstrBenign`), no thread suspended at shutdown
(`Life`).

Other behaviour met while modelling, which conditions of the properties or switches of
the instances leave out. No run of its own checks it; the first two are found by TLC in
a few steps when the condition is dropped:

- A thread inside a method whose probe is removed and whose slot is given to another
  instrument drives the new profiler's depth negative; from then on its calls on that
  thread are not counted (`ProfilerRegistry.java:72`; `Quiet` FALSE, `DepthIsReentry`).
- An answer to a client that has gone is written to the client that was given its
  descriptor between the look at the closed flag and the write (`user-if.c:588`;
  `quits`, `OwnAnswer`).
- A client that does not read holds up every other one as soon as an answer does not
  fit into its socket: the event loop waits in `write_exact` (`user-if.c:83`; the
  condition `Fits` of `CallsReturn`).
- An abstract or native method is counted as matched and the request is answered ok,
  although there is no code to put a probe into (`BytecodeTransformer.java:214`).
- After a line could not be applied, the error message is built from the entry that
  `undo_ci_and_mi` has freed (`instrument-handler.c:478`).
- The handler of the listener and its data are set without synchronisation while the
  listener already runs (`user-if.c:573`).
- A removal of a line is answered OK although a class was not rewritten: `Strip` looks
  at `built` only (`instrument-handler.c:623`; `Faults`).
- A class is taken as rewritten although `ps_handle_retransform` had no memory for the new
  bytecode: the JVM then runs it without any probes (`prof-server.c:187-193`; `Faults`).
- Where memory runs out (`Faults`), a class-loaded message can get lost, and then the class
  is unknown to the server and what waits for it stays deferred (`prof-server-ev.c:92-104`,
  `prof-server.c:115-135`), and the error log can drop a message, so that an instrument is
  lost without a trace (`prof-err-log.c:87-89`).
- The class-loaded message can be handled before the class is defined (`jvmti-hooks.c:60`,
  `jni/jni-profiler.c:329`; `NoneEarly`). A deferred instrument is then given up; this is
  the only thing that does that when nothing fails, as `FailsOnlyWhenEarly` says. With the
  name in two loaders its probes, and those of applied instruments, are woven into the
  other version, and the new one runs without them: what `AppliedIsRunning` and
  `NoOrphanProbes` say holds until a message was early for the first time.
- An older version of a class, of another loader, keeps its probes when the instrument
  is removed.
- Of two line instruments on one line, the removal of one takes the first list element
  and frees its profiler, whichever it belongs to (`class-info.c:223`; `SharedLines`).
- A daemon can start application threads after a pause was ok (`spawning`).
- A pause during the start-up hold is not lifted by the resume that is answered
  unblocked, which lifts the hold only (`prof-server.c:430`; `start`).
- A pause that fails half-way leaves suspended threads that nobody resumes
  (`ps-thread-state.c:359`; `faults`). A second pause is answered ok; no path answers
  already_paused (`prof-server.c:311`).
- A signal during the start-up hold, or a shutdown request right after a resume, frees
  the server while main is still in `ps_wait_for_resume`; the comment at
  `prof-server.c:386-396` describes the hang, which only the shutdown request during
  the hold avoids. `FreedOnlyWhenUnused` is about exits that the application leads.
- The hook goes on by itself when its message cannot be allocated, so that the exit is
  held with the collector running (`HeldIsFinal` is stated without faults). When JNI fails
  in `invoke_callbacks` the hook ends without having waited, and the exit is not held
  (`jni/jni-shutdown.c:43-70`; `hook = "skipped"` in `ExitHeld`).
- The collector is interrupted and nobody waits for it, so a client that asks for the
  final statistics as soon as the exit is held may get them while the last tick is still
  being recorded (`ProfilerRegistry.java:85-87`, `170-191`); `HeldIsFinal` says that no
  tick begins any more. What was counted since the last tick is in no snapshot.
- The difference of two snapshots can count a call without its time, which the first of
  the two has (`ProfilerEntry.java:45`, `Profiler.java:51-59`). The time per call over an
  interval, as `mcp_server.py:256-257` tells clients to compute it, can therefore be too
  low, and too high as well; the errors cancel over the life of the probe (`TimeIsIncluded`).
- Frames in old line bytecode count for the slot's new instrument (`Quiet`).
- A call that timed out is sent again and waits once more (`prof_client.py:240`): it can
  be carried out twice, and the next call on the connection can read its late answer.
- A request or an answer that finds no memory is dropped without a word, and a client
  without a timeout waits for ever (`ps-uif-handler.c:48-51`, `ev-queue.c:127-131`,
  `prof-server.c:220`; `denied` in `CallsReturn`, `Faults` in `CallsEnd`).
- Calls that are queued behind a shutdown request end when the server is destroyed and
  closes their connections. With the hook suspended it never is, and they wait for ever
  (`prof-server.c:514`; `state = "stopping"` in `CallsEnd`, and the run `LifePausedExit`).

## 5. What is proved

TLAPS proves the following for every value of the constants, from the assumptions named
in the modules (types of the constants, disjointness of methods and lines, the null
values outside their types, positive capacities and bounds). Every invariant that a run
checks is a theorem, and so is every refinement.

*Instruments.* `IInv` is inductive: the type invariant, `QueueMatchesMaster`,
`NoSilentLoss` and six facts they need. The central ones: a queued side waits for a class
that is unknown, unless the class-loaded handler is at that class (`QueuedIsUnknown`); a
class list names applied instruments only (`ListedIsReady`), so that the clean-up of a
failed reapply never removes an instrument from the table that the queue still names; a
side that is not deferred has a known class (`DeferredSides`); what the clean-up removes
was reported to the log already (`CleanupLogged`). With them `DeferredIffUnknown` follows,
and `IdsNeverReused` is an action property of the same invariant. This holds with failures,
early messages and shared lines alike. `LivesAsToldHolds` is the refinement of
`InstrumentLife`: one lemma per action says which ids it touches and what becomes of
them, and `KeepsItsLife` that an id whose entry, answer and log do not change keeps its
life, so that a step of the handler is one step of one id or a report to the log.

`SlotsMatchMaster` and `ListsMatchMaster` rest on a second inductive invariant, `Tables`,
and hold with failures and early messages as long as no two line instruments share a line
(`~SharedLines`; with shared lines the code removes the wrong one, section 4). Its
conjuncts are the two properties' strengthenings: every instrument of the table fits its
request (`EntriesFit`) and no two claim the same site (`EntriesApart`), which is what lets
a search of a list by site find the right element; a queued side has the slot of its
instrument (`QueueSlots`); a list has nothing but applied sides, and all of them, except
where it is being cleaned up (`ListsSound`, `ListsComplete`); and no list has a site twice
(`AllNeat`), so that the removal of one element removes all of a site. The proof goes
through what each loop of the handler does to a list (`Without`, `WithoutHead`).

What runs is a third layer. As long as no message has come before the definition of its
class (`NoneEarly`; it stays so once it is not, `EarlyStays`), a class the server knows is
defined in the JVM (`KnownDefined`), and an applied instrument is in its bytecode
(`Running`): this is `Runs`, and `AppliedIsRunning` follows. It needs no memory to run out
(`~Faults`), since a class is taken as rewritten when the hook had none, but versions of a
class may lack sites: a rewrite that finds none leaves the old bytecode, and the handler
drops what was new. That the bytecode is *exactly* the list (`ExactUnlessEarly`) needs
that nothing fails (`NothingFails`: no faults, and every version of a class has every
site), since a removal is answered ok when the rewrite fails (section 4), and
`NoOrphanProbes` follows from it. These are the hypotheses of the run `InstrBenign`, and
the run `InstrOrphan` is what happens without them.

`FailsOnlyWhenEarly` is not restricted to `NoneEarly`, and lets messages and definitions
come in any order. A deferred instrument leaves the table by a removal or by an `Install`
that failed (`GivenUp`); when its last side arrives both its classes are known
(`LastSideKnown`), and if they are defined, the rewrite of both succeeds
(`InstallSucceeds`).

*ErrLog.* `Filled` says that a ring that is not full is filled from its start; it gives
`NoNullRead` and the refinement of `RecentErrors`, in which a push to a full ring maps to
dropping the head. The arithmetic of the modulus is in lemmas of its own. These theorems
stand with those of the hash table in `ContainerProofs`, which extends the modules of
both containers; that is why the definitions of `ErrLog` have names of their own
(`LogSpec`, `LogIInv`).

*HashTab.* `IInv` is `TypeOK`, `TableIsSound` and three facts. `OneEach`: a key has one
entry. `Probing`: every entry is reached by the search for its key, no entry on the way
being free, or it is one that the loop of a removal has still to put back (`Pending`:
from the loop's place on to that entry none is free). `LoopEnds`: ahead of the loop,
before its bound, is a free entry that no search for an entry passes; so putting an
entry back never fills it, the loop comes to it, and then nothing is pending any more.
That is why the loop stops at a *free entry* and never by its bound (`LoopStopsInTime`),
although it puts an entry back at every step, and around the end of the table. When a
removal begins such an entry is there because the table is not full: the first free one
behind the removed entry will do. `SearchesEnd` is the assertion of `hash_insert`: a
table that is not full has a free entry (a bijection of the list and the table would
make `count` the capacity), and the first of the positions where a search ends is the
one `LeastNumber` gives. That the table never fills is `RoomToAdd`: below the threshold,
which `hash_tab_init` asserts to be less than one, there is room for the new entry and
for the free one behind it, and a table of twice the size has room for both. A rehash
keeps the contents: the least number of moved entries at which it did not would be
preceded by one at which it did. With them every operation answers and changes what
`Dictionary` says it does, and an iteration of the loop is a stutter (`Implements`).

*Profilers.* The invariant has two halves. A ring holds the snapshots of consecutive ticks
behind its head (`Filled`) with counts that do not go down, nor over what the collector
has read of the counters (`Cumulative`); `LastTick` is the youngest of them, which depends
on whether the collector has visited the profiler in this tick. `OnTime` has the hazard of
the two counters: what was read of `callCount` is covered by `totalNanos`, because `exit`
adds the time first and `record` reads it last. From these the three properties of the
snapshots follow, for rings of every size, every number of missed ticks, and with probes
removed at any time. `Registered`, `Balanced` and `Attributed` are about the registry and
the stacks. `DepthIsReentry` and `CountsOwnCalls` hold where a probe is removed only once
no thread is inside it, and the theorems say so: `Spec => [](Quiet => ...)`.

*ThreadPause.* `IInv` says which threads a listing can miss. `Stopped`: when a listing
shows nobody running, nobody was there to start another thread. `Counted`: every round
after the first costs the application a birth, and a running thread that is not in the
listing costs one more. The properties name the environments they hold in (no faults, no
spawning daemons, no start-up hold); the proof carries them with `EnvStep`, the lemma
that no step changes the environment.

*Lifecycle.* `Held`: the hook leaves the hold only through the semaphore that a shutdown
request posts, or has failed before it (`skipped`). `Final`: the first semaphore is posted
once the collector was interrupted, and a collector that was begins no tick; that is
`HeldIsFinal`, an action property.
`Unused`: the event loop posts the last semaphore as its last act, and a main that leads
the exit has left the agent before. `MaxReq` plays no part in the proofs.

*Requests.* `IInv` is `TypeOK`, `RefsMatch` and two facts. `Fresh`: what nobody has
accepted yet is held by nobody and is accepted once; without it an accepted connection
could be one that was freed. `Connected`: the connections made and the clients that may
still dial again are together at most twice the calls begun, so that a call connects
twice at most and `2 * MaxCalls` connections are no bound on the behaviours of the
system. The lemmas `HeldAppend` and `HeldTail` say what a message that is queued and one
that is taken change in the number of messages of a client; the second one needs a
bijection between the places in the queue and those in its tail. `RefsMatchHolds` then
follows action by action, with clients that quit, requests that are dropped, messages that
are rejected and answers that fail. It needs no fairness and holds for any number of
clients and descriptors.

`PatientIsServedHolds` rests on it. `Steady`: before the server is down no connection of
a patient client is closed, so none keeps a descriptor number that was given away, no
client is cut off and none sends its call again. `Waiting`: a call that is not carried
out yet waits in one place of one queue. `Owned`: what is on its way on the connection of
a client, in either direction or in the event loop, belongs to the call it is in. A call
is then taken once, and the answer a client reads is the only one there can be. Each of
the three needs the others: the answer finds its client by the descriptor (`Steady`), and
a client begins a call on a connection that is empty (`Owned`) because the call before it
was taken and answered once (`Waiting`).

*Wire.* `BuffersFit` needs only the types of what the listener reads and that a buffer
has room for a header: a size is a number whatever the bytes are, and the listener asks
for no more than it has room for. The assumption is that the requests of an environment
are ones that `prof_client.py` can pack (`IsRequest`).

`NodesAreKept`: `QInv` says that the queue and the free nodes are two lists of nodes,
written as two sequences without repetitions that share nothing and have every node made
so far, linked by `next` in their order. Pushing and popping move the first node of one to
the end, or the front, of the other (`PushKeeps`, `PopKeeps`), and the sets that
`NodesAreKept` computes by following `next` are those of the two sequences (`NthOfList`).

The formats. `PackLayout` says where each field of a record stands, for every format and
all values that fit; `UnpackSteps` what `Unpack` does with one field. With them
`CutOffIsRefused` holds wherever a request is cut off: a field that is there has all of
its bytes (`CutField`), one that is not makes the whole record one that is not, and the
last one is not. `RequestsAreUnderstood` is the other half: from a whole message the
server takes the request that the client packed, for every kind, all numbers and strings
of every length. Both go from the last field to the first by the least counterexample
(`LeastNumber`), which stands in for an induction.

`AnswersAreUnderstood` is the same for answers, whose layout goes on as the fields before
tell: a client that reads a number of entries from the head finds each of them where the
one before ends (`ItemsFound`, `ItemFound`), with the fields that the first ones of it
announce (`ItemsAgree`), and the code of a status stands for the same outcome on both
sides (`CodesAgree`). The assumption is that the answers of an environment are ones that
the handlers give (`IsAnswer`).

`IsRemoteCallHolds` puts the three together. `Link(k)` says where the call of a client is:
it is in none (`Idle`), its request is being sent (`Going`), in the queue (`Waiting`), its
answer is being sent (`Coming`), or the connection was closed under it (`Cut`). In `Going`
what is in the buffer of the listener, in the socket and with the client is, one behind
the other, the packed request; in `Coming` the same holds of the answer, from what the
client has to what the event loop has still to write. A read or a write moves bytes from
one place to the place before and leaves the whole as it is (`Advanced`), and neither
side takes more than the message that it reads (`ReadsPart`: the size is told by the
header, and nothing is read beyond it), so what is whole is the message that was packed.
In between the queue holds the request in one node, and no node of another message is
overwritten (`PushKeeps`, `PopKeeps`, hence `QInv`). Each action keeps the link of its
client and those of the others, and is one step of `RemoteCall` or none: the request is
carried out when it is taken from the queue, and the call returns with the last byte.
`NoneAssumption` says that the value for nothing is no client, request, answer or result.

*Weave.* The shape of woven code (`ShapeHolds`: what the blocks are and where in them an
instruction of the method is) and the invariant `IInv`, by the place of the activation:
before block 0 has run nothing was entered, in the blocks of the method it was entered
once and not left until the probe before a return, in the last block it has thrown and
was left by the first instruction. `Taken` is the argument about exception tables: the
catch-all entry is behind those of the method, covers block 0 and all of the method, and
not itself; so the first entry that takes an exception is the method's own where there is
one. With it an exception in the woven code leads where `MethodRun` lets it lead, and
`RunsAsBeforeHolds` follows action by action: probes and the entry block are stutters,
the catch-all is the end of the method with the exception it was given.

`AllIsWoven` is about the count of what was found. `FullCount`: the matches are a subset
of what was asked for, and a finite set that has as many elements as a subset of it is
that subset; so a class that was taken as instrumented has a method for every method asked
for and a line for every line instrument (`Matched`), and `ProbeIsThere` finds the probe
in the blocks of that line. The requests are assumed to be finite, which lists of a client
are.

Only model-checked: liveness (`DeferredHandled`, `PauseAnswered`, `ShutdownCompletes`,
`ClosedIsFreed`, `CallsEnd`, `CallsReturn`), since the prover does not reason about
ENABLED.

## 6. What is not modelled

- Descriptors that run out for good. A string longer than its length field, which the
  client library does not send; a name of a probe that is longer than a short, which
  would be cut in `getStats` (`ProfilerRegistry.java:115`).
- The class file parser. In the transformer: operand stacks, stack maps, what ASM does
  with an uninitialised `this` in a constructor, errors thrown inside a probe.
- Instruments of the type var_bind, which no request creates.
- Retransformations by other agents, which would get the pending bytecode.
- Class loads that are inside the load hook while the agent is unloaded.
- Support code: hashing, strings, dynamic arrays, logging, configuration.
- The MCP server, the command line and the plotting tools, which keep no state that
  the properties are about.

## 7. Plan

1. A composition of `Requests` and `Wire`: clients that quit in the middle of a message.
2. A composition of `Lifecycle` with the load hook, and of `Instruments` with `Profilers`
   through the slots.
