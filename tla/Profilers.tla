----------------------------- MODULE Profilers -----------------------------
(***************************************************************************)
(* The probes at run time (ProfilerRegistry, ProfilerEntry and Profiler):  *)
(* the event loop creates and removes profilers, application threads run   *)
(* instrumented code that reports to them by slot number, and the          *)
(* collector thread takes a snapshot of every profiler at every tick.      *)
(*                                                                         *)
(* A thread that is inside an instrumented method when its bytecode is     *)
(* replaced goes on with the old bytecode until it returns: a frame keeps  *)
(* the slot number that was woven into the code it runs.  Time is counted  *)
(* in calls: every call lasts one unit.                                    *)
(***************************************************************************)
EXTENDS Integers, Sequences, FiniteSets

CONSTANTS Threads,
          MaxId,      \* instrument ids are 1..MaxId (bound)
          LineIds,    \* the ones that are line instruments
          MaxSlots,   \* slots used at most (bound)
          MaxDepth,   \* frames of a thread (bound)
          MaxCalls,   \* calls recorded of an instrument (bound)
          MaxTick,    \* ticks of the collector (bound)
          Ring,       \* RING_BUFFER_SIZE
          Quiet,      \* is a profiler removed only once its code is left?
          NoSnapshot  \* a null element of a ring

Ids == 1..MaxId
Slot == 0..(MaxSlots - 1)

ASSUME BoundsAssumption ==
    {MaxId, MaxSlots, MaxDepth, MaxCalls, MaxTick} \subseteq Nat
ASSUME RingAssumption == Ring \in Nat \ {0}
ASSUME LinesAssumption == LineIds \subseteq Ids
ASSUME QuietAssumption == Quiet \in BOOLEAN

\* A frame: the instrument of the code and the slot woven into it.
Frame == [iid : Ids, slot : Slot]
Snapshot == [time : 1..MaxTick, calls : 0..MaxCalls, nanos : 0..MaxCalls]

ASSUME NoSnapshotAssumption == NoSnapshot \notin Snapshot

VARIABLES
    entries,   \* registry.entries: slot -> its profiler, or 0 past the end
    given,     \* the slot create returned for each instrument, or -1
    active,    \* the profilers with their active flag set
    woven,     \* the instruments whose probes are in the current bytecode
    stack,     \* the instrumented frames of each thread
    depth,     \* threadState[0] and lineState[0], by thread and profiler
    counting,  \* the profiler a thread is about to count a call for, or 0
    calls,     \* callCount
    nanos,     \* totalNanos
    buffer,    \* the rings of snapshots
    head,      \* where the next snapshot goes
    tick,      \* nextTick
    todo,      \* the profilers the collector has yet to visit at this tick
    reading,   \* the snapshot it is taking: the profiler and what both counters
               \* were when it read the first one, or <<>>
    collector  \* "sleep", "visit", "ending" (interrupted) or "stopped"

registry == <<entries, given, active, woven>>
counters == <<depth, counting, calls, nanos>>
rings    == <<buffer, head, tick, todo, reading, collector>>
vars     == <<stack, registry, counters, rings>>

TypeOK ==
    /\ entries \in [Slot -> Ids \cup {0}]
    /\ given \in [Ids -> Slot \cup {-1}]
    /\ active \subseteq Ids /\ woven \subseteq active
    /\ stack \in [Threads -> Seq(Frame)]
    /\ depth \in [Threads -> [Ids -> Int]]
    /\ counting \in [Threads -> Ids \cup {0}]
    /\ calls \in [Ids -> 0..MaxCalls] /\ nanos \in [Ids -> 0..MaxCalls]
    /\ buffer \in [Ids -> [0..(Ring - 1) -> Snapshot \cup {NoSnapshot}]]
    /\ head \in [Ids -> 0..(Ring - 1)]
    /\ tick \in 1..(MaxTick + 1)
    /\ todo \subseteq Ids
    /\ reading \in {<<>>} \cup (Ids \X (0..MaxCalls) \X (0..MaxCalls))
    /\ collector \in {"sleep", "visit", "ending", "stopped"}

Init ==
    /\ entries = [s \in Slot |-> 0]
    /\ given = [i \in Ids |-> -1]
    /\ active = {} /\ woven = {}
    /\ stack = [t \in Threads |-> <<>>]
    /\ depth = [t \in Threads |-> [i \in Ids |-> 0]]
    /\ counting = [t \in Threads |-> 0]
    /\ calls = [i \in Ids |-> 0] /\ nanos = [i \in Ids |-> 0]
    /\ buffer = [i \in Ids |-> [k \in 0..(Ring - 1) |-> NoSnapshot]]
    /\ head = [i \in Ids |-> 0]
    /\ tick = 1 /\ todo = {} /\ reading = <<>>
    /\ collector = "sleep"

-----------------------------------------------------------------------------
(* The event loop.                                                         *)

\* Mutant: the slot of an instrument that waits for its class counts as free.
FreeUnlessWoven(s) == entries[s] \notin woven

\* create: the first slot whose profiler is inactive, or a new one.
Free(s) == entries[s] \notin active

FirstFree(s) == Free(s) /\ \A r \in Slot : r < s => ~Free(r)

Create(i) ==
    /\ given[i] = -1
    /\ \E s \in Slot :
        /\ FirstFree(s)
        /\ entries' = [entries EXCEPT ![s] = i]
        /\ given' = [given EXCEPT ![i] = s]
    /\ active' = active \cup {i}
    /\ UNCHANGED <<woven, stack, counters, rings>>

\* RetransformClasses, with the probes of i and without.
Weave(i) ==
    /\ i \in active \ woven
    /\ woven' = woven \cup {i}
    /\ UNCHANGED <<entries, given, active, stack, counters, rings>>

Inside(i) == {t \in Threads : \E k \in DOMAIN stack[t] : stack[t][k].iid = i}

\* Deinstrumenting: the bytecode is replaced and then the profiler removed.
Remove(i) ==
    /\ i \in active
    /\ \/ /\ i \in woven
          /\ woven' = woven \ {i}
          /\ UNCHANGED active
       \/ /\ i \notin woven
          /\ Quiet => Inside(i) = {}
          /\ active' = active \ {i}
          /\ UNCHANGED woven
    /\ UNCHANGED <<entries, given, stack, counters, rings>>

-----------------------------------------------------------------------------
(* The application threads.                                                *)

Top(t) == stack[t][Len(stack[t])]
Pop(t) == stack' = [stack EXCEPT ![t] = SubSeq(@, 1, Len(@) - 1)]

\* The active profiler in the slot of the frame a thread is in: none if the
\* set is empty.
Profiler(t) == {entries[Top(t).slot]} \cap active

Busy(t) == stack[t] # <<>> /\ counting[t] = 0

\* Mutant: a flag in place of the depth.
CallMarks(t, i) ==
    /\ i \in woven /\ counting[t] = 0 /\ Len(stack[t]) < MaxDepth
    /\ stack' = [stack EXCEPT ![t] = Append(@, [iid |-> i, slot |-> given[i]])]
    /\ depth' = IF i \in LineIds THEN depth ELSE [depth EXCEPT ![t][i] = 1]
    /\ UNCHANGED <<registry, counting, calls, nanos, rings>>

\* A call of instrumented code; Profiler.enter for a method.
Call(t, i) ==
    /\ i \in woven /\ counting[t] = 0 /\ Len(stack[t]) < MaxDepth
    /\ stack' = [stack EXCEPT ![t] = Append(@, [iid |-> i, slot |-> given[i]])]
    /\ depth' = IF i \in LineIds THEN depth ELSE [depth EXCEPT ![t][i] = @ + 1]
    /\ UNCHANGED <<registry, counting, calls, nanos, rings>>

\* The return from a method, normal or not: Profiler.exit as far as totalNanos.
Return(t) ==
    /\ Busy(t) /\ Top(t).iid \notin LineIds
    /\ \/ /\ Profiler(t) = {}
          /\ Pop(t)
          /\ UNCHANGED <<depth, counting, nanos>>
       \/ \E p \in Profiler(t) :
            /\ depth' = [depth EXCEPT ![t][p] = @ - 1]
            /\ IF depth[t][p] = 1
               THEN /\ nanos[p] < MaxCalls
                    /\ nanos' = [nanos EXCEPT ![p] = @ + 1]
                    /\ counting' = [counting EXCEPT ![t] = p]
                    /\ UNCHANGED stack
               ELSE Pop(t) /\ UNCHANGED <<counting, nanos>>
    /\ UNCHANGED <<registry, calls, rings>>

ReturnLine(t) ==
    /\ Busy(t) /\ Top(t).iid \in LineIds
    /\ Pop(t)
    /\ UNCHANGED <<registry, counters, rings>>

\* Profiler.enterLine, in a frame with the probes of a line instrument.
EnterLine(t) ==
    /\ Busy(t) /\ Top(t).iid \in LineIds
    /\ \E p \in Profiler(t) : depth' = [depth EXCEPT ![t][p] = 1]
    /\ UNCHANGED <<stack, registry, counting, calls, nanos, rings>>

\* Profiler.exitLine as far as totalNanos.
ExitLine(t) ==
    /\ Busy(t) /\ Top(t).iid \in LineIds
    /\ \E p \in Profiler(t) :
        /\ depth[t][p] = 1 /\ nanos[p] < MaxCalls
        /\ nanos' = [nanos EXCEPT ![p] = @ + 1]
        /\ depth' = [depth EXCEPT ![t][p] = 0]
        /\ counting' = [counting EXCEPT ![t] = p]
    /\ UNCHANGED <<stack, registry, calls, rings>>

\* The rest of exit and exitLine.
Count(t) ==
    /\ counting[t] # 0
    /\ calls' = [calls EXCEPT ![counting[t]] = @ + 1]
    /\ counting' = [counting EXCEPT ![t] = 0]
    /\ IF Top(t).iid \in LineIds THEN UNCHANGED stack ELSE Pop(t)
    /\ UNCHANGED <<registry, depth, nanos, rings>>

-----------------------------------------------------------------------------
(* The collector.                                                          *)

Store(i, snapshot) ==
    /\ buffer' = [buffer EXCEPT ![i][head[i]] = snapshot]
    /\ head' = [head EXCEPT ![i] = (@ + 1) % Ring]

\* The sleep is over: the iterator goes over the entries there are now.
Wake ==
    /\ collector = "sleep" /\ tick <= MaxTick
    /\ collector' = "visit"
    /\ todo' = {entries[s] : s \in Slot} \ {0}
    /\ UNCHANGED <<stack, registry, counters, buffer, head, tick, reading>>

Visiting == collector \in {"visit", "ending"} /\ reading = <<>>

Skip(i) ==
    /\ Visiting /\ i \in todo \ active
    /\ todo' = todo \ {i}
    /\ UNCHANGED <<stack, registry, counters, buffer, head, tick, reading, collector>>

\* record: the two counters are read one after the other.
ReadCalls(i) ==
    /\ Visiting /\ i \in todo \cap active
    /\ reading' = <<i, calls[i], nanos[i]>>
    /\ UNCHANGED <<stack, registry, counters, buffer, head, tick, todo, collector>>

\* Mutant: the total is read first.
SampleNanosFirst(i) == [time |-> tick, calls |-> calls[i], nanos |-> reading[3]]

\* The snapshot: callCount as it was, totalNanos as it is by now.
Sample(i) == [time |-> tick, calls |-> reading[2], nanos |-> nanos[i]]

Record ==
    /\ reading # <<>>
    /\ LET i == reading[1] IN Store(i, Sample(i)) /\ todo' = todo \ {i}
    /\ reading' = <<>>
    /\ UNCHANGED <<stack, registry, counters, tick, collector>>

\* Mutant: a missed tick counts nothing.
PreviousForgotten(i) == [calls |-> 0, nanos |-> 0]

\* The counts recordZero repeats.
Previous(i) ==
    LET last == buffer[i][(head[i] + Ring - 1) % Ring]
    IN  IF last = NoSnapshot THEN [calls |-> 0, nanos |-> 0] ELSE last

Ended == IF collector = "ending" THEN "stopped" ELSE "sleep"

\* The end of a tick: the collector sleeps until the next one.
Sleep ==
    /\ Visiting /\ todo = {}
    /\ tick' = tick + 1
    /\ collector' = Ended
    /\ UNCHANGED <<stack, registry, counters, buffer, head, todo, reading>>

\* Mutant: a missed tick is passed over.
BackfillSkips ==
    /\ Visiting /\ todo = {} /\ tick < MaxTick
    /\ tick' = tick + 1
    /\ UNCHANGED <<stack, registry, counters, buffer, head, todo, reading, collector>>

\* If the next tick is over by then, the collector fills it in first; it does so
\* as often as it takes.
Backfill ==
    /\ Visiting /\ todo = {} /\ tick < MaxTick
    /\ LET visited == {entries[s] : s \in Slot} \cap active IN
        /\ buffer' = [i \in Ids |->
              IF i \in visited
              THEN [buffer[i] EXCEPT ![head[i]] =
                      [time |-> tick + 1, calls |-> Previous(i).calls,
                       nanos |-> Previous(i).nanos]]
              ELSE buffer[i]]
        /\ head' = [i \in Ids |->
              IF i \in visited THEN (head[i] + 1) % Ring ELSE head[i]]
    /\ tick' = tick + 1
    /\ UNCHANGED <<stack, registry, counters, todo, reading, collector>>

\* stopCollector interrupts the collector, which looks at it when it sleeps.
StopCollector ==
    /\ collector \in {"sleep", "visit"}
    /\ collector' = IF collector = "sleep" THEN "stopped" ELSE "ending"
    /\ UNCHANGED <<stack, registry, counters, buffer, head, tick, todo, reading>>

-----------------------------------------------------------------------------
EventLoop == \E i \in Ids : Create(i) \/ Weave(i) \/ Remove(i)

Application ==
    \E t \in Threads :
        \/ \E i \in Ids : Call(t, i)
        \/ Return(t) \/ ReturnLine(t) \/ EnterLine(t) \/ ExitLine(t) \/ Count(t)

Collector ==
    \/ Wake \/ Record \/ Sleep \/ Backfill
    \/ \E i \in Ids : Skip(i) \/ ReadCalls(i)

Next == EventLoop \/ Application \/ Collector \/ StopCollector

Spec == Init /\ [][Next]_vars

-----------------------------------------------------------------------------
(* Properties.                                                             *)

Snapshots(i) == {buffer[i][k] : k \in 0..(Ring - 1)} \ {NoSnapshot}

\* The time of every call a snapshot counts is in its total, although threads
\* finish calls while it is taken: exit and record access the two counters in
\* opposite orders.  So it is of one snapshot, and of the time per call since
\* the probe was set.  The difference of two snapshots, which clients divide
\* (mcp_server.py:256-257), may count a call without its time: the first one
\* may hold the time of a call that only the second one counts.
TimeIsIncluded ==
    \A i \in Ids : \A s \in Snapshots(i) : s.calls <= s.nanos

\* The snapshots of a probe are cumulative (mcp_server.py:250): in the order of
\* their times the counts never go down, back-filled ticks included.
SnapshotsAreCumulative ==
    \A i \in Ids : \A a, b \in Snapshots(i) :
        a.time <= b.time => a.calls <= b.calls /\ a.nanos <= b.nanos

\* The history has one snapshot for every tick, up to the last Ring of them:
\* none is missing in between and none is there twice (mcp_server.py:259-261).
HistoryHasNoGaps ==
    \A i \in Ids : \A a, b \in Snapshots(i) :
        /\ b.time - a.time < Ring
        /\ \A time \in a.time..b.time : \E s \in Snapshots(i) : s.time = time

\* The re-entry depth a thread keeps for a method (Profiler.java:32) is the
\* number of its frames in that method: it is what makes recursive calls count
\* once, and every call count at all.
DepthIsReentry ==
    \A t \in Threads, i \in active \ LineIds :
        depth[t][i] + (IF counting[t] = i THEN 1 ELSE 0)
          = Cardinality({k \in DOMAIN stack[t] : stack[t][k].iid = i})

\* A call is counted for the instrument whose probe it ran through: the slots
\* of removed profilers are used again (mcp_server.py:231-233).
CountsOwnCalls == \A t \in Threads : counting[t] # 0 => Top(t).iid = counting[t]
=============================================================================
