---------------------------- MODULE Instruments ----------------------------
(***************************************************************************)
(* The instrument handler of the profiling agent: what the event loop of   *)
(* the server does with instrument, deinstrument and class-loaded messages *)
(* (instrument-handler.c, master-instruments.c, class-info.c,              *)
(* class-info-list.c, queued-instrument.c), the profiler slots it takes    *)
(* from ProfilerRegistry, and the part of the JVM it talks to: class       *)
(* loading and class retransformation.                                     *)
(*                                                                         *)
(* An instrument has SIDES.  A method instrument has the single side       *)
(* "method"; a line instrument has an "enter" and an "exit" side, possibly *)
(* in two classes.  A side is DEFERRED while its class is not known yet.   *)
(*                                                                         *)
(* A handler runs to completion on the one event-loop thread, so it is one *)
(* action; only the loops of the class-loaded handler are cut into one     *)
(* action per iteration, with `cur' keeping every other handler out.  The  *)
(* JVM's own steps (LoadHook, Define) interleave with everything.          *)
(***************************************************************************)
EXTENDS Integers, Sequences, FiniteSets

CONSTANTS
    Classes,        \* class names
    Loaders,        \* class loaders
    Methods,        \* method signatures
    Lines,          \* line numbers
    Content,        \* Content[<<c, l>>]: the sites in loader l's bytecode of c
    Versions,       \* bound: which loaders may load which classes
    MaxId,          \* bound: how many instrument ids a behaviour may use
    Slots,          \* bound: indices of ProfilerRegistry.entries
    SharedLines,    \* may clients put two instruments on one line?
    Faults,         \* may allocations, JNI and JVMTI calls fail?
    NoEntry,        \* "no such id" in the master table
    NoLoader        \* "class not in the class list"

Sites == Methods \cup Lines
Ids   == 1..MaxId
Kinds == {"method", "enter", "exit"}
Pairs == Classes \X Loaders

ASSUME IdBound   == MaxId \in Nat
ASSUME SlotIds   == Slots \subseteq Nat
ASSUME SiteKinds == Methods \cap Lines = {}
ASSUME ContentOK == Content \in [Pairs -> SUBSET Sites]
ASSUME VersionsOK == Versions \subseteq Pairs
ASSUME Flags     == {SharedLines, Faults} \subseteq BOOLEAN
ASSUME NoLoaderOK == NoLoader \notin Loaders

\* An entry of the master table: `deferred' is the set of its deferred sides.
Entry == [type     : {"method", "line"},
          cls      : Classes, site  : Sites,
          xcls     : Classes, xsite : Sites,
          deferred : SUBSET Kinds]

ASSUME NoEntryOK == NoEntry \notin Entry

\* A probe, as listed for a class and as woven into its bytecode.
Probe == [kind : Kinds, site : Sites, slot : Slots, iid : Ids]

\* An element of the queue of deferred instruments.
Queued == [kind : Kinds, cls : Classes, slot : Slots, iid : Ids]

\* The class list: the loader of the latest version of each class, or
\* NoLoader, and the probes listed for it.
ClassList == [Classes -> [loader : Loaders \cup {NoLoader}, probes : Seq(Probe)]]

VARIABLES
    \* the server
    mi,        \* master_instruments: id -> entry or NoEntry
    nextId,    \* master_instruments.next_id
    queue,     \* instr_ctx.queued_instruments
    ci,        \* instr_ctx.loaded_classes: class -> [loader, probes]
    cur,       \* the class-loaded handler in progress: [phase, cls]
    errs,      \* ids whose loss was written to the asynchronous error log
    dropped,   \* ids whose loss that log had no memory to keep
    \* the agent's Java side
    slots,     \* ProfilerRegistry.entries: slot -> id of its active profiler or 0
    \* the JVM
    evq,       \* CLASS_LOADED messages in the event queue
    hooked,    \* the <<class, loader>> pairs whose load hook has fired
    defined,   \* the <<class, loader>> pairs GetLoadedClasses returns
    early,     \* those whose message was handled before they were defined
    code,      \* the probes in the bytecode each defined class runs
    \* the client
    told       \* the last answer about each id

vars   == <<mi, nextId, queue, ci, cur, errs, dropped, slots,
            evq, hooked, defined, early, code, told>>

Idle == [phase |-> "idle", cls |-> NoLoader]

TypeOK ==
    /\ mi \in [Ids -> Entry \cup {NoEntry}]
    /\ nextId \in 1..(MaxId + 1)
    /\ queue \subseteq Queued
    /\ ci \in ClassList
    /\ cur \in [phase : {"cleanup", "deferred"}, cls : Classes] \cup {Idle}
    /\ errs \subseteq Ids /\ dropped \subseteq Ids
    /\ slots \in [Slots -> Ids \cup {0}]
    /\ evq \in Seq(Pairs)
    /\ hooked \subseteq Pairs
    /\ defined \subseteq hooked /\ early \subseteq Pairs
    /\ code \in [Pairs -> SUBSET Probe]
    /\ told \in [Ids -> {"none", "ok", "deferred", "error", "removed", "fail"}]

Init ==
    /\ mi = [i \in Ids |-> NoEntry]
    /\ nextId = 1
    /\ queue = {}
    /\ ci = [c \in Classes |-> [loader |-> NoLoader, probes |-> <<>>]]
    /\ cur = Idle
    /\ errs = {} /\ dropped = {}
    /\ slots = [s \in Slots |-> 0]
    /\ evq = <<>>
    /\ hooked = {}
    /\ defined = {} /\ early = {}
    /\ code = [p \in Pairs |-> {}]
    /\ told = [i \in Ids |-> "none"]

-----------------------------------------------------------------------------
(* The lists a class keeps (class-info.c).  Methods and lines have lists of *)
(* their own in the code; their sites are disjoint, so one list, searched  *)
(* by site, finds the same first element.                                  *)

Known(c) == ci[c].loader # NoLoader

Elems(s) == {s[i] : i \in DOMAIN s}

FirstAt(s, site) ==
    CHOOSE i \in DOMAIN s : s[i].site = site /\ \A j \in 1..(i - 1) : s[j].site # site

\* ci_remove_instrumented_line, ci_remove_instrumented_by_sig: the first
\* element at the site goes, whichever instrument it belongs to.
RemoveSite(s, site) ==
    IF \E i \in DOMAIN s : s[i].site = site
    THEN [j \in 1..(Len(s) - 1) |-> IF j < FirstAt(s, site) THEN s[j] ELSE s[j + 1]]
    ELSE s

AddProbe(cl, c, p) == [cl EXCEPT ![c].probes = Append(@, p)]
DropSite(cl, c, site) == [cl EXCEPT ![c].probes = RemoveSite(@, site)]

ProbeOf(id, e, s, k) ==
    [kind |-> k, site |-> IF k = "exit" THEN e.xsite ELSE e.site, slot |-> s, iid |-> id]

Populate(cl, id, e, s) ==
    IF e.type = "method"
    THEN AddProbe(cl, e.cls, ProbeOf(id, e, s, "method"))
    ELSE AddProbe(AddProbe(cl, e.cls, ProbeOf(id, e, s, "enter")),
                  e.xcls, ProbeOf(id, e, s, "exit"))

\* Mutant: a line's exit probe stays in its class's list.
DepopulateEntryOnly(cl, e) == DropSite(cl, e.cls, e.site)

Depopulate(cl, e) ==
    IF e.type = "method"
    THEN DropSite(cl, e.cls, e.site)
    ELSE DropSite(DropSite(cl, e.cls, e.site), e.xcls, e.xsite)

-----------------------------------------------------------------------------
(* Rewriting a class.                                                      *)

\* BytecodeTransformer.transform: null unless every listed probe has a place.
Matches(cl, c) ==
    /\ cl[c].loader # NoLoader
    /\ \A p \in Elems(cl[c].probes) : p.site \in Content[<<c, cl[c].loader>>]

\* jni_retransform_class: the class of that loader, else any of that name.
Targets(c, l) ==
    IF <<c, l>> \in defined THEN {<<c, l>>} ELSE {d \in defined : d[1] = c}

\* do_instrumentation followed by retransform_pending: every possible outcome.
\* The class runs all the probes of its list, or the bytecode it had before; or
\* none, when all went well but ps_handle_retransform had no memory: the JVM
\* starts from the class as it was compiled.
Apply(cd, cl, c) ==
    LET t == Targets(c, cl[c].loader)
    IN  {[built |-> b, ok |-> FALSE, code |-> cd] :
            b \in {x \in BOOLEAN : IF x THEN Matches(cl, c) /\ (Faults \/ t = {})
                                       ELSE Faults \/ ~Matches(cl, c)}}
        \cup
        {[built |-> TRUE, ok |-> TRUE, code |-> [cd EXCEPT ![d] = Elems(cl[c].probes)]] :
            d \in {x \in t : Matches(cl, c)}}
        \cup
        {[built |-> TRUE, ok |-> TRUE, code |-> [cd EXCEPT ![d] = {}]] :
            d \in {x \in t : Matches(cl, c) /\ Faults}}

\* perform_instrumentation, perform_instrumentation_line: the entry class, and
\* only when that went well the exit class, if it is another one.
Perform(cd, cl, e) ==
    UNION {IF o.ok /\ e.xcls # e.cls THEN Apply(o.code, cl, e.xcls) ELSE {o} :
              o \in Apply(cd, cl, e.cls)}

\* The same for a line's removal, which looks at `built' only.
Strip(cd, cl, e) ==
    UNION {IF o.built /\ e.xcls # e.cls THEN Apply(o.code, cl, e.xcls) ELSE {o} :
              o \in Apply(cd, cl, e.cls)}

-----------------------------------------------------------------------------
(* Requests.                                                               *)

MethodEntry(c, m) == [type |-> "method", cls |-> c, site |-> m, xcls |-> c, xsite |-> m,
                      deferred |-> {"method"}]
LineEntry(c, n, x, k) == [type |-> "line", cls |-> c, site |-> n, xcls |-> x, xsite |-> k,
                          deferred |-> {"enter", "exit"}]

SideClass(e, k) == IF k = "exit" THEN e.xcls ELSE e.cls

\* mi_find_method_by_name
FindMethod(c, m) ==
    {i \in Ids : mi[i] # NoEntry /\ mi[i].type = "method" /\ mi[i].cls = c /\ mi[i].site = m}

\* The places a line instrument occupies, and whether one is taken already.
Places(e) == {<<e.cls, e.site>>, <<e.xcls, e.xsite>>}
Overlaps(e) == \E i \in Ids : mi[i] # NoEntry /\ Places(mi[i]) \cap Places(e) # {}

\* ProfilerRegistry.create: the first slot with no active profiler.
FirstFree(s) == slots[s] = 0 /\ \A t \in Slots : slots[t] = 0 => s <= t

\* Mutant: a line waits for both its classes, the known one too.
WaitingForBoth(e) == IF e.type = "method" THEN {"method"} ELSE {"enter", "exit"}

\* instrument_later, instrument_later_line: the sides that wait for a class.
Waiting(e) ==
    IF e.type = "method" THEN {"method"}
    ELSE {k \in {"enter", "exit"} :
             ~Known(SideClass(e, k)) /\ (k = "exit" => e.xcls # e.cls)}

\* Mutant: the profiler of an instrument that failed stays active.
InstallKeepsSlot(id, e, s) ==
    \E o \in Perform(code, Populate(ci, id, e, s), e) :
        /\ code' = o.code
        /\ ci' = IF o.ok THEN Populate(ci, id, e, s)
                         ELSE Depopulate(Populate(ci, id, e, s), e)
        /\ mi' = [mi EXCEPT ![id] = IF o.ok THEN [e EXCEPT !.deferred = {}] ELSE NoEntry]
        /\ slots' = [slots EXCEPT ![s] = id]

\* Mutant: the lists are not restored after a failure (no undo_ci_and_mi).
InstallKeepsLists(id, e, s) ==
    \E o \in Perform(code, Populate(ci, id, e, s), e) :
        /\ code' = o.code
        /\ ci' = Populate(ci, id, e, s)
        /\ mi' = [mi EXCEPT ![id] = IF o.ok THEN [e EXCEPT !.deferred = {}] ELSE NoEntry]
        /\ slots' = [slots EXCEPT ![s] = IF o.ok THEN id ELSE 0]

\* instrument_now, and the second half of ih_instrument_line: list the probes,
\* rewrite the classes, keep the instrument only if that succeeded.
Install(id, e, s) ==
    \E o \in Perform(code, Populate(ci, id, e, s), e) :
        /\ code' = o.code
        /\ ci' = IF o.ok THEN Populate(ci, id, e, s)
                         ELSE Depopulate(Populate(ci, id, e, s), e)
        /\ mi' = [mi EXCEPT ![id] = IF o.ok THEN [e EXCEPT !.deferred = {}] ELSE NoEntry]
        /\ slots' = [slots EXCEPT ![s] = IF o.ok THEN id ELSE 0]

\* ih_instrument_method, ih_instrument_line, once the request was not refused.
InstrumentNow(e, s) ==
    /\ Known(e.cls) /\ Known(e.xcls)
    /\ Install(nextId, e, s)
    /\ told' = [told EXCEPT ![nextId] = IF mi'[nextId] # NoEntry THEN "ok" ELSE "error"]
    /\ UNCHANGED queue

InstrumentLater(e, s) ==
    /\ ~(Known(e.cls) /\ Known(e.xcls))
    /\ mi' = [mi EXCEPT ![nextId] = [e EXCEPT !.deferred = Waiting(e)]]
    /\ queue' = queue \cup {[kind |-> k, cls |-> SideClass(e, k), slot |-> s, iid |-> nextId] :
                               k \in Waiting(e)}
    /\ slots' = [slots EXCEPT ![s] = nextId]
    /\ told' = [told EXCEPT ![nextId] = "deferred"]
    /\ UNCHANGED <<ci, code>>

\* The profiler could not be created or the queue could not grow: the entry
\* and the profiler are taken back and the id is spent.
InstrumentRefused ==
    /\ Faults
    /\ told' = [told EXCEPT ![nextId] = "error"]
    /\ UNCHANGED <<mi, queue, ci, slots, code>>

Instrument(e) ==
    /\ cur = Idle
    /\ nextId \in Ids
    /\ \/ \E s \in Slots : FirstFree(s) /\ (InstrumentNow(e, s) \/ InstrumentLater(e, s))
       \/ InstrumentRefused
    /\ nextId' = nextId + 1
    /\ UNCHANGED <<cur, errs, dropped, evq, hooked, defined, early>>

\* A method that is instrumented already is refused (add_master_method).
InstrumentMethod(c, m) ==
    /\ FindMethod(c, m) = {}
    /\ Instrument(MethodEntry(c, m))

\* Lines are not checked for duplicates: SharedLines is the clients' choice.
InstrumentLine(c, n, x, k) ==
    /\ SharedLines \/ ~Overlaps(LineEntry(c, n, x, k))
    /\ Instrument(LineEntry(c, n, x, k))

-----------------------------------------------------------------------------
\* Mutant: only one of the queue elements of a line is removed.
DeinstrumentFirstQueued(id) ==
    /\ mi[id].deferred # {}
    /\ slots' = [s \in Slots |-> IF \E q \in queue : q.iid = id /\ q.slot = s THEN 0 ELSE slots[s]]
    /\ queue' = {q \in queue : q.iid # id \/ (q.kind = "exit" /\ "enter" \in mi[id].deferred)}
    /\ mi' = [mi EXCEPT ![id] = NoEntry]
    /\ told' = [told EXCEPT ![id] = "removed"]
    /\ UNCHANGED <<ci, code>>

\* deinstrument_*_by_id of an instrument that still has a deferred side.
DeinstrumentDeferred(id) ==
    /\ mi[id].deferred # {}
    /\ slots' = [s \in Slots |-> IF \E q \in queue : q.iid = id /\ q.slot = s THEN 0 ELSE slots[s]]
    /\ queue' = {q \in queue : q.iid # id}
    /\ mi' = [mi EXCEPT ![id] = NoEntry]
    /\ told' = [told EXCEPT ![id] = "removed"]
    /\ UNCHANGED <<ci, code>>

\* deinstrument_*_by_id of an applied one.  The slot that is freed is the one
\* of the list element that was found at the entry site.
DeinstrumentApplied(id) ==
    LET e     == mi[id]
        old   == ci[e.cls].probes
        cl    == Depopulate(ci, e)
        freed == IF \E i \in DOMAIN old : old[i].site = e.site
                 THEN {old[FirstAt(old, e.site)].slot} ELSE {}
    IN  /\ e.deferred = {}
        /\ e.type = "method" => freed # {}
        /\ \E o \in Strip(code, cl, e) :
              /\ code' = o.code
              /\ told' = [told EXCEPT ![id] =
                    IF (IF e.type = "method" THEN o.ok ELSE o.built) THEN "removed" ELSE "fail"]
        /\ ci' = cl
        /\ mi' = [mi EXCEPT ![id] = NoEntry]
        /\ slots' = [s \in Slots |-> IF s \in freed THEN 0 ELSE slots[s]]
        /\ UNCHANGED queue

\* ih_deinstrument_by_id, and ih_deinstrument_method once the name is resolved;
\* an unknown id or name is answered "fail" and changes nothing.
Deinstrument(id) ==
    /\ cur = Idle
    /\ mi[id] # NoEntry
    /\ DeinstrumentDeferred(id) \/ DeinstrumentApplied(id)
    /\ UNCHANGED <<nextId, cur, errs, dropped, evq, hooked, defined, early>>

-----------------------------------------------------------------------------
(* Class loading.                                                          *)

\* class_file_load_hook: the JVM is about to define the class; the message is
\* on its way before the class exists, if there is memory for it
\* (ps_send_class_loaded).
LoadHook(c, l) ==
    /\ <<c, l>> \notin hooked
    /\ hooked' = hooked \cup {<<c, l>>}
    /\ \/ evq' = Append(evq, <<c, l>>)
       \/ Faults /\ UNCHANGED evq
    /\ UNCHANGED <<mi, nextId, queue, ci, cur, errs, dropped, slots, defined, early, code, told>>

\* The JVM has defined the class: GetLoadedClasses lists it and it runs as
\* written.
Define(c, l) ==
    /\ <<c, l>> \in hooked \ defined
    /\ defined' = defined \cup {<<c, l>>}
    /\ UNCHANGED <<mi, nextId, queue, ci, cur, errs, dropped, slots, evq, hooked, early, code,
                   told>>

\* Mutant: the probes of the previous version are not applied to the new one.
HandleClassLoadedNoReapply ==
    /\ cur = Idle
    /\ evq # <<>>
    /\ ci' = [ci EXCEPT ![Head(evq)[1]].loader = Head(evq)[2]]
    /\ cur' = [phase |-> "deferred", cls |-> Head(evq)[1]]
    /\ evq' = Tail(evq)
    /\ early' = early \cup ({Head(evq)} \ defined)
    /\ UNCHANGED <<mi, nextId, queue, errs, dropped, slots, hooked, defined, code, told>>

\* prof_err_log_printf: one message about these ids, unless there is no memory.
Report(ids) ==
    \/ errs' = errs \cup ids /\ UNCHANGED dropped
    \/ Faults /\ dropped' = dropped \cup ids /\ UNCHANGED errs

\* The failures of handle_class_loaded before the class is in the list: the
\* class stays unknown.
ForgetClass ==
    /\ Faults
    /\ cur = Idle
    /\ evq # <<>>
    /\ evq' = Tail(evq)
    /\ UNCHANGED <<mi, nextId, queue, ci, cur, errs, dropped, slots, hooked, defined, early,
                   code, told>>

\* handle_class_loaded: the new class takes over the lists of its namesake
\* (ci_list_add); if there was one, its probes are applied to the new bytecode
\* (ih_reapply_instruments), and given up, all of them, if that fails.  The
\* class need not be defined yet.
HandleClassLoaded ==
    /\ cur = Idle
    /\ evq # <<>>
    /\ LET c  == Head(evq)[1]
           cl == [ci EXCEPT ![c].loader = Head(evq)[2]]
       IN  /\ ci' = cl
           /\ IF ci[c].probes = <<>>
              THEN /\ cur' = [phase |-> "deferred", cls |-> c]
                   /\ UNCHANGED <<code, errs, dropped>>
              ELSE \E o \in Apply(code, cl, c) :
                      /\ code' = o.code
                      /\ cur' = [phase |-> IF o.ok THEN "deferred" ELSE "cleanup", cls |-> c]
                      /\ IF o.ok THEN UNCHANGED <<errs, dropped>>
                                 ELSE Report({p.iid : p \in Elems(ci[c].probes)})
    /\ evq' = Tail(evq)
    /\ early' = early \cup ({Head(evq)} \ defined)
    /\ UNCHANGED <<mi, nextId, queue, slots, hooked, defined, told>>

\* One iteration of the clean-up after a failed reapply (cleanup_failed_line,
\* cleanup_dangling): the other end of a line that spans two classes is taken
\* out of the other class.  The list is dropped element by element; the code
\* drops it at the end, and reads it nowhere else in between.
CleanupStep ==
    /\ cur.phase = "cleanup"
    /\ ci[cur.cls].probes # <<>>
    /\ LET c     == cur.cls
           p     == Head(ci[c].probes)
           e     == mi[p.iid]
           rest  == [ci EXCEPT ![c].probes = Tail(@)]
           cross == e # NoEntry /\ e.cls # e.xcls
           other == IF p.kind = "enter" THEN e.xcls ELSE e.cls
           cl    == DropSite(rest, other, IF p.kind = "enter" THEN e.xsite ELSE e.site)
       IN  /\ IF cross THEN /\ ci' = cl
                            /\ \E o \in Apply(code, cl, other) : code' = o.code
                       ELSE ci' = rest /\ UNCHANGED code
           /\ IF p.kind # "exit" \/ cross
              THEN /\ mi' = [mi EXCEPT ![p.iid] = NoEntry]
                   /\ slots' = [slots EXCEPT ![p.slot] = 0]
              ELSE UNCHANGED <<mi, slots>>
           /\ cur' = IF ci'[c].probes = <<>> THEN [cur EXCEPT !.phase = "deferred"] ELSE cur
    /\ UNCHANGED <<nextId, queue, errs, dropped, evq, hooked, defined, early, told>>

\* Mutant: an instrument that could not be applied is dropped without a word.
DeferredStepUnlogged(q) ==
    /\ cur.phase = "deferred"
    /\ q.cls = cur.cls
    /\ LET e == [mi[q.iid] EXCEPT !.deferred = @ \ {q.kind}]
       IN  IF e.deferred # {}
           THEN mi' = [mi EXCEPT ![q.iid] = e] /\ UNCHANGED <<ci, code, slots>>
           ELSE Install(q.iid, e, q.slot)
    /\ queue' = queue \ {q}
    /\ UNCHANGED <<nextId, cur, errs, dropped, evq, hooked, defined, early, told>>

\* Mutant: the line is applied although its other class is still missing.
DeferredStepEager(q) ==
    /\ cur.phase = "deferred"
    /\ q.cls = cur.cls
    /\ Install(q.iid, mi[q.iid], q.slot)
    /\ IF mi'[q.iid] = NoEntry THEN Report({q.iid}) ELSE UNCHANGED <<errs, dropped>>
    /\ queue' = {r \in queue : r.iid # q.iid}
    /\ UNCHANGED <<nextId, cur, evq, hooked, defined, early, told>>

\* One iteration of do_deferred_instrumentations: an element of the queue that
\* names the class.  A line with a side still missing just waits on.
DeferredStep(q) ==
    /\ cur.phase = "deferred"
    /\ q.cls = cur.cls
    /\ LET e == [mi[q.iid] EXCEPT !.deferred = @ \ {q.kind}]
       IN  IF e.deferred # {}
           THEN mi' = [mi EXCEPT ![q.iid] = e] /\ UNCHANGED <<ci, code, slots, errs, dropped>>
           ELSE /\ Install(q.iid, e, q.slot)
                /\ IF mi'[q.iid] = NoEntry THEN Report({q.iid}) ELSE UNCHANGED <<errs, dropped>>
    /\ queue' = queue \ {q}
    /\ UNCHANGED <<nextId, cur, evq, hooked, defined, early, told>>

\* Mutant: the loop over the queue stops before it has seen every element.
DeferredDoneEarly ==
    /\ cur.phase = "deferred"
    /\ cur' = Idle
    /\ UNCHANGED <<mi, nextId, queue, ci, errs, dropped, slots, evq, hooked, defined, early, code,
                   told>>

DeferredDone ==
    /\ cur.phase = "deferred"
    /\ \A q \in queue : q.cls # cur.cls
    /\ cur' = Idle
    /\ UNCHANGED <<mi, nextId, queue, ci, errs, dropped, slots, evq, hooked, defined, early, code,
                   told>>

-----------------------------------------------------------------------------
Request ==
    \/ \E c \in Classes, m \in Methods : InstrumentMethod(c, m)
    \/ \E c, x \in Classes, n, k \in Lines : InstrumentLine(c, n, x, k)
    \/ \E id \in Ids : Deinstrument(id)

ClassEvent == \/ HandleClassLoaded
              \/ ForgetClass
              \/ CleanupStep
              \/ \E q \in queue : DeferredStep(q)
              \/ DeferredDone

JVM == \E c \in Classes, l \in Loaders :
          <<c, l>> \in Versions /\ (LoadHook(c, l) \/ Define(c, l))

Next == Request \/ ClassEvent \/ JVM

Spec == Init /\ [][Next]_vars

\* The event loop always takes the next message, and a class whose load hook
\* fired is defined.  Nothing is assumed of clients.
FairSpec == /\ Spec
            /\ WF_vars(ClassEvent)
            /\ \A c \in Classes, l \in Loaders : WF_vars(Define(c, l))

-----------------------------------------------------------------------------
(* Properties of the server's tables, in every environment in which no two *)
(* line instruments share a line.                                          *)

Present(id) == mi[id] # NoEntry
Ready(id)   == Present(id) /\ mi[id].deferred = {}
Sides(e)    == IF e.type = "method" THEN {"method"} ELSE {"enter", "exit"}

\* The queue and the master table tell the same story: an instrument is queued
\* once for every side the table calls deferred, under that side's class, and
\* all its queue elements name one slot (the asserts of
\* remove_queued_instr_by_id rest on this).
QueueMatchesMaster ==
    /\ \A q \in queue : /\ Present(q.iid)
                        /\ q.kind \in mi[q.iid].deferred
                        /\ q.cls = SideClass(mi[q.iid], q.kind)
    /\ \A id \in Ids : Present(id) =>
          \A k \in mi[id].deferred : \E q \in queue : q.iid = id /\ q.kind = k
    /\ \A q, r \in queue : q.iid = r.iid => q.slot = r.slot

\* Between two messages an instrument is deferred exactly while one of its
\* classes is unknown: none is stranded in the queue after its class loaded
\* (only a class-loaded message would look at it), and the "class not found"
\* branches of the deferred and the deinstrument handlers are dead.
DeferredIffUnknown ==
    cur = Idle =>
        \A id \in Ids : Present(id) => (Ready(id) <=> Known(mi[id].cls) /\ Known(mi[id].xcls))

\* No profiler slot leaks and none is lost: every instrument of the master
\* table has one active profiler, and every active profiler its instrument,
\* whatever failed on the way.
SlotsMatchMaster ==
    /\ \A id \in Ids : Present(id) <=> \E s \in Slots : slots[s] = id
    /\ \A s, t \in Slots : slots[s] = slots[t] /\ slots[s] # 0 => s = t

\* Not being cleaned up after a failed reapply.
Settled(c) == ~(cur.phase = "cleanup" /\ cur.cls = c)

\* The per-class lists that the next rewrite of a class is made from hold
\* exactly the probes of the applied instruments, with the right slots; a list
\* that is being cleaned up after a failed reapply is left out.
ListsMatchMaster ==
    \A c \in Classes : Settled(c) =>
        /\ \A p \in Elems(ci[c].probes) :
              /\ Ready(p.iid)
              /\ slots[p.slot] = p.iid
              /\ p.kind \in Sides(mi[p.iid])
              /\ SideClass(mi[p.iid], p.kind) = c
              /\ p = ProbeOf(p.iid, mi[p.iid], p.slot, p.kind)
        /\ \A id \in Ids : Ready(id) =>
              \A k \in Sides(mi[id]) : SideClass(mi[id], k) = c =>
                  \E p \in Elems(ci[c].probes) : p.iid = id /\ p.kind = k

\* No instrument disappears silently: one that was accepted is in the master
\* table until the client removes it or its loss is in the asynchronous error
\* log, unless the log itself had no memory for the message; one that was
\* refused or removed is not in the table.
NoSilentLoss ==
    \A id \in Ids :
        /\ told[id] \in {"ok", "deferred"} => Present(id) \/ id \in errs \cup dropped
        /\ id \in dropped => Faults
        /\ told[id] \in {"error", "removed", "fail"} => ~Present(id)

\* An id names one instrument for ever: it is given out once, and what it
\* names changes only by losing deferred sides or by going away.
IdsNeverReused ==
    [][\A id \in Ids :
          /\ Present(id) /\ mi'[id] # NoEntry =>
                /\ mi'[id].deferred \subseteq mi[id].deferred
                /\ [mi'[id] EXCEPT !.deferred = {}] = [mi[id] EXCEPT !.deferred = {}]
          /\ ~Present(id) /\ mi'[id] # NoEntry => id = nextId /\ nextId' = nextId + 1]_vars

\* What has become of an id, and the instrument it names.
LifeOf(id) ==
    IF Ready(id) THEN "active"
    ELSE IF Present(id) THEN "deferred"
    ELSE IF id >= nextId THEN "none"
    ELSE IF told[id] = "error" THEN "refused"
    ELSE IF told[id] \in {"removed", "fail"} THEN "removed"
    ELSE "lost"

WhatOf(id) == IF Present(id) THEN [mi[id] EXCEPT !.deferred = {}] ELSE NoEntry

Life == INSTANCE InstrumentLife WITH
    Things <- {e \in Entry : e.deferred = {}},
    None <- NoEntry,
    life <- [id \in Ids |-> LifeOf(id)],
    what <- [id \in Ids |-> WhatOf(id)],
    log  <- errs,
    unheard <- dropped,
    NoMemory <- Faults

\* To a client an instrument lives as InstrumentLife says: what was accepted is
\* deferred, then active, never the other way round and never back once it is gone,
\* names the same thing all the while, and is not lost without a message to the
\* asynchronous error log, whatever fails on the way; only a log without memory
\* does not keep it.
LivesAsTold == Life!Spec

-----------------------------------------------------------------------------
(* Properties of the bytecode the JVM runs.                                *)

\* No class-loaded message has overtaken the definition of its class.
NoneEarly == early = {}

\* An applied instrument really runs: its probes are in the bytecode of the
\* class the server believes it rewrote.  (A message that overtakes the
\* definition has the list of the class woven into an older version, and
\* ps_handle_retransform without memory lets the class run without probes.)
AppliedIsRunning ==
    NoneEarly =>
        \A id \in Ids : Ready(id) =>
            \A k \in Sides(mi[id]) :
                LET c == SideClass(mi[id], k)
                IN  cur.phase # "cleanup" =>
                        \E p \in code[<<c, ci[c].loader>>] : p.iid = id /\ p.kind = k

\* The probes in the version of a class that the server rewrites.
Woven(c) == IF Known(c) THEN code[<<c, ci[c].loader>>] ELSE {}

\* "You select which methods to instrument; everything else runs at full
\* speed" (docs/SKILL.md:25-26): every probe in the version of a class that the
\* server rewrites belongs to an instrument of the master table.  (An older
\* version, of another loader, keeps what was woven into it.)
NoOrphanProbes ==
    NoneEarly => \A c \in Classes : \A p \in Woven(c) : Present(p.iid)

\* Every version of a class that the server may rewrite has every site.
Complete == \A p \in Pairs : Content[p] = Sites

\* "instrumentation will be applied automatically when the class loads"
\* (mcp_server.py:117-118): without faults and with the sites in every version,
\* a deferred instrument is given up only when the class-loaded message has
\* overtaken the definition of a class of it (class_file_load_hook runs before
\* the class exists).
FailsOnlyWhenEarly ==
    [][\A id \in Ids : Complete /\ Present(id) /\ ~Ready(id) /\ mi'[id] = NoEntry =>
           \/ told'[id] = "removed"
           \/ \E c \in {mi[id].cls, mi[id].xcls} :
                 Known(c) /\ <<c, ci[c].loader>> \notin defined]_vars

\* A queued side whose class-loaded message is in the event queue is dealt
\* with: the event loop comes to it and the deferred loop finds it.
DeferredHandled ==
    \A id \in Ids, c \in Classes :
        (\E q \in queue : q.iid = id /\ q.cls = c) /\ (\E i \in DOMAIN evq : evq[i][1] = c)
            ~> ~ \E q \in queue : q.iid = id /\ q.cls = c

-----------------------------------------------------------------------------
(* What the invariants above need to be inductive.                         *)

\* Ids at or above next_id are unused and unknown to the clients.
FreshIds ==
    \A id \in Ids : id >= nextId => ~Present(id) /\ told[id] = "none"

\* A list names ids that were given out, and of those that are still in the
\* master table only applied ones: reapplying a class never touches an
\* instrument that sits in the queue.
ListedIsReady ==
    \A c \in Classes : \A p \in Elems(ci[c].probes) :
        p.iid < nextId /\ (Present(p.iid) => Ready(p.iid))

\* Which sides may be deferred, and that a side which is not has a known class.
DeferredSides ==
    \A id \in Ids : Present(id) =>
        /\ mi[id].deferred \subseteq Sides(mi[id])
        /\ mi[id].type = "method" => mi[id].xcls = mi[id].cls
        /\ "exit" \in mi[id].deferred => mi[id].xcls # mi[id].cls
        /\ mi[id].deferred \cap {"method", "enter"} = {} => Known(mi[id].cls)
        /\ "exit" \notin mi[id].deferred /\ mi[id].xcls # mi[id].cls => Known(mi[id].xcls)

\* A queued side waits for an unknown class, or its turn is coming in the
\* class-loaded handler that is running.
QueuedIsUnknown ==
    \A q \in queue : ~Known(q.cls) \/ (cur # Idle /\ cur.cls = q.cls)

\* The class-loaded handler works on a class of the list.
CurIsKnown == cur # Idle => Known(cur.cls)

\* What a failed reapply is about to remove is in the error log already.
CleanupLogged ==
    cur.phase = "cleanup" => \A p \in Elems(ci[cur.cls].probes) : p.iid \in errs \cup dropped

IInv ==
    /\ TypeOK
    /\ QueueMatchesMaster
    /\ NoSilentLoss
    /\ FreshIds
    /\ ListedIsReady
    /\ DeferredSides
    /\ QueuedIsUnknown
    /\ CurIsKnown
    /\ CleanupLogged
=============================================================================
