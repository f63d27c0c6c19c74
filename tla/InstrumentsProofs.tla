------------------------- MODULE InstrumentsProofs -------------------------
(***************************************************************************)
(* Proofs, for every value of the constants of Instruments, of what the    *)
(* master table, the queue of deferred instruments and the client's        *)
(* answers have to do with each other; then, when no two line instruments  *)
(* share a line, of the profiler slots and the lists of each class; then   *)
(* of the bytecode the classes run.                                        *)
(***************************************************************************)
EXTENDS Instruments, TLAPS, WellFoundedInduction

-----------------------------------------------------------------------------
(* The operators on class lists.                                           *)

\* What a class lists is a probe.
LEMMA ListedOK ==
    ASSUME NEW cl \in ClassList, NEW c \in Classes, NEW p \in Elems(cl[c].probes)
    PROVE  p \in Probe /\ p.iid \in Ids /\ p.slot \in Slots /\ p.kind \in Kinds
<1>1. cl[c].probes \in Seq(Probe)
    BY DEF ClassList
<1>2. PICK i \in DOMAIN cl[c].probes : p = cl[c].probes[i]
    BY DEF Elems
<1>3. p \in Probe
    BY <1>1, <1>2
<1> QED
    BY <1>3 DEF Probe

\* Removing the first element at a site keeps a probe list a probe list and
\* adds nothing to it (ci_remove_instrumented_line, class-info.c:217-230).
LEMMA RemoveSiteOK ==
    ASSUME NEW s \in Seq(Probe), NEW site
    PROVE  /\ RemoveSite(s, site) \in Seq(Probe)
           /\ Elems(RemoveSite(s, site)) \subseteq Elems(s)
<1>1. CASE ~ \E i \in DOMAIN s : s[i].site = site
    BY <1>1 DEF RemoveSite
<1>2. CASE \E i \in DOMAIN s : s[i].site = site
    <2> DEFINE r == [j \in 1..(Len(s) - 1) |->
                        IF j < FirstAt(s, site) THEN s[j] ELSE s[j + 1]]
    <2>1. RemoveSite(s, site) = r
        BY <1>2 DEF RemoveSite
    <2>2. /\ Len(s) \in Nat /\ Len(s) > 0
          /\ DOMAIN s = 1..Len(s)
          /\ \A j \in 1..Len(s) : s[j] \in Probe
        BY <1>2
    <2>3. \A j \in 1..(Len(s) - 1) : r[j] \in Probe /\ \E i \in DOMAIN s : r[j] = s[i]
        <3> TAKE j \in 1..(Len(s) - 1)
        <3>1. j \in 1..Len(s) /\ j + 1 \in 1..Len(s)
            BY <2>2
        <3>2. r[j] = s[j] \/ r[j] = s[j + 1]
            OBVIOUS
        <3> QED
            BY <3>1, <3>2, <2>2
    <2>4. r \in Seq(Probe) /\ DOMAIN r = 1..(Len(s) - 1)
        <3>1. r \in [1..(Len(s) - 1) -> Probe]
            BY <2>3
        <3>2. Len(s) - 1 \in Nat
            BY <2>2
        <3> HIDE DEF r
        <3> QED
            BY <3>1, <3>2
    <2> HIDE DEF r
    <2> QED
        BY <2>1, <2>3, <2>4 DEF Elems
<1> QED
    BY <1>1, <1>2

\* Dropping a site from one class leaves a class list with the same classes
\* known and no new probe.
LEMMA DropSiteOK ==
    ASSUME NEW cl \in ClassList, NEW c \in Classes, NEW site
    PROVE  /\ DropSite(cl, c, site) \in ClassList
           /\ \A d \in Classes :
                 /\ DropSite(cl, c, site)[d].loader = cl[d].loader
                 /\ Elems(DropSite(cl, c, site)[d].probes) \subseteq Elems(cl[d].probes)
<1>1. cl[c].probes \in Seq(Probe)
    BY DEF ClassList
<1>2. /\ RemoveSite(cl[c].probes, site) \in Seq(Probe)
      /\ Elems(RemoveSite(cl[c].probes, site)) \subseteq Elems(cl[c].probes)
    BY <1>1, RemoveSiteOK
<1> QED
    BY <1>2 DEF DropSite, ClassList

\* Listing a probe for a class adds that probe and nothing else.
LEMMA AddProbeOK ==
    ASSUME NEW cl \in ClassList, NEW c \in Classes, NEW p \in Probe
    PROVE  /\ AddProbe(cl, c, p) \in ClassList
           /\ \A d \in Classes :
                 /\ AddProbe(cl, c, p)[d].loader = cl[d].loader
                 /\ Elems(AddProbe(cl, c, p)[d].probes) \subseteq Elems(cl[d].probes) \cup {p}
<1>1. cl[c].probes \in Seq(Probe)
    BY DEF ClassList
<1>2. /\ Append(cl[c].probes, p) \in Seq(Probe)
      /\ Elems(Append(cl[c].probes, p)) \subseteq Elems(cl[c].probes) \cup {p}
    BY <1>1 DEF Elems
<1> QED
    BY <1>2 DEF AddProbe, ClassList

\* Listing an instrument's probes (populate_class_info, populate_class_info_line)
\* adds probes of that instrument only and makes no class known or unknown.
LEMMA PopulateOK ==
    ASSUME NEW cl \in ClassList, NEW id \in Ids, NEW e \in Entry, NEW s \in Slots
    PROVE  /\ Populate(cl, id, e, s) \in ClassList
           /\ \A d \in Classes :
                 /\ Populate(cl, id, e, s)[d].loader = cl[d].loader
                 /\ \A p \in Elems(Populate(cl, id, e, s)[d].probes) :
                       p \in Elems(cl[d].probes) \/ p.iid = id
<1>1. e.cls \in Classes /\ e.xcls \in Classes /\ e.site \in Sites /\ e.xsite \in Sites
    BY DEF Entry
<1>2. \A k \in Kinds : ProbeOf(id, e, s, k) \in Probe /\ ProbeOf(id, e, s, k).iid = id
    BY <1>1 DEF ProbeOf, Probe
<1>3. CASE e.type = "method"
    <2>1. Populate(cl, id, e, s) = AddProbe(cl, e.cls, ProbeOf(id, e, s, "method"))
        BY <1>3 DEF Populate
    <2>2. ProbeOf(id, e, s, "method") \in Probe /\ ProbeOf(id, e, s, "method").iid = id
        BY <1>2 DEF Kinds
    <2>3. /\ AddProbe(cl, e.cls, ProbeOf(id, e, s, "method")) \in ClassList
          /\ \A d \in Classes :
                /\ AddProbe(cl, e.cls, ProbeOf(id, e, s, "method"))[d].loader = cl[d].loader
                /\ Elems(AddProbe(cl, e.cls, ProbeOf(id, e, s, "method"))[d].probes)
                      \subseteq Elems(cl[d].probes) \cup {ProbeOf(id, e, s, "method")}
        BY <1>1, <2>2, AddProbeOK
    <2> QED
        BY <2>1, <2>2, <2>3
<1>4. CASE e.type # "method"
    <2> DEFINE mid == AddProbe(cl, e.cls, ProbeOf(id, e, s, "enter"))
    <2>1. Populate(cl, id, e, s) = AddProbe(mid, e.xcls, ProbeOf(id, e, s, "exit"))
        BY <1>4 DEF Populate
    <2>2. ProbeOf(id, e, s, "enter") \in Probe /\ ProbeOf(id, e, s, "enter").iid = id
        BY <1>2 DEF Kinds
    <2>3. ProbeOf(id, e, s, "exit") \in Probe /\ ProbeOf(id, e, s, "exit").iid = id
        BY <1>2 DEF Kinds
    <2>4. /\ mid \in ClassList
          /\ \A d \in Classes :
                /\ mid[d].loader = cl[d].loader
                /\ Elems(mid[d].probes) \subseteq Elems(cl[d].probes) \cup {ProbeOf(id, e, s, "enter")}
        BY <1>1, <2>2, AddProbeOK
    <2> HIDE DEF mid
    <2>5. /\ AddProbe(mid, e.xcls, ProbeOf(id, e, s, "exit")) \in ClassList
          /\ \A d \in Classes :
                /\ AddProbe(mid, e.xcls, ProbeOf(id, e, s, "exit"))[d].loader = mid[d].loader
                /\ Elems(AddProbe(mid, e.xcls, ProbeOf(id, e, s, "exit"))[d].probes)
                      \subseteq Elems(mid[d].probes) \cup {ProbeOf(id, e, s, "exit")}
        BY <1>1, <2>3, <2>4, AddProbeOK
    <2> QED
        BY <2>1, <2>2, <2>3, <2>4, <2>5
<1> QED
    BY <1>3, <1>4

\* Taking an instrument's sites out of the lists (undo_ci_and_mi and the
\* deinstrument handlers) adds no probe and makes no class known or unknown.
LEMMA DepopulateOK ==
    ASSUME NEW cl \in ClassList, NEW e \in Entry
    PROVE  /\ Depopulate(cl, e) \in ClassList
           /\ \A d \in Classes :
                 /\ Depopulate(cl, e)[d].loader = cl[d].loader
                 /\ Elems(Depopulate(cl, e)[d].probes) \subseteq Elems(cl[d].probes)
<1>1. e.cls \in Classes /\ e.xcls \in Classes
    BY DEF Entry
<1>2. CASE e.type = "method"
    <2>1. Depopulate(cl, e) = DropSite(cl, e.cls, e.site)
        BY <1>2 DEF Depopulate
    <2>2. /\ DropSite(cl, e.cls, e.site) \in ClassList
          /\ \A d \in Classes :
                /\ DropSite(cl, e.cls, e.site)[d].loader = cl[d].loader
                /\ Elems(DropSite(cl, e.cls, e.site)[d].probes) \subseteq Elems(cl[d].probes)
        BY <1>1, DropSiteOK
    <2> QED
        BY <2>1, <2>2
<1>3. CASE e.type # "method"
    <2> DEFINE mid == DropSite(cl, e.cls, e.site)
    <2>1. Depopulate(cl, e) = DropSite(mid, e.xcls, e.xsite)
        BY <1>3 DEF Depopulate
    <2>2. /\ mid \in ClassList
          /\ \A d \in Classes : /\ mid[d].loader = cl[d].loader
                                /\ Elems(mid[d].probes) \subseteq Elems(cl[d].probes)
        BY <1>1, DropSiteOK
    <2> HIDE DEF mid
    <2>3. /\ DropSite(mid, e.xcls, e.xsite) \in ClassList
          /\ \A d \in Classes :
                /\ DropSite(mid, e.xcls, e.xsite)[d].loader = mid[d].loader
                /\ Elems(DropSite(mid, e.xcls, e.xsite)[d].probes) \subseteq Elems(mid[d].probes)
        BY <1>1, <2>2, DropSiteOK
    <2> QED
        BY <2>1, <2>2, <2>3
<1> QED
    BY <1>2, <1>3

\* Whatever comes of rewriting a class, the JVM runs probes and nothing else.
LEMMA ApplyOK ==
    ASSUME NEW cd \in [Pairs -> SUBSET Probe], NEW cl \in ClassList, NEW c \in Classes,
           NEW o \in Apply(cd, cl, c), defined \subseteq Pairs
    PROVE  o.code \in [Pairs -> SUBSET Probe] /\ o.ok \in BOOLEAN
<1>1. Elems(cl[c].probes) \subseteq Probe
    BY DEF Elems, ClassList
<1>2. Targets(c, cl[c].loader) \subseteq Pairs
    BY DEF Targets
<1>3. CASE \E b \in BOOLEAN : o = [built |-> b, ok |-> FALSE, code |-> cd]
    BY <1>3
<1>4. CASE \E d \in Targets(c, cl[c].loader) :
              o = [built |-> TRUE, ok |-> TRUE, code |-> [cd EXCEPT ![d] = Elems(cl[c].probes)]]
    <2>1. PICK d \in Targets(c, cl[c].loader) :
              o = [built |-> TRUE, ok |-> TRUE, code |-> [cd EXCEPT ![d] = Elems(cl[c].probes)]]
        BY <1>4
    <2>2. [cd EXCEPT ![d] = Elems(cl[c].probes)] \in [Pairs -> SUBSET Probe]
        BY <1>1
    <2> QED
        BY <2>1, <2>2
<1>5. CASE \E d \in Targets(c, cl[c].loader) :
              o = [built |-> TRUE, ok |-> TRUE, code |-> [cd EXCEPT ![d] = {}]]
    <2>1. PICK d \in Targets(c, cl[c].loader) :
              o = [built |-> TRUE, ok |-> TRUE, code |-> [cd EXCEPT ![d] = {}]]
        BY <1>5
    <2>2. [cd EXCEPT ![d] = {}] \in [Pairs -> SUBSET Probe]
        OBVIOUS
    <2> QED
        BY <2>1, <2>2
<1>6. \/ \E b \in BOOLEAN : o = [built |-> b, ok |-> FALSE, code |-> cd]
      \/ \E d \in Targets(c, cl[c].loader) :
              o = [built |-> TRUE, ok |-> TRUE, code |-> [cd EXCEPT ![d] = Elems(cl[c].probes)]]
      \/ \E d \in Targets(c, cl[c].loader) :
              o = [built |-> TRUE, ok |-> TRUE, code |-> [cd EXCEPT ![d] = {}]]
    BY Zenon DEF Apply
<1> QED
    BY <1>3, <1>4, <1>5, <1>6

\* The same for the two rewrites a line instrument may need.
LEMMA PerformOK ==
    ASSUME NEW cd \in [Pairs -> SUBSET Probe], NEW cl \in ClassList, NEW e \in Entry,
           defined \subseteq Pairs,
           NEW o \in Perform(cd, cl, e) \cup Strip(cd, cl, e)
    PROVE  o.code \in [Pairs -> SUBSET Probe] /\ o.ok \in BOOLEAN
<1>1. e.cls \in Classes /\ e.xcls \in Classes
    BY DEF Entry
<1>2. PICK o1 \in Apply(cd, cl, e.cls) : o = o1 \/ o \in Apply(o1.code, cl, e.xcls)
    BY DEF Perform, Strip
<1>3. o1.code \in [Pairs -> SUBSET Probe] /\ o1.ok \in BOOLEAN
    BY <1>1, ApplyOK
<1>4. CASE o = o1
    BY <1>3, <1>4
<1>5. CASE o \in Apply(o1.code, cl, e.xcls)
    BY <1>1, <1>3, <1>5, ApplyOK
<1> QED
    BY <1>2, <1>4, <1>5

\* Install changes the table at one id only, lists no probe of another
\* instrument, and makes no class known or unknown.
LEMMA InstallOK ==
    ASSUME TypeOK, NEW id \in Ids, NEW e \in Entry, NEW s \in Slots, Install(id, e, s)
    PROVE  /\ code' \in [Pairs -> SUBSET Probe]
           /\ ci' \in ClassList
           /\ \A d \in Classes :
                 /\ ci'[d].loader = ci[d].loader
                 /\ \A p \in Elems(ci'[d].probes) : p \in Elems(ci[d].probes) \/ p.iid = id
           /\ \/ mi' = [mi EXCEPT ![id] = [e EXCEPT !.deferred = {}]]
              \/ mi' = [mi EXCEPT ![id] = NoEntry]
           /\ slots' \in [Slots -> Ids \cup {0}]
<1> DEFINE pop == Populate(ci, id, e, s)
<1>1. /\ ci \in ClassList /\ code \in [Pairs -> SUBSET Probe] /\ defined \subseteq Pairs
      /\ slots \in [Slots -> Ids \cup {0}]
    BY DEF TypeOK
<1>2. /\ pop \in ClassList
      /\ \A d \in Classes :
            /\ pop[d].loader = ci[d].loader
            /\ \A p \in Elems(pop[d].probes) : p \in Elems(ci[d].probes) \/ p.iid = id
    BY <1>1, PopulateOK
<1>3. PICK o \in Perform(code, pop, e) :
          /\ code' = o.code
          /\ ci' = IF o.ok THEN pop ELSE Depopulate(pop, e)
          /\ mi' = [mi EXCEPT ![id] = IF o.ok THEN [e EXCEPT !.deferred = {}] ELSE NoEntry]
          /\ slots' = [slots EXCEPT ![s] = IF o.ok THEN id ELSE 0]
    BY DEF Install
<1> HIDE DEF pop
<1>4. o.code \in [Pairs -> SUBSET Probe] /\ o.ok \in BOOLEAN
    BY <1>1, <1>2, PerformOK
<1>5. /\ Depopulate(pop, e) \in ClassList
      /\ \A d \in Classes :
            /\ Depopulate(pop, e)[d].loader = pop[d].loader
            /\ Elems(Depopulate(pop, e)[d].probes) \subseteq Elems(pop[d].probes)
    BY <1>2, DepopulateOK
<1>6. CASE o.ok
    BY <1>1, <1>2, <1>3, <1>4, <1>6
<1>7. CASE ~o.ok
    BY <1>1, <1>2, <1>3, <1>4, <1>5, <1>7
<1> QED
    BY <1>6, <1>7

-----------------------------------------------------------------------------
(* The inductive invariant.                                                *)

\* The agent starts with empty tables.
LEMMA InitIInv == Init => IInv
<1> SUFFICES ASSUME Init PROVE IInv
    OBVIOUS
<1>1. TypeOK
    <2>1. ci \in ClassList
        BY DEF Init, ClassList
    <2>2. cur \in [phase : {"cleanup", "deferred"}, cls : Classes] \cup {Idle}
        BY DEF Init
    <2>3. nextId \in 1..(MaxId + 1)
        BY IdBound DEF Init
    <2>4. mi \in [Ids -> Entry \cup {NoEntry}]
        BY DEF Init
    <2> QED
        BY <2>1, <2>2, <2>3, <2>4 DEF Init, TypeOK
<1>2. QueueMatchesMaster
    BY DEF Init, QueueMatchesMaster, Present
<1>3. NoSilentLoss
    BY DEF Init, NoSilentLoss
<1>4. FreshIds
    BY DEF Init, FreshIds, Present
<1>5. ListedIsReady
    BY DEF Init, ListedIsReady, Elems
<1>6. DeferredSides
    BY DEF Init, DeferredSides, Present
<1>7. QueuedIsUnknown
    BY DEF Init, QueuedIsUnknown
<1>8. CurIsKnown /\ CleanupLogged
    BY DEF Init, CurIsKnown, CleanupLogged, Idle
<1> QED
    BY <1>1, <1>2, <1>3, <1>4, <1>5, <1>6, <1>7, <1>8 DEF IInv

\* The JVM's steps leave the server's tables alone.
LEMMA JVMStep ==
    ASSUME IInv, NEW c \in Classes, NEW l \in Loaders, LoadHook(c, l) \/ Define(c, l)
    PROVE  IInv'
<1>1. /\ UNCHANGED <<mi, nextId, queue, ci, cur, errs, dropped, slots, code, told>>
      /\ hooked' \subseteq Pairs /\ defined' \subseteq hooked' /\ early' \subseteq Pairs
      /\ evq' \in Seq(Pairs)
    <2>1. <<c, l>> \in Pairs
        BY DEF Pairs
    <2>2. /\ evq \in Seq(Pairs) /\ hooked \subseteq Pairs /\ defined \subseteq hooked
          /\ early \subseteq Pairs
        BY DEF IInv, TypeOK
    <2>3. CASE LoadHook(c, l)
        <3>1. Append(evq, <<c, l>>) \in Seq(Pairs)
            BY <2>1, <2>2
        <3> QED
            BY <2>1, <2>2, <2>3, <3>1 DEF LoadHook
    <2>4. CASE Define(c, l)
        BY <2>1, <2>2, <2>4 DEF Define
    <2> QED
        BY <2>3, <2>4
<1>2. TypeOK'
    BY <1>1 DEF IInv, TypeOK
<1>3. QueueMatchesMaster' /\ NoSilentLoss' /\ FreshIds' /\ ListedIsReady' /\ DeferredSides'
      /\ QueuedIsUnknown' /\ CurIsKnown' /\ CleanupLogged'
    BY <1>1 DEF IInv, CurIsKnown, QueueMatchesMaster, NoSilentLoss, FreshIds, ListedIsReady, DeferredSides,
        QueuedIsUnknown, CleanupLogged, Present, Ready, Known, SideClass, Sides
<1> QED
    BY <1>2, <1>3 DEF IInv

\* The fields of the entry an id has, as far as any proof below needs them.
LEMMA EntryFields ==
    ASSUME TypeOK, NEW id \in Ids, Present(id)
    PROVE  /\ mi[id] \in Entry
           /\ mi[id].cls \in Classes /\ mi[id].xcls \in Classes
           /\ mi[id].deferred \subseteq Kinds
           /\ mi[id].type \in {"method", "line"}
BY DEF TypeOK, Present, Entry

\* An element of the queue is determined by its instrument and its side.
LEMMA QueueKeys ==
    ASSUME TypeOK, QueueMatchesMaster, NEW q \in queue, NEW r \in queue,
           q.iid = r.iid, q.kind = r.kind
    PROVE  q = r
<1>1. q \in Queued /\ r \in Queued
    BY DEF TypeOK
<1>2. q.cls = r.cls /\ q.slot = r.slot
    BY DEF QueueMatchesMaster
<1> QED
    BY <1>1, <1>2 DEF Queued

\* An instrument with no deferred side has no queue element, and one with
\* none in the table has none either.
LEMMA NotQueued ==
    ASSUME QueueMatchesMaster, NEW id, Present(id) => Ready(id)
    PROVE  \A q \in queue : q.iid # id
BY DEF QueueMatchesMaster, Ready

\* An instrument leaves the table: nothing of it may be left in the queue.
LEMMA DeinstrumentStep ==
    ASSUME IInv, NEW id \in Ids, Deinstrument(id)
    PROVE  IInv'
<1>1. /\ TypeOK /\ Present(id) /\ cur = Idle /\ mi \in [Ids -> Entry \cup {NoEntry}]
      /\ ci \in ClassList /\ code \in [Pairs -> SUBSET Probe] /\ defined \subseteq Pairs
      /\ slots \in [Slots -> Ids \cup {0}]
    BY DEF IInv, Deinstrument, Present, TypeOK
<1>2. mi[id] \in Entry
    BY <1>1, EntryFields
<1>3. /\ mi' = [mi EXCEPT ![id] = NoEntry]
      /\ queue' = {q \in queue : q.iid # id}
      /\ ci' \in ClassList
      /\ \A d \in Classes : /\ ci'[d].loader = ci[d].loader
                            /\ Elems(ci'[d].probes) \subseteq Elems(ci[d].probes)
      /\ code' \in [Pairs -> SUBSET Probe]
      /\ slots' \in [Slots -> Ids \cup {0}]
      /\ told' = [told EXCEPT ![id] = "removed"] \/ told' = [told EXCEPT ![id] = "fail"]
      /\ UNCHANGED <<nextId, cur, errs, dropped, evq, hooked, defined, early>>
    <2>1. CASE DeinstrumentDeferred(id)
        BY <1>1, <2>1 DEF DeinstrumentDeferred, Deinstrument
    <2>2. CASE DeinstrumentApplied(id)
        <3>1. /\ Depopulate(ci, mi[id]) \in ClassList
              /\ \A d \in Classes :
                    /\ Depopulate(ci, mi[id])[d].loader = ci[d].loader
                    /\ Elems(Depopulate(ci, mi[id])[d].probes) \subseteq Elems(ci[d].probes)
            BY <1>1, <1>2, DepopulateOK
        <3>2. PICK o \in Strip(code, Depopulate(ci, mi[id]), mi[id]) :
                  /\ code' = o.code
                  /\ told' = [told EXCEPT ![id] =
                        IF (IF mi[id].type = "method" THEN o.ok ELSE o.built)
                        THEN "removed" ELSE "fail"]
            BY <2>2 DEF DeinstrumentApplied
        <3>3. o.code \in [Pairs -> SUBSET Probe]
            BY <1>1, <1>2, <3>1, PerformOK
        <3>4. told' = [told EXCEPT ![id] = "removed"] \/ told' = [told EXCEPT ![id] = "fail"]
            BY <3>2
        <3>5. slots' \in [Slots -> Ids \cup {0}]
            BY <1>1, <2>2 DEF DeinstrumentApplied
        <3>6. queue' = queue /\ ci' = Depopulate(ci, mi[id]) /\ mi' = [mi EXCEPT ![id] = NoEntry]
            BY <2>2 DEF DeinstrumentApplied
        <3>7. \A q \in queue : q.iid # id
            <4>1. Ready(id)
                BY <1>1, <2>2 DEF DeinstrumentApplied, Ready
            <4> QED
                BY <4>1, NotQueued DEF IInv
        <3>8. UNCHANGED <<nextId, cur, errs, dropped, evq, hooked, defined, early>>
            BY DEF Deinstrument
        <3> QED
            BY <3>1, <3>2, <3>3, <3>4, <3>5, <3>6, <3>7, <3>8
    <2> QED
        BY <2>1, <2>2 DEF Deinstrument
<1>4. TypeOK'
    BY <1>1, <1>3 DEF TypeOK
<1>5. \A j \in Ids : j # id => mi'[j] = mi[j] /\ told'[j] = told[j]
    BY <1>1, <1>3 DEF TypeOK
<1>6. ~Present(id)' /\ told'[id] \in {"removed", "fail"}
    BY <1>1, <1>3 DEF TypeOK, Present
<1>7. queue \subseteq Queued /\ (\A q \in queue : q.iid \in Ids)
    BY <1>1 DEF TypeOK, Queued
<1>8. QueueMatchesMaster'
    BY <1>3, <1>5, <1>6, <1>7 DEF IInv, QueueMatchesMaster, Present, SideClass
<1>9. NoSilentLoss'
    BY <1>3, <1>5, <1>6 DEF IInv, NoSilentLoss, Present
<1>10. FreshIds'
    <2>1. ~(id >= nextId)
        BY <1>1 DEF IInv, FreshIds
    <2> QED
        BY <1>3, <1>5, <2>1 DEF IInv, FreshIds, Present
<1>11. ListedIsReady'
    <2> SUFFICES ASSUME NEW c \in Classes, NEW p \in Elems(ci'[c].probes)
                 PROVE  p.iid < nextId /\ (Present(p.iid)' => Ready(p.iid)')
        BY <1>3 DEF ListedIsReady
    <2>1. p \in Elems(ci[c].probes) /\ p.iid \in Ids
        BY <1>1, <1>3, ListedOK
    <2>2. p.iid < nextId /\ (Present(p.iid) => Ready(p.iid))
        BY <2>1 DEF IInv, ListedIsReady
    <2> QED
        BY <1>5, <1>6, <2>1, <2>2 DEF Present, Ready
<1>12. DeferredSides'
    BY <1>1, <1>3, <1>5, <1>6 DEF IInv, DeferredSides, Present, Sides, Known, TypeOK, Entry
<1>13. QueuedIsUnknown'
    BY <1>3, <1>7, <1>1 DEF IInv, QueuedIsUnknown, Known, TypeOK, Queued
<1>14. CurIsKnown' /\ CleanupLogged'
    BY <1>1, <1>3 DEF CurIsKnown, CleanupLogged, Idle
<1> QED
    BY <1>4, <1>8, <1>9, <1>10, <1>11, <1>12, <1>13, <1>14 DEF IInv

\* What a message to the error log does to its books.
LEMMA Reported ==
    ASSUME IInv, NEW ids \in SUBSET Ids, Report(ids)
    PROVE  /\ errs \subseteq errs' /\ errs' \subseteq Ids
           /\ dropped \subseteq dropped' /\ dropped' \subseteq Ids
           /\ ids \subseteq errs' \cup dropped'
           /\ \A j \in Ids : j \in dropped' => Faults
BY DEF IInv, TypeOK, NoSilentLoss, Report

\* A queued side gets its turn.
LEMMA DeferredStepStep ==
    ASSUME IInv, NEW q \in queue, DeferredStep(q)
    PROVE  IInv'
<1> DEFINE id == q.iid
           e  == [mi[id] EXCEPT !.deferred = @ \ {q.kind}]
<1>1. /\ TypeOK /\ q \in Queued /\ id \in Ids /\ q.slot \in Slots /\ q.kind \in Kinds
      /\ queue \subseteq Queued /\ (\A r \in queue : r.iid \in Ids /\ r.kind \in Kinds)
      /\ q.cls \in Classes
    BY DEF IInv, TypeOK, Queued
<1>2. Present(id) /\ q.kind \in mi[id].deferred /\ q.cls = SideClass(mi[id], q.kind)
    BY DEF IInv, QueueMatchesMaster
<1>3. mi[id] \in Entry
    BY <1>1, <1>2, EntryFields
<1>4. e \in Entry /\ e.deferred = mi[id].deferred \ {q.kind}
    BY <1>3 DEF Entry
<1>5. cur.phase = "deferred" /\ cur.cls = q.cls /\ queue' = queue \ {q}
      /\ UNCHANGED <<nextId, cur, evq, hooked, defined, early, told>>
    BY DEF DeferredStep
<1>6. /\ e.type = mi[id].type /\ e.cls = mi[id].cls /\ e.xcls = mi[id].xcls
      /\ e.site = mi[id].site /\ e.xsite = mi[id].xsite
    BY <1>3 DEF Entry
<1>7. \/ /\ e.deferred # {}
         /\ mi' = [mi EXCEPT ![id] = e]
         /\ UNCHANGED <<ci, code, slots, errs, dropped>>
      \/ /\ e.deferred = {}
         /\ Install(id, e, q.slot)
         /\ IF mi'[id] = NoEntry THEN Report({id}) ELSE UNCHANGED <<errs, dropped>>
    BY DEF DeferredStep
<1> HIDE DEF id, e
<1>8. \A r \in queue : r.iid = id /\ r.kind = q.kind => r = q
    BY QueueKeys DEF IInv, id
<1>9. CASE e.deferred # {}
    <2>1. mi' = [mi EXCEPT ![id] = e] /\ UNCHANGED <<ci, code, slots, errs, dropped>>
        BY <1>7, <1>9
    <2>2. mi' \in [Ids -> Entry \cup {NoEntry}] /\ mi'[id] = e
          /\ \A j \in Ids : j # id => mi'[j] = mi[j]
        BY <2>1, <1>1, <1>4 DEF TypeOK
    <2>3. e # NoEntry
        BY <1>4, NoEntryOK
    <2>4. TypeOK'
        BY <1>1, <1>5, <2>1, <2>2 DEF TypeOK
    <2>5. QueueMatchesMaster'
        <3>1. \A r \in queue' : /\ Present(r.iid)'
                                /\ r.kind \in mi'[r.iid].deferred
                                /\ r.cls = SideClass(mi'[r.iid], r.kind)
            <4> TAKE r \in queue'
            <4>1. r \in queue /\ r # q /\ r.iid \in Ids
                BY <1>1, <1>5
            <4>2. /\ Present(r.iid) /\ r.kind \in mi[r.iid].deferred
                  /\ r.cls = SideClass(mi[r.iid], r.kind)
                BY <4>1 DEF IInv, QueueMatchesMaster
            <4>3. CASE r.iid = id
                <5>1. r.kind # q.kind
                    BY <1>8, <4>1, <4>3
                <5> QED
                    BY <1>4, <1>6, <2>2, <2>3, <4>2, <4>3, <5>1 DEF Present, SideClass
            <4>4. CASE r.iid # id
                BY <2>2, <4>1, <4>2, <4>4 DEF Present, SideClass
            <4> QED
                BY <4>3, <4>4
        <3>2. \A j \in Ids : Present(j)' =>
                 \A k \in mi'[j].deferred : \E r \in queue' : r.iid = j /\ r.kind = k
            <4> SUFFICES ASSUME NEW j \in Ids, Present(j)', NEW k \in mi'[j].deferred
                         PROVE  \E r \in queue' : r.iid = j /\ r.kind = k
                OBVIOUS
            <4>1. /\ Present(j) /\ k \in mi[j].deferred
                  /\ j = id => k # q.kind
                BY <1>2, <1>4, <2>2 DEF Present
            <4>2. PICK r \in queue : r.iid = j /\ r.kind = k
                BY <4>1 DEF IInv, QueueMatchesMaster
            <4>3. r # q
                BY <4>1, <4>2 DEF id
            <4> QED
                BY <1>5, <4>2, <4>3
        <3>3. \A r, t \in queue' : r.iid = t.iid => r.slot = t.slot
            BY <1>5 DEF IInv, QueueMatchesMaster
        <3> QED
            BY <3>1, <3>2, <3>3 DEF QueueMatchesMaster
    <2>6. NoSilentLoss'
        BY <1>2, <1>5, <2>1, <2>2, <2>3 DEF IInv, NoSilentLoss, Present
    <2>7. FreshIds'
        BY <1>2, <1>5, <2>1, <2>2 DEF IInv, FreshIds, Present
    <2>8. ListedIsReady'
        <3> SUFFICES ASSUME NEW c \in Classes, NEW p \in Elems(ci[c].probes)
                     PROVE  p.iid < nextId /\ (Present(p.iid)' => Ready(p.iid)')
            BY <2>1, <1>5 DEF ListedIsReady
        <3>1. p.iid < nextId /\ (Present(p.iid) => Ready(p.iid))
            BY DEF IInv, ListedIsReady
        <3>2. p.iid \in Ids
            BY <1>1, ListedOK DEF TypeOK
        <3>3. p.iid # id
            BY <1>2, <3>1 DEF Ready
        <3> QED
            BY <2>2, <3>1, <3>2, <3>3 DEF Present, Ready
    <2>9. DeferredSides'
        <3>1. /\ mi[id].deferred \subseteq Sides(mi[id])
              /\ mi[id].type = "method" => mi[id].xcls = mi[id].cls
              /\ "exit" \in mi[id].deferred => mi[id].xcls # mi[id].cls
              /\ mi[id].deferred \cap {"method", "enter"} = {} => Known(mi[id].cls)
              /\ "exit" \notin mi[id].deferred /\ mi[id].xcls # mi[id].cls => Known(mi[id].xcls)
            BY <1>1, <1>2 DEF IInv, DeferredSides
        <3>2. Known(q.cls)
            BY <1>5 DEF IInv, CurIsKnown, Idle
        <3>3. /\ e.deferred \subseteq Sides(e)
              /\ e.type = "method" => e.xcls = e.cls
              /\ "exit" \in e.deferred => e.xcls # e.cls
              /\ e.deferred \cap {"method", "enter"} = {} => Known(e.cls)
              /\ "exit" \notin e.deferred /\ e.xcls # e.cls => Known(e.xcls)
            BY <1>2, <1>4, <1>6, <3>1, <3>2, Zenon DEF Sides, SideClass
        <3>4. \A d \in Classes : Known(d)' <=> Known(d)
            BY <2>1 DEF Known
        <3> QED
            BY <2>1, <2>2, <3>3 DEF IInv, DeferredSides, Present, Known, Sides
    <2>10. QueuedIsUnknown' /\ CleanupLogged'
        BY <1>5, <2>1 DEF IInv, QueuedIsUnknown, CleanupLogged, Known
    <2> QED
        BY <2>4, <2>5, <2>6, <2>7, <2>8, <2>9, <2>10, <1>5, <2>1 DEF IInv, CurIsKnown, Known
<1>10. CASE e.deferred = {}
    <2>1. /\ Install(id, e, q.slot)
          /\ IF mi'[id] = NoEntry THEN Report({id}) ELSE UNCHANGED <<errs, dropped>>
        BY <1>7, <1>10
    <2>2. /\ code' \in [Pairs -> SUBSET Probe]
          /\ ci' \in ClassList
          /\ \A d \in Classes :
                /\ ci'[d].loader = ci[d].loader
                /\ \A p \in Elems(ci'[d].probes) : p \in Elems(ci[d].probes) \/ p.iid = id
          /\ \/ mi' = [mi EXCEPT ![id] = [e EXCEPT !.deferred = {}]]
             \/ mi' = [mi EXCEPT ![id] = NoEntry]
          /\ slots' \in [Slots -> Ids \cup {0}]
        BY <1>1, <1>4, <2>1, InstallOK
    <2>3. [e EXCEPT !.deferred = {}] = e
        BY <1>4, <1>10 DEF Entry
    <2>4. /\ mi' \in [Ids -> Entry \cup {NoEntry}]
          /\ mi'[id] = e \/ mi'[id] = NoEntry
          /\ \A j \in Ids : j # id => mi'[j] = mi[j]
        <3>1. mi \in [Ids -> Entry \cup {NoEntry}]
            BY <1>1 DEF TypeOK
        <3>2. CASE mi' = [mi EXCEPT ![id] = e]
            BY <1>1, <1>4, <3>1, <3>2
        <3>3. CASE mi' = [mi EXCEPT ![id] = NoEntry]
            BY <1>1, <3>1, <3>3
        <3> QED
            BY <2>2, <2>3, <3>2, <3>3
    <2>5. /\ errs' \subseteq Ids /\ errs \subseteq errs'
          /\ dropped' \subseteq Ids /\ dropped \subseteq dropped'
          /\ mi'[id] = NoEntry => id \in errs' \cup dropped'
          /\ \A j \in Ids : j \in dropped' => Faults
        <3>1. CASE Report({id}) /\ mi'[id] = NoEntry
            BY <1>1, <3>1, Reported
        <3>2. CASE UNCHANGED <<errs, dropped>> /\ mi'[id] # NoEntry
            BY <3>2 DEF IInv, TypeOK, NoSilentLoss
        <3> QED
            BY <2>1, <3>1, <3>2
    <2>6. e # NoEntry
        BY <1>4, NoEntryOK
    <2>7. \A r \in queue' : r \in queue /\ r.iid # id
        <3> SUFFICES ASSUME NEW r \in queue, r # q, r.iid = id PROVE FALSE
            BY <1>5
        <3>1. r.kind \in mi[id].deferred
            BY DEF IInv, QueueMatchesMaster
        <3>2. r.kind = q.kind
            BY <1>4, <1>10, <3>1
        <3> QED
            BY <1>8, <3>2
    <2>8. TypeOK'
        BY <1>1, <1>5, <2>2, <2>4, <2>5 DEF TypeOK
    <2>9. QueueMatchesMaster'
        <3>1. \A r \in queue' : /\ Present(r.iid)'
                                /\ r.kind \in mi'[r.iid].deferred
                                /\ r.cls = SideClass(mi'[r.iid], r.kind)
            BY <1>1, <2>4, <2>7 DEF IInv, QueueMatchesMaster, Present, SideClass
        <3>2. \A j \in Ids : Present(j)' =>
                 \A k \in mi'[j].deferred : \E r \in queue' : r.iid = j /\ r.kind = k
            <4> SUFFICES ASSUME NEW j \in Ids, Present(j)', NEW k \in mi'[j].deferred
                         PROVE  \E r \in queue' : r.iid = j /\ r.kind = k
                OBVIOUS
            <4>1. j # id
                BY <1>10, <2>4 DEF Present
            <4>2. Present(j) /\ k \in mi[j].deferred
                BY <2>4, <4>1 DEF Present
            <4>3. PICK r \in queue : r.iid = j /\ r.kind = k
                BY <4>2 DEF IInv, QueueMatchesMaster
            <4> QED
                BY <1>5, <4>1, <4>3 DEF id
        <3>3. \A r, t \in queue' : r.iid = t.iid => r.slot = t.slot
            BY <1>5 DEF IInv, QueueMatchesMaster
        <3> QED
            BY <3>1, <3>2, <3>3 DEF QueueMatchesMaster
    <2>10. NoSilentLoss'
        BY <1>2, <1>5, <2>4, <2>5, <2>6 DEF IInv, NoSilentLoss, Present
    <2>11. FreshIds'
        BY <1>2, <1>5, <2>4 DEF IInv, FreshIds, Present
    <2>12. ListedIsReady'
        <3> SUFFICES ASSUME NEW c \in Classes, NEW p \in Elems(ci'[c].probes)
                     PROVE  p.iid < nextId /\ (Present(p.iid)' => Ready(p.iid)')
            BY <1>5 DEF ListedIsReady
        <3>1. CASE p.iid = id
            <4>1. id < nextId
                BY <1>1, <1>2, IdBound DEF IInv, FreshIds, TypeOK, Ids
            <4> QED
                BY <1>10, <2>4, <3>1, <4>1 DEF Present, Ready
        <3>2. CASE p.iid # id
            <4>1. p \in Elems(ci[c].probes) /\ p.iid \in Ids
                BY <2>2, <3>2, ListedOK
            <4>2. p.iid < nextId /\ (Present(p.iid) => Ready(p.iid))
                BY <4>1 DEF IInv, ListedIsReady
            <4> QED
                BY <2>4, <3>2, <4>1, <4>2 DEF Present, Ready
        <3> QED
            BY <3>1, <3>2
    <2>13. \A d \in Classes : Known(d)' <=> Known(d)
        BY <2>2 DEF Known
    <2>14. DeferredSides'
        <3>1. /\ mi[id].deferred \subseteq Sides(mi[id])
              /\ mi[id].type = "method" => mi[id].xcls = mi[id].cls
              /\ "exit" \in mi[id].deferred => mi[id].xcls # mi[id].cls
              /\ mi[id].deferred \cap {"method", "enter"} = {} => Known(mi[id].cls)
              /\ "exit" \notin mi[id].deferred /\ mi[id].xcls # mi[id].cls => Known(mi[id].xcls)
            BY <1>1, <1>2 DEF IInv, DeferredSides
        <3>2. Known(q.cls)
            BY <1>5 DEF IInv, CurIsKnown, Idle
        <3>3. /\ e.deferred \subseteq Sides(e)
              /\ e.type = "method" => e.xcls = e.cls
              /\ "exit" \in e.deferred => e.xcls # e.cls
              /\ e.deferred \cap {"method", "enter"} = {} => Known(e.cls)
              /\ "exit" \notin e.deferred /\ e.xcls # e.cls => Known(e.xcls)
            BY <1>2, <1>4, <1>6, <3>1, <3>2, Zenon DEF Sides, SideClass
        <3> SUFFICES ASSUME NEW j \in Ids, Present(j)'
                     PROVE /\ mi'[j].deferred \subseteq Sides(mi'[j])
                           /\ mi'[j].type = "method" => mi'[j].xcls = mi'[j].cls
                           /\ "exit" \in mi'[j].deferred => mi'[j].xcls # mi'[j].cls
                           /\ mi'[j].deferred \cap {"method", "enter"} = {} => Known(mi'[j].cls)
                           /\ "exit" \notin mi'[j].deferred /\ mi'[j].xcls # mi'[j].cls
                                => Known(mi'[j].xcls)
            BY <2>4, <2>13 DEF DeferredSides, Present, Sides, Known, Entry
        <3>4. CASE j = id
            BY <2>4, <3>3, <3>4 DEF Present
        <3>5. CASE j # id
            BY <2>4, <3>5 DEF IInv, DeferredSides, Present
        <3> QED
            BY <3>4, <3>5
    <2>15. QueuedIsUnknown' /\ CurIsKnown' /\ CleanupLogged'
        <3>1. q.cls \in Classes /\ \A r \in queue : r.cls \in Classes
            BY <1>1 DEF Queued
        <3> QED
            BY <1>5, <2>7, <2>13, <3>1 DEF IInv, QueuedIsUnknown, CurIsKnown, CleanupLogged
    <2> QED
        BY <2>8, <2>9, <2>10, <2>11, <2>12, <2>14, <2>15 DEF IInv
<1> QED
    BY <1>9, <1>10

\* The class-loaded handler ends: nothing queued waits for its class.
LEMMA DeferredDoneStep ==
    ASSUME IInv, DeferredDone
    PROVE  IInv'
<1>1. /\ UNCHANGED <<mi, nextId, queue, ci, errs, dropped, slots, evq, hooked, defined, early, code,
                     told>>
      /\ cur' = Idle /\ cur.phase = "deferred" /\ \A q \in queue : q.cls # cur.cls
    BY DEF DeferredDone
<1>2. TypeOK'
    BY <1>1 DEF IInv, TypeOK
<1>3. QueueMatchesMaster' /\ NoSilentLoss' /\ FreshIds' /\ ListedIsReady' /\ DeferredSides'
    BY <1>1 DEF IInv, QueueMatchesMaster, NoSilentLoss, FreshIds, ListedIsReady, DeferredSides,
        Present, Ready, Known, SideClass, Sides
<1>4. QueuedIsUnknown' /\ CurIsKnown' /\ CleanupLogged'
    BY <1>1 DEF IInv, QueuedIsUnknown, CurIsKnown, CleanupLogged, Known, Idle
<1> QED
    BY <1>2, <1>3, <1>4 DEF IInv

\* A class-loaded handler that fails at once only takes its message.
LEMMA ForgetClassStep ==
    ASSUME IInv, ForgetClass
    PROVE  IInv'
<1>1. /\ UNCHANGED <<mi, nextId, queue, ci, cur, errs, dropped, slots, hooked, defined, early, code,
                     told>>
      /\ evq' \in Seq(Pairs)
    BY DEF IInv, TypeOK, ForgetClass
<1>2. TypeOK'
    BY <1>1 DEF IInv, TypeOK
<1>3. QueueMatchesMaster' /\ NoSilentLoss' /\ FreshIds' /\ ListedIsReady' /\ DeferredSides'
      /\ QueuedIsUnknown' /\ CurIsKnown' /\ CleanupLogged'
    BY <1>1 DEF IInv, CurIsKnown, QueueMatchesMaster, NoSilentLoss, FreshIds, ListedIsReady, DeferredSides,
        QueuedIsUnknown, CleanupLogged, Present, Ready, Known, SideClass, Sides
<1> QED
    BY <1>2, <1>3 DEF IInv

\* The class-loaded handler makes its class known, and logs what it will give
\* up before it gives it up.
LEMMA HandleClassLoadedStep ==
    ASSUME IInv, HandleClassLoaded
    PROVE  IInv'
<1> DEFINE c  == Head(evq)[1]
           cl == [ci EXCEPT ![c].loader = Head(evq)[2]]
<1>1. /\ TypeOK /\ cur = Idle /\ ci \in ClassList /\ code \in [Pairs -> SUBSET Probe]
      /\ defined \subseteq Pairs /\ errs \subseteq Ids /\ dropped \subseteq Ids
      /\ \A j \in Ids : j \in dropped => Faults
    BY DEF IInv, TypeOK, NoSilentLoss, HandleClassLoaded
<1>2. c \in Classes /\ Head(evq)[2] \in Loaders /\ evq' \in Seq(Pairs)
    <2>1. evq \in Seq(Pairs) /\ evq # <<>>
        BY DEF IInv, TypeOK, HandleClassLoaded
    <2>2. Head(evq) \in Pairs /\ Tail(evq) \in Seq(Pairs)
        BY <2>1
    <2> QED
        BY <2>2 DEF Pairs, HandleClassLoaded
<1>3. /\ ci' = cl
      /\ UNCHANGED <<mi, nextId, queue, slots, hooked, defined, told>>
      /\ \/ cur' = [phase |-> "deferred", cls |-> c] /\ UNCHANGED <<code, errs, dropped>>
         \/ \E o \in Apply(code, cl, c) :
               /\ code' = o.code
               /\ cur' = [phase |-> IF o.ok THEN "deferred" ELSE "cleanup", cls |-> c]
               /\ IF o.ok THEN UNCHANGED <<errs, dropped>>
                          ELSE Report({p.iid : p \in Elems(ci[c].probes)})
    BY DEF HandleClassLoaded
<1>0. early' \subseteq Pairs
    <2>1. Head(evq) \in Pairs /\ early' = early \cup ({Head(evq)} \ defined)
        BY <1>1 DEF HandleClassLoaded, TypeOK
    <2> QED
        BY <1>1, <2>1 DEF TypeOK
<1>4. /\ cl \in ClassList
      /\ \A d \in Classes : cl[d].probes = ci[d].probes
      /\ \A d \in Classes : d # c => cl[d].loader = ci[d].loader
      /\ cl[c].loader # NoLoader
    BY <1>1, <1>2, NoLoaderOK DEF ClassList
<1> HIDE DEF c, cl
<1>5. {p.iid : p \in Elems(ci[c].probes)} \subseteq Ids
    BY <1>1, <1>2, ListedOK
<1>6. /\ code' \in [Pairs -> SUBSET Probe]
      /\ cur' \in [phase : {"cleanup", "deferred"}, cls : Classes]
      /\ cur'.cls = c
      /\ errs \subseteq errs' /\ errs' \subseteq Ids
      /\ dropped \subseteq dropped' /\ dropped' \subseteq Ids
      /\ \A j \in Ids : j \in dropped' => Faults
      /\ cur'.phase = "cleanup" => \A p \in Elems(ci[c].probes) : p.iid \in errs' \cup dropped'
    <2>1. CASE cur' = [phase |-> "deferred", cls |-> c] /\ UNCHANGED <<code, errs, dropped>>
        BY <1>1, <1>2, <2>1
    <2>2. CASE \E o \in Apply(code, cl, c) :
                  /\ code' = o.code
                  /\ cur' = [phase |-> IF o.ok THEN "deferred" ELSE "cleanup", cls |-> c]
                  /\ IF o.ok THEN UNCHANGED <<errs, dropped>>
                             ELSE Report({p.iid : p \in Elems(ci[c].probes)})
        <3>1. PICK o \in Apply(code, cl, c) :
                  /\ code' = o.code
                  /\ cur' = [phase |-> IF o.ok THEN "deferred" ELSE "cleanup", cls |-> c]
                  /\ IF o.ok THEN UNCHANGED <<errs, dropped>>
                             ELSE Report({p.iid : p \in Elems(ci[c].probes)})
            BY <2>2
        <3>2. o.code \in [Pairs -> SUBSET Probe] /\ o.ok \in BOOLEAN
            BY <1>1, <1>2, <1>4, ApplyOK
        <3>3. CASE o.ok
            BY <1>1, <1>2, <3>1, <3>2, <3>3
        <3>4. CASE ~o.ok
            <4>1. Report({p.iid : p \in Elems(ci[c].probes)})
                BY <3>1, <3>4
            <4>2. /\ errs \subseteq errs' /\ errs' \subseteq Ids
                  /\ dropped \subseteq dropped' /\ dropped' \subseteq Ids
                  /\ {p.iid : p \in Elems(ci[c].probes)} \subseteq errs' \cup dropped'
                  /\ \A j \in Ids : j \in dropped' => Faults
                BY <1>5, <4>1, Reported
            <4> QED
                BY <1>2, <3>1, <3>2, <3>4, <4>2
        <3> QED
            BY <3>3, <3>4
    <2> QED
        BY <1>3, <2>1, <2>2
<1>7. TypeOK'
    BY <1>0, <1>1, <1>2, <1>3, <1>4, <1>6 DEF TypeOK
<1>8. QueueMatchesMaster' /\ FreshIds'
    BY <1>3 DEF IInv, QueueMatchesMaster, FreshIds, Present, SideClass
<1>9. NoSilentLoss'
    BY <1>3, <1>6 DEF IInv, NoSilentLoss, Present
<1>10. ListedIsReady'
    BY <1>3, <1>4 DEF IInv, ListedIsReady, Present, Ready
<1>11. \A d \in Classes : Known(d) => ci'[d].loader # NoLoader
    BY <1>3, <1>4 DEF Known
<1>12. DeferredSides'
    <2> SUFFICES ASSUME NEW j \in Ids, Present(j)
                 PROVE  /\ mi[j].deferred \subseteq Sides(mi[j])
                        /\ mi[j].type = "method" => mi[j].xcls = mi[j].cls
                        /\ "exit" \in mi[j].deferred => mi[j].xcls # mi[j].cls
                        /\ mi[j].deferred \cap {"method", "enter"} = {} => ci'[mi[j].cls].loader # NoLoader
                        /\ "exit" \notin mi[j].deferred /\ mi[j].xcls # mi[j].cls
                              => ci'[mi[j].xcls].loader # NoLoader
        BY <1>3 DEF DeferredSides, Present, Sides, Known
    <2>1. mi[j].cls \in Classes /\ mi[j].xcls \in Classes
        BY <1>1, EntryFields
    <2> QED
        BY <1>11, <2>1 DEF IInv, DeferredSides
<1>13. QueuedIsUnknown' /\ CurIsKnown'
    <2>1. cur' # Idle
        BY <1>6 DEF Idle
    <2>2. CurIsKnown'
        BY <1>2, <1>3, <1>4, <1>6 DEF CurIsKnown, Known
    <2>3. \A q \in queue : q.cls \in Classes
        BY <1>1 DEF TypeOK, Queued
    <2>4. \A q \in queue : ~Known(q.cls)
        BY <1>1 DEF IInv, QueuedIsUnknown
    <2> QED
        BY <1>3, <1>4, <1>6, <2>1, <2>2, <2>3, <2>4 DEF QueuedIsUnknown, Known
<1>14. CleanupLogged'
    BY <1>2, <1>3, <1>4, <1>6 DEF CleanupLogged
<1> QED
    BY <1>7, <1>8, <1>9, <1>10, <1>12, <1>13, <1>14 DEF IInv

\* A failed reapply takes logged instruments out of the table, none of which
\* sits in the queue.
LEMMA CleanupStepStep ==
    ASSUME IInv, CleanupStep
    PROVE  IInv'
<1> DEFINE c    == cur.cls
           p    == Head(ci[c].probes)
           e    == mi[p.iid]
           rest == [ci EXCEPT ![c].probes = Tail(@)]
<1>1. /\ TypeOK /\ cur.phase = "cleanup" /\ ci \in ClassList
      /\ code \in [Pairs -> SUBSET Probe] /\ defined \subseteq Pairs /\ errs \subseteq Ids
      /\ mi \in [Ids -> Entry \cup {NoEntry}] /\ slots \in [Slots -> Ids \cup {0}]
    BY DEF IInv, TypeOK, CleanupStep
<1>2. c \in Classes /\ cur \in [phase : {"cleanup", "deferred"}, cls : Classes]
    BY <1>1 DEF TypeOK, Idle
<1>3. /\ p \in Elems(ci[c].probes)
      /\ Tail(ci[c].probes) \in Seq(Probe)
      /\ Elems(Tail(ci[c].probes)) \subseteq Elems(ci[c].probes)
    <2>1. ci[c].probes \in Seq(Probe) /\ ci[c].probes # <<>>
        BY <1>1, <1>2 DEF ClassList, CleanupStep
    <2> QED
        BY <2>1 DEF Elems
<1>4. p \in Probe /\ p.iid \in Ids /\ p.slot \in Slots
    BY <1>1, <1>2, <1>3, ListedOK
<1>5. p.iid \in errs \cup dropped /\ p.iid < nextId /\ (Present(p.iid) => Ready(p.iid))
    BY <1>1, <1>2, <1>3 DEF IInv, CleanupLogged, ListedIsReady
<1>6. /\ rest \in ClassList
      /\ \A d \in Classes : /\ rest[d].loader = ci[d].loader
                            /\ Elems(rest[d].probes) \subseteq Elems(ci[d].probes)
    BY <1>1, <1>2, <1>3, ZenonT(40) DEF ClassList
<1>7. UNCHANGED <<nextId, queue, errs, dropped, evq, hooked, defined, early, told>>
    BY DEF CleanupStep
<1>8. /\ ci' \in ClassList
      /\ code' \in [Pairs -> SUBSET Probe]
      /\ \A d \in Classes : /\ ci'[d].loader = ci[d].loader
                            /\ Elems(ci'[d].probes) \subseteq Elems(ci[d].probes)
    <2> DEFINE other == IF p.kind = "enter" THEN e.xcls ELSE e.cls
               osite == IF p.kind = "enter" THEN e.xsite ELSE e.site
               cl    == DropSite(rest, other, osite)
    <2>1. \/ ci' = rest /\ code' = code
          \/ /\ e # NoEntry
             /\ ci' = cl
             /\ \E o \in Apply(code, cl, other) : code' = o.code
        BY DEF CleanupStep
    <2>2. CASE ci' = rest /\ code' = code
        BY <1>1, <1>6, <2>2
    <2>3. CASE e # NoEntry /\ ci' = cl /\ \E o \in Apply(code, cl, other) : code' = o.code
        <3>1. other \in Classes
            BY <1>1, <1>4, <2>3, EntryFields DEF Present
        <3> HIDE DEF rest, other, osite
        <3>2. /\ cl \in ClassList
              /\ \A d \in Classes : /\ cl[d].loader = rest[d].loader
                                    /\ Elems(cl[d].probes) \subseteq Elems(rest[d].probes)
            BY <1>6, <3>1, DropSiteOK
        <3> HIDE DEF cl
        <3>3. PICK o \in Apply(code, cl, other) : code' = o.code
            BY <2>3
        <3>4. o.code \in [Pairs -> SUBSET Probe]
            BY <1>1, <3>1, <3>2, ApplyOK
        <3> QED
            BY <1>6, <2>3, <3>2, <3>3, <3>4
    <2> QED
        BY <2>1, <2>2, <2>3
<1>9. /\ mi' \in [Ids -> Entry \cup {NoEntry}]
      /\ slots' \in [Slots -> Ids \cup {0}]
      /\ mi' = mi \/ mi' = [mi EXCEPT ![p.iid] = NoEntry]
    <2>1. \/ mi' = mi /\ slots' = slots
          \/ mi' = [mi EXCEPT ![p.iid] = NoEntry] /\ slots' = [slots EXCEPT ![p.slot] = 0]
        BY DEF CleanupStep
    <2> HIDE DEF p
    <2> QED
        BY <1>1, <1>4, <2>1
<1>10. cur' \in [phase : {"cleanup", "deferred"}, cls : Classes] /\ cur'.cls = c
    BY <1>2 DEF CleanupStep
<1> HIDE DEF c, p, e, rest
<1>11. \A j \in Ids : mi'[j] = mi[j] \/ (j = p.iid /\ mi'[j] = NoEntry)
    BY <1>1, <1>4, <1>9
<1>12. TypeOK'
    BY <1>1, <1>7, <1>8, <1>9, <1>10 DEF TypeOK
<1>13. \A q \in queue : q.iid \in Ids /\ q.cls \in Classes /\ q.iid # p.iid
    <2>1. \A q \in queue : q.iid # p.iid
        BY <1>5, NotQueued DEF IInv
    <2> QED
        BY <1>1, <2>1 DEF TypeOK, Queued
<1>14. QueueMatchesMaster'
    <2>1. \A q \in queue : mi'[q.iid] = mi[q.iid]
        BY <1>11, <1>13
    <2>2. \A j \in Ids : mi'[j] # NoEntry => mi'[j] = mi[j]
        BY <1>11
    <2> QED
        BY <1>7, <2>1, <2>2 DEF IInv, QueueMatchesMaster, Present, SideClass
<1>15. NoSilentLoss'
    BY <1>5, <1>7, <1>11 DEF IInv, NoSilentLoss, Present
<1>16. FreshIds'
    BY <1>7, <1>11 DEF IInv, FreshIds, Present
<1>17. ListedIsReady'
    <2> SUFFICES ASSUME NEW d \in Classes, NEW r \in Elems(ci'[d].probes)
                 PROVE  r.iid < nextId /\ (Present(r.iid)' => Ready(r.iid)')
        BY <1>7 DEF ListedIsReady
    <2>1. r \in Elems(ci[d].probes) /\ r.iid \in Ids
        BY <1>1, <1>8, ListedOK
    <2>2. r.iid < nextId /\ (Present(r.iid) => Ready(r.iid))
        BY <2>1 DEF IInv, ListedIsReady
    <2> QED
        BY <1>11, <2>1, <2>2 DEF Present, Ready
<1>18. DeferredSides'
    <2> SUFFICES ASSUME NEW j \in Ids, mi'[j] = mi[j], Present(j)
                 PROVE  /\ mi[j].deferred \subseteq Sides(mi[j])
                        /\ mi[j].type = "method" => mi[j].xcls = mi[j].cls
                        /\ "exit" \in mi[j].deferred => mi[j].xcls # mi[j].cls
                        /\ mi[j].deferred \cap {"method", "enter"} = {}
                              => ci'[mi[j].cls].loader # NoLoader
                        /\ "exit" \notin mi[j].deferred /\ mi[j].xcls # mi[j].cls
                              => ci'[mi[j].xcls].loader # NoLoader
        BY <1>11 DEF DeferredSides, Present, Sides, Known
    <2>1. mi[j].cls \in Classes /\ mi[j].xcls \in Classes
        BY <1>1, EntryFields
    <2> QED
        BY <1>8, <2>1 DEF IInv, DeferredSides, Known
<1>19. QueuedIsUnknown' /\ CurIsKnown'
    <2>1. cur' # Idle /\ cur # Idle
        BY <1>1, <1>10 DEF Idle
    <2> QED
        BY <1>2, <1>7, <1>8, <1>10, <1>13, <2>1
            DEF IInv, QueuedIsUnknown, CurIsKnown, Known, c
<1>20. CleanupLogged'
    BY <1>1, <1>2, <1>7, <1>8, <1>10 DEF IInv, CleanupLogged, c
<1> QED
    BY <1>12, <1>14, <1>15, <1>16, <1>17, <1>18, <1>19, <1>20 DEF IInv

\* A request is a fresh instrument: id next_id, which nothing mentions yet.
LEMMA InstrumentStep ==
    ASSUME IInv, NEW e \in Entry, Instrument(e),
           e.deferred = Sides(e), e.type = "method" => e.xcls = e.cls
    PROVE  IInv'
<1> DEFINE id == nextId
<1>1. /\ TypeOK /\ cur = Idle /\ ci \in ClassList /\ code \in [Pairs -> SUBSET Probe]
      /\ mi \in [Ids -> Entry \cup {NoEntry}] /\ slots \in [Slots -> Ids \cup {0}]
      /\ id \in Ids /\ id \in Nat /\ id <= MaxId /\ MaxId \in Nat
      /\ queue \subseteq Queued
    BY IdBound DEF IInv, TypeOK, Instrument, Ids
<1>2. ~Present(id) /\ told[id] = "none" /\ \A q \in queue : q.iid # id
    <2>1. ~Present(id) /\ told[id] = "none"
        BY <1>1 DEF IInv, FreshIds
    <2> QED
        BY <2>1, NotQueued DEF IInv
<1>3. nextId' = id + 1 /\ nextId' \in 1..(MaxId + 1)
      /\ UNCHANGED <<cur, errs, dropped, evq, hooked, defined, early>>
    BY <1>1 DEF Instrument
<1>4. e # NoEntry /\ e.cls \in Classes /\ e.xcls \in Classes
    BY NoEntryOK DEF Entry
<1>5. \A k : k \in Waiting(e) =>
          k \in Sides(e) /\ (k = "exit" => e.xcls # e.cls)
    BY Zenon DEF Waiting, Sides
\* Whatever happens, the new id is refused, installed or queued, and no other
\* id is touched.
<1> DEFINE Outcome ==
      /\ mi' \in [Ids -> Entry \cup {NoEntry}]
      /\ told' \in [Ids -> {"none", "ok", "deferred", "error", "removed", "fail"}]
      /\ \A j \in Ids : j # id => mi'[j] = mi[j] /\ told'[j] = told[j]
      /\ slots' \in [Slots -> Ids \cup {0}]
      /\ code' \in [Pairs -> SUBSET Probe]
      /\ ci' \in ClassList
      /\ \A d \in Classes :
            /\ ci'[d].loader = ci[d].loader
            /\ \A p \in Elems(ci'[d].probes) :
                  p \in Elems(ci[d].probes) \/ (p.iid = id /\ queue' = queue)
      /\ queue' \subseteq Queued
      /\ \/ /\ queue' = queue
            /\ \/ mi'[id] = NoEntry /\ told'[id] = "error"
               \/ /\ mi'[id] = [e EXCEPT !.deferred = {}] /\ told'[id] = "ok"
                  /\ Known(e.cls) /\ Known(e.xcls)
         \/ /\ ci' = ci
            /\ ~(Known(e.cls) /\ Known(e.xcls))
            /\ told'[id] = "deferred"
            /\ mi'[id] = [e EXCEPT !.deferred = Waiting(e)]
            /\ \E s \in Slots : queue' = queue \cup
                  {[kind |-> k, cls |-> SideClass(e, k), slot |-> s, iid |-> id] : k \in Waiting(e)}
<1>6. Outcome
    <2>0. told \in [Ids -> {"none", "ok", "deferred", "error", "removed", "fail"}]
        BY <1>1 DEF TypeOK
    <2>1. CASE InstrumentRefused
        BY <1>1, <1>2, <2>0, <2>1 DEF InstrumentRefused, Present
    <2>2. ASSUME NEW s \in Slots, InstrumentNow(e, s)
          PROVE  Outcome
        <3>1. Install(id, e, s)
            BY <2>2 DEF InstrumentNow
        <3>2. /\ code' \in [Pairs -> SUBSET Probe]
              /\ ci' \in ClassList
              /\ \A d \in Classes :
                    /\ ci'[d].loader = ci[d].loader
                    /\ \A p \in Elems(ci'[d].probes) : p \in Elems(ci[d].probes) \/ p.iid = id
              /\ \/ mi' = [mi EXCEPT ![id] = [e EXCEPT !.deferred = {}]]
                 \/ mi' = [mi EXCEPT ![id] = NoEntry]
              /\ slots' \in [Slots -> Ids \cup {0}]
            BY <1>1, <3>1, InstallOK
        <3>3. [e EXCEPT !.deferred = {}] \in Entry
            BY DEF Entry
        <3>4. /\ queue' = queue /\ Known(e.cls) /\ Known(e.xcls)
              /\ told' = [told EXCEPT ![id] = IF mi'[id] # NoEntry THEN "ok" ELSE "error"]
            BY <2>2 DEF InstrumentNow
        <3>5. /\ mi' \in [Ids -> Entry \cup {NoEntry}]
              /\ mi'[id] = [e EXCEPT !.deferred = {}] \/ mi'[id] = NoEntry
              /\ \A j \in Ids : j # id => mi'[j] = mi[j]
            <4>1. CASE mi' = [mi EXCEPT ![id] = [e EXCEPT !.deferred = {}]]
                BY <1>1, <3>3, <4>1
            <4>2. CASE mi' = [mi EXCEPT ![id] = NoEntry]
                BY <1>1, <4>2
            <4> QED
                BY <3>2, <4>1, <4>2
        <3>6. /\ told' \in [Ids -> {"none", "ok", "deferred", "error", "removed", "fail"}]
              /\ \A j \in Ids : j # id => told'[j] = told[j]
              /\ mi'[id] = NoEntry => told'[id] = "error"
              /\ mi'[id] # NoEntry => told'[id] = "ok"
            BY <1>1, <2>0, <3>4
        <3>7. [e EXCEPT !.deferred = {}] # NoEntry
            BY <3>3, NoEntryOK
        <3> QED
            BY <1>1, <3>2, <3>4, <3>5, <3>6, <3>7
    <2>3. ASSUME NEW s \in Slots, InstrumentLater(e, s)
          PROVE  Outcome
        <3>1. /\ ~(Known(e.cls) /\ Known(e.xcls))
              /\ mi' = [mi EXCEPT ![id] = [e EXCEPT !.deferred = Waiting(e)]]
              /\ queue' = queue \cup
                    {[kind |-> k, cls |-> SideClass(e, k), slot |-> s, iid |-> id] : k \in Waiting(e)}
              /\ slots' = [slots EXCEPT ![s] = id]
              /\ told' = [told EXCEPT ![id] = "deferred"]
              /\ ci' = ci /\ code' = code
            BY <2>3 DEF InstrumentLater
        <3>2. Waiting(e) \subseteq Kinds
            BY <1>5 DEF Sides, Kinds
        <3>3. [e EXCEPT !.deferred = Waiting(e)] \in Entry
            BY <3>2 DEF Entry
        <3>4. \A k \in Waiting(e) :
                 [kind |-> k, cls |-> SideClass(e, k), slot |-> s, iid |-> id] \in Queued
            BY <1>1, <1>4, <3>2 DEF SideClass, Queued
        <3>5. queue' \subseteq Queued
            BY <1>1, <3>1, <3>4
        <3>6. /\ mi' \in [Ids -> Entry \cup {NoEntry}]
              /\ mi'[id] = [e EXCEPT !.deferred = Waiting(e)]
              /\ \A j \in Ids : j # id => mi'[j] = mi[j] /\ told'[j] = told[j]
              /\ told' \in [Ids -> {"none", "ok", "deferred", "error", "removed", "fail"}]
              /\ told'[id] = "deferred"
              /\ slots' \in [Slots -> Ids \cup {0}]
            BY <1>1, <2>0, <3>1, <3>3
        <3> QED
            BY <1>1, <3>1, <3>5, <3>6
    <2> QED
        BY <2>1, <2>2, <2>3 DEF Instrument
<1>7. \A j \in Ids : j < id => j # id
    BY <1>1 DEF Ids
<1>8. TypeOK'
    BY <1>1, <1>3, <1>6 DEF TypeOK
<1>9. /\ \A q \in queue : q \in Queued /\ q.iid \in Ids /\ q.iid # id
      /\ \A q \in queue' : q \in queue \/
            (queue' # queue /\ q.iid = id /\ q.kind \in Waiting(e) /\ q.cls = SideClass(e, q.kind))
      /\ queue \subseteq queue'
    <2>1. \A q \in queue : q \in Queued /\ q.iid \in Ids /\ q.iid # id
        BY <1>1, <1>2 DEF Queued
    <2> QED
        BY <1>6, <2>1
<1>10. /\ \A d \in Classes : (Known(d) <=> ci'[d].loader # NoLoader)
       /\ \A d \in Classes : ci'[d].loader = ci[d].loader
    BY <1>6 DEF Known
\* What the queue looks like when the new id is put into it.
<1> DEFINE Grown ==
        /\ queue' # queue
        /\ \A k \in Waiting(e) : \E q \in queue' : q.iid = id /\ q.kind = k
        /\ \A q, r \in queue' : q.iid = id /\ r.iid = id => q.slot = r.slot
<1>grown. ASSUME NEW s \in Slots, ~(Known(e.cls) /\ Known(e.xcls)),
              queue' = queue \cup
                 {[kind |-> k, cls |-> SideClass(e, k), slot |-> s, iid |-> id] : k \in Waiting(e)}
       PROVE  Grown
    <2>1. \E k : k \in Waiting(e)
        <3>1. CASE e.type = "method"
            BY <3>1 DEF Waiting
        <3>2. CASE e.type # "method" /\ ~Known(e.cls)
            <4>1. "enter" \in Waiting(e)
                BY <3>2 DEF Waiting, SideClass
            <4> QED
                BY <4>1
        <3>3. CASE e.type # "method" /\ Known(e.cls) /\ ~Known(e.xcls)
            <4>1. e.xcls # e.cls
                BY <3>3
            <4>2. "exit" \in Waiting(e)
                BY <3>3, <4>1 DEF Waiting, SideClass
            <4> QED
                BY <4>2
        <3> QED
            BY <1>grown, <3>1, <3>2, <3>3
    <2>2. \A k \in Waiting(e) : \E q \in queue' : q.iid = id /\ q.kind = k
        <3> SUFFICES ASSUME NEW k \in Waiting(e)
                     PROVE  \E q \in queue' : q.iid = id /\ q.kind = k
            OBVIOUS
        <3> DEFINE r == [kind |-> k, cls |-> SideClass(e, k), slot |-> s, iid |-> id]
        <3>1. r \in queue'
            BY <1>grown
        <3>2. r.iid = id /\ r.kind = k
            OBVIOUS
        <3> QED
            BY <3>1, <3>2
    <2>3. \A q \in queue' : q \in queue \/ (q.iid = id /\ q.slot = s)
        BY <1>grown
    <2>4. queue' # queue
        BY <1>9, <2>1, <2>2
    <2> QED
        BY <1>9, <2>2, <2>3, <2>4
\* What the new id names, if it names anything.
<1>11. mi'[id] # NoEntry =>
          /\ mi'[id].type = e.type /\ mi'[id].cls = e.cls /\ mi'[id].xcls = e.xcls
          /\ \/ queue' = queue /\ mi'[id].deferred = {} /\ Known(e.cls) /\ Known(e.xcls)
             \/ mi'[id].deferred = Waiting(e) /\ ~(Known(e.cls) /\ Known(e.xcls)) /\ Grown
    <2> DEFINE f == [e EXCEPT !.deferred = {}]
               g == [e EXCEPT !.deferred = Waiting(e)]
    <2>2. f.type = e.type /\ f.cls = e.cls /\ f.xcls = e.xcls /\ f.deferred = {}
        BY DEF Entry
    <2>3. g.type = e.type /\ g.cls = e.cls /\ g.xcls = e.xcls /\ g.deferred = Waiting(e)
        BY DEF Entry
    <2>4. mi'[id] = NoEntry \/ (queue' = queue /\ mi'[id] = f /\ Known(e.cls) /\ Known(e.xcls))
          \/ (mi'[id] = g /\ ~(Known(e.cls) /\ Known(e.xcls)) /\ Grown)
        <3> HIDE DEF Grown
        <3> QED
            BY <1>6, <1>grown
    <2> HIDE DEF f, g, id, Grown
    <2> QED
        BY <2>2, <2>3, <2>4
<1>12. \A q \in queue : mi'[q.iid] = mi[q.iid]
    BY <1>6, <1>9
<1>13. \A j \in Ids : mi'[j] # NoEntry => j = id \/ (j # id /\ mi'[j] = mi[j] /\ Present(j))
    BY <1>6 DEF Present
<1>14. QueueMatchesMaster'
    <2>1. CASE queue' = queue
        <3>1. mi'[id] # NoEntry => mi'[id].deferred = {}
            BY <1>11, <2>1
        <3> QED
            BY <1>12, <1>13, <2>1, <3>1 DEF IInv, QueueMatchesMaster, Present, SideClass
    <2>2. CASE queue' # queue
        <3>1. mi'[id] # NoEntry
            <4>1. [e EXCEPT !.deferred = Waiting(e)] # NoEntry
                <5>1. Waiting(e) \in SUBSET Kinds
                    BY <1>5 DEF Sides, Kinds
                <5> QED
                    BY <5>1, NoEntryOK DEF Entry
            <4> QED
                BY <1>6, <2>2, <4>1
        <3>2. /\ mi'[id].cls = e.cls /\ mi'[id].xcls = e.xcls
              /\ mi'[id].deferred = Waiting(e)
              /\ Grown
            <4> HIDE DEF Grown
            <4> QED
                BY <1>11, <2>2, <3>1
        <3>3. \A q \in queue' : /\ mi'[q.iid] # NoEntry
                                /\ q.kind \in mi'[q.iid].deferred
                                /\ q.cls = IF q.kind = "exit" THEN mi'[q.iid].xcls
                                                              ELSE mi'[q.iid].cls
            <4>1. \A q \in queue : /\ mi'[q.iid] # NoEntry
                                   /\ q.kind \in mi'[q.iid].deferred
                                   /\ q.cls = IF q.kind = "exit" THEN mi'[q.iid].xcls
                                                                 ELSE mi'[q.iid].cls
                BY <1>12 DEF IInv, QueueMatchesMaster, Present, SideClass
            <4> QED
                BY <1>9, <3>1, <3>2, <4>1 DEF SideClass
        <3>4. \A j \in Ids : mi'[j] # NoEntry =>
                 \A k \in mi'[j].deferred : \E q \in queue' : q.iid = j /\ q.kind = k
            <4>1. \A j \in Ids : j # id /\ mi'[j] # NoEntry =>
                     \A k \in mi'[j].deferred : \E q \in queue : q.iid = j /\ q.kind = k
                BY <1>13 DEF IInv, QueueMatchesMaster, Present
            <4> QED
                BY <1>9, <3>2, <4>1
        <3>5. \A q, r \in queue' : q.iid = r.iid => q.slot = r.slot
            <4>1. \A q, r \in queue : q.iid = r.iid => q.slot = r.slot
                BY DEF IInv, QueueMatchesMaster
            <4> QED
                BY <1>9, <3>2, <4>1
        <3> QED
            BY <3>3, <3>4, <3>5 DEF QueueMatchesMaster, Present, SideClass
    <2> QED
        BY <2>1, <2>2
<1>15. NoSilentLoss'
    <2>1. /\ told'[id] \in {"ok", "deferred"} => mi'[id] # NoEntry
          /\ told'[id] \in {"error", "removed", "fail"} => mi'[id] = NoEntry
        <3>1. \A D \in SUBSET Kinds : [e EXCEPT !.deferred = D] # NoEntry
            BY NoEntryOK DEF Entry
        <3>2. Waiting(e) \in SUBSET Kinds /\ {} \in SUBSET Kinds
            BY <1>5 DEF Sides, Kinds
        <3> QED
            BY <1>6, <3>1, <3>2
    <2> QED
        BY <1>3, <1>6, <2>1 DEF IInv, NoSilentLoss, Present
<1>16. FreshIds'
    <2> SUFFICES ASSUME NEW j \in Ids, j >= id + 1
                 PROVE  mi'[j] = NoEntry /\ told'[j] = "none"
        BY <1>3 DEF FreshIds, Present
    <2>1. j # id /\ j >= id
        BY <1>1 DEF Ids
    <2> QED
        BY <1>6, <2>1 DEF IInv, FreshIds, Present, id
<1>17. ListedIsReady'
    <2> SUFFICES ASSUME NEW d \in Classes, NEW p \in Elems(ci'[d].probes)
                 PROVE  p.iid < id + 1 /\ (mi'[p.iid] # NoEntry => mi'[p.iid].deferred = {})
        BY <1>3 DEF ListedIsReady, Present, Ready
    <2>1. CASE p \in Elems(ci[d].probes)
        <3>1. p.iid \in Ids
            BY <1>1, <2>1, ListedOK
        <3>2. p.iid < id /\ (Present(p.iid) => Ready(p.iid))
            BY <2>1 DEF IInv, ListedIsReady
        <3>3. p.iid # id /\ p.iid < id + 1
            BY <1>1, <3>1, <3>2 DEF Ids
        <3> QED
            BY <1>6, <3>1, <3>2, <3>3 DEF Present, Ready
    <2>2. CASE p.iid = id /\ queue' = queue
        <3>1. mi'[id] # NoEntry => mi'[id].deferred = {}
            BY <1>11, <2>2
        <3> QED
            BY <1>1, <2>2, <3>1
    <2> QED
        BY <1>6, <2>1, <2>2
<1>18. DeferredSides'
    <2> SUFFICES ASSUME NEW j \in Ids, mi'[j] # NoEntry
                 PROVE  /\ mi'[j].deferred \subseteq Sides(mi'[j])
                        /\ mi'[j].type = "method" => mi'[j].xcls = mi'[j].cls
                        /\ "exit" \in mi'[j].deferred => mi'[j].xcls # mi'[j].cls
                        /\ mi'[j].deferred \cap {"method", "enter"} = {}
                              => ci'[mi'[j].cls].loader # NoLoader
                        /\ "exit" \notin mi'[j].deferred /\ mi'[j].xcls # mi'[j].cls
                              => ci'[mi'[j].xcls].loader # NoLoader
        BY DEF DeferredSides, Present, Sides, Known
    <2>1. CASE j # id
        <3>1. mi'[j] = mi[j] /\ Present(j)
            BY <1>13, <2>1
        <3>2. mi[j].cls \in Classes /\ mi[j].xcls \in Classes
            BY <1>1, <3>1, EntryFields
        <3> QED
            BY <1>10, <3>1, <3>2 DEF IInv, DeferredSides
    <2>2. CASE j = id
        <3>1. Sides(mi'[id]) = Sides(e)
            BY <1>11, <2>2 DEF Sides
        <3>2. CASE mi'[id].deferred = {} /\ Known(e.cls) /\ Known(e.xcls)
            BY <1>4, <1>10, <1>11, <2>2, <3>2
        <3>3. CASE mi'[id].deferred = Waiting(e) /\ ~(Known(e.cls) /\ Known(e.xcls))
            <4>1. /\ Waiting(e) \subseteq Sides(e)
                  /\ "exit" \in Waiting(e) => e.xcls # e.cls
                BY <1>5
            <4>2. Waiting(e) \cap {"method", "enter"} = {} => Known(e.cls)
                BY DEF Waiting, SideClass
            <4>3. "exit" \notin Waiting(e) /\ e.xcls # e.cls => Known(e.xcls)
                BY DEF Waiting, SideClass
            <4> QED
                BY <1>4, <1>10, <1>11, <2>2, <3>1, <3>3, <4>1, <4>2, <4>3
        <3> QED
            BY <1>11, <2>2, <3>2, <3>3
    <2> QED
        BY <2>1, <2>2
<1>19. QueuedIsUnknown'
    <2> SUFFICES ASSUME NEW q \in queue'
                 PROVE  ci'[q.cls].loader = NoLoader
        BY DEF QueuedIsUnknown, Known
    <2>1. CASE q \in queue
        <3>1. q.cls \in Classes
            BY <1>9, <2>1 DEF Queued
        <3> QED
            BY <1>1, <1>10, <2>1, <3>1 DEF IInv, QueuedIsUnknown
    <2>2. CASE queue' # queue /\ q.kind \in Waiting(e) /\ q.cls = SideClass(e, q.kind)
        <3>1. ~(Known(e.cls) /\ Known(e.xcls))
            BY <1>6, <2>2
        <3>2. ~Known(SideClass(e, q.kind))
            BY <2>2, <3>1 DEF Waiting, SideClass
        <3>3. SideClass(e, q.kind) \in Classes
            BY <1>4 DEF SideClass
        <3> QED
            BY <1>10, <2>2, <3>2, <3>3
    <2> QED
        BY <1>9, <2>1, <2>2
<1>20. CurIsKnown' /\ CleanupLogged'
    BY <1>1, <1>3 DEF CurIsKnown, CleanupLogged, Idle
<1> QED
    BY <1>8, <1>14, <1>15, <1>16, <1>17, <1>18, <1>19, <1>20 DEF IInv

\* A request makes an entry with every side deferred.
LEMMA RequestStep ==
    ASSUME IInv, Request
    PROVE  IInv'
<1>1. ASSUME NEW c \in Classes, NEW m \in Methods, InstrumentMethod(c, m)
      PROVE  IInv'
    <2> DEFINE e == MethodEntry(c, m)
    <2>1. /\ e \in Entry /\ e.deferred = Sides(e) /\ (e.type = "method" => e.xcls = e.cls)
        BY DEF MethodEntry, Entry, Sides, Sites, Kinds
    <2>2. Instrument(e)
        BY <1>1 DEF InstrumentMethod
    <2> HIDE DEF e
    <2> QED
        BY <2>1, <2>2, InstrumentStep
<1>2. ASSUME NEW c \in Classes, NEW x \in Classes, NEW n \in Lines, NEW k \in Lines,
             InstrumentLine(c, n, x, k)
      PROVE  IInv'
    <2> DEFINE e == LineEntry(c, n, x, k)
    <2>1. /\ e \in Entry /\ e.deferred = Sides(e) /\ (e.type = "method" => e.xcls = e.cls)
        BY DEF LineEntry, Entry, Sides, Sites, Kinds
    <2>2. Instrument(e)
        BY <1>2 DEF InstrumentLine
    <2> HIDE DEF e
    <2> QED
        BY <2>1, <2>2, InstrumentStep
<1>3. ASSUME NEW id \in Ids, Deinstrument(id)
      PROVE  IInv'
    BY <1>3, DeinstrumentStep
<1> QED
    BY <1>1, <1>2, <1>3 DEF Request

\* Every step, the JVM's and the stuttering ones included, keeps the
\* inductive invariant.
LEMMA NextIInv == IInv /\ [Next]_vars => IInv'
<1> SUFFICES ASSUME IInv, [Next]_vars PROVE IInv'
    OBVIOUS
<1>1. CASE Request
    BY <1>1, RequestStep
<1>2. CASE HandleClassLoaded \/ ForgetClass
    BY <1>2, HandleClassLoadedStep, ForgetClassStep
<1>3. CASE CleanupStep
    BY <1>3, CleanupStepStep
<1>4. CASE \E q \in queue : DeferredStep(q)
    BY <1>4, DeferredStepStep
<1>5. CASE DeferredDone
    BY <1>5, DeferredDoneStep
<1>6. CASE JVM
    BY <1>6, JVMStep DEF JVM
<1>7. CASE UNCHANGED vars
    BY <1>7, SMTT(30)
       DEF vars, IInv, TypeOK, QueueMatchesMaster, NoSilentLoss, FreshIds, ListedIsReady,
                DeferredSides, QueuedIsUnknown, CurIsKnown, CleanupLogged,
                Present, Ready, Known, SideClass, Sides
<1> QED
    BY <1>1, <1>2, <1>3, <1>4, <1>5, <1>6, <1>7 DEF Next, ClassEvent

\* The inductive invariant holds in every state the agent can reach.
THEOREM IInvHolds == Spec => []IInv
<1> QED
    BY InitIInv, NextIInv, PTL DEF Spec

\* The server's tables, the JVM's and the clients' knowledge keep their types.
THEOREM TypeCorrect == Spec => []TypeOK
<1>1. IInv => TypeOK
    BY DEF IInv
<1> QED
    BY IInvHolds, <1>1, PTL

\* The queue of deferred instruments and the master table agree, whatever
\* fails on the way: the asserts of remove_queued_instr_by_id
\* (instrument-handler.c:545-566) hold.
THEOREM QueueMatchesMasterHolds == Spec => []QueueMatchesMaster
<1>1. IInv => QueueMatchesMaster
    BY DEF IInv
<1> QED
    BY IInvHolds, <1>1, PTL

\* An instrument the client was told of stays in the master table until it is
\* removed, or its loss is in the asynchronous error log.
THEOREM NoSilentLossHolds == Spec => []NoSilentLoss
<1>1. IInv => NoSilentLoss
    BY DEF IInv
<1> QED
    BY IInvHolds, <1>1, PTL

\* Between two messages, exactly the instruments with an unknown class are
\* deferred: none waits for a class that is there.
THEOREM DeferredIffUnknownHolds == Spec => []DeferredIffUnknown
<1>1. IInv => DeferredIffUnknown
    <2> SUFFICES ASSUME IInv, cur = Idle, NEW id \in Ids, Present(id)
                 PROVE  Ready(id) <=> Known(mi[id].cls) /\ Known(mi[id].xcls)
        BY DEF DeferredIffUnknown
    <2>1. CASE Ready(id)
        <3>1. mi[id].deferred = {}
            BY <2>1 DEF Ready
        <3>2. Known(mi[id].cls) /\ (mi[id].xcls # mi[id].cls => Known(mi[id].xcls))
            BY <3>1 DEF IInv, DeferredSides
        <3>3. CASE mi[id].xcls = mi[id].cls
            BY <2>1, <3>2, <3>3
        <3>4. CASE mi[id].xcls # mi[id].cls
            BY <2>1, <3>2, <3>4
        <3> QED
            BY <3>3, <3>4
    <2>2. CASE ~Ready(id)
        <3>1. PICK k \in mi[id].deferred : TRUE
            BY <2>2 DEF Ready
        <3>2. PICK q \in queue : q.iid = id /\ q.kind = k
            BY <3>1 DEF IInv, QueueMatchesMaster
        <3>3. ~Known(q.cls) /\ q.cls = SideClass(mi[id], q.kind)
            BY <3>2 DEF IInv, QueueMatchesMaster, QueuedIsUnknown
        <3>4. q.cls = mi[id].cls \/ q.cls = mi[id].xcls
            BY <3>3 DEF SideClass
        <3>5. ~(Known(mi[id].cls) /\ Known(mi[id].xcls))
            BY <3>3, <3>4
        <3> QED
            BY <2>2, <3>5
    <2> QED
        BY <2>1, <2>2
<1> QED
    BY IInvHolds, <1>1, PTL

-----------------------------------------------------------------------------
(* What a step does to the master table.                                   *)

\* An entry that stays keeps what it names; an id that is new is next_id.
SameNames ==
    \A id \in Ids :
        /\ Present(id) /\ mi'[id] # NoEntry =>
              /\ mi'[id].deferred \subseteq mi[id].deferred
              /\ [mi'[id] EXCEPT !.deferred = {}] = [mi[id] EXCEPT !.deferred = {}]
        /\ ~Present(id) /\ mi'[id] # NoEntry => id = nextId /\ nextId' = nextId + 1

\* A step that only takes entries out of the table renames none.
LEMMA RemovalRenamesNone ==
    ASSUME \A id \in Ids : mi'[id] # NoEntry => mi'[id] = mi[id]
    PROVE  SameNames
BY DEF SameNames, Present

\* A new instrument takes next_id, which no instrument had.
LEMMA InstrumentNames ==
    ASSUME IInv, NEW e \in Entry, Instrument(e)
    PROVE  SameNames
<1>1. /\ TypeOK /\ nextId \in Ids /\ mi \in [Ids -> Entry \cup {NoEntry}]
      /\ nextId' = nextId + 1
    BY DEF IInv, TypeOK, Instrument
<1>2. ~Present(nextId)
    BY <1>1 DEF IInv, FreshIds, TypeOK, Ids
<1>3. \A j \in Ids : j # nextId => mi'[j] = mi[j]
    <2>1. CASE InstrumentRefused
        BY <2>1 DEF InstrumentRefused
    <2>2. ASSUME NEW s \in Slots, InstrumentNow(e, s)
          PROVE  \A j \in Ids : j # nextId => mi'[j] = mi[j]
        <3>1. Install(nextId, e, s)
            BY <2>2 DEF InstrumentNow
        <3>2. \/ mi' = [mi EXCEPT ![nextId] = [e EXCEPT !.deferred = {}]]
              \/ mi' = [mi EXCEPT ![nextId] = NoEntry]
            BY <1>1, <3>1, InstallOK
        <3> QED
            BY <1>1, <3>2
    <2>3. ASSUME NEW s \in Slots, InstrumentLater(e, s)
          PROVE  \A j \in Ids : j # nextId => mi'[j] = mi[j]
        BY <1>1, <2>3 DEF InstrumentLater
    <2> QED
        BY <2>1, <2>2, <2>3 DEF Instrument
<1> QED
    BY <1>1, <1>2, <1>3 DEF SameNames, Present

\* A queued side that gets its turn is the only thing its entry loses.
LEMMA DeferredNames ==
    ASSUME IInv, NEW q \in queue, DeferredStep(q)
    PROVE  SameNames
<1> DEFINE id == q.iid
           e  == [mi[id] EXCEPT !.deferred = @ \ {q.kind}]
<1>1. /\ TypeOK /\ id \in Ids /\ q.slot \in Slots /\ mi \in [Ids -> Entry \cup {NoEntry}]
    BY DEF IInv, TypeOK, Queued
<1>2. Present(id)
    BY DEF IInv, QueueMatchesMaster
<1>3. mi[id] \in Entry
    BY <1>1, <1>2, EntryFields
<1>4. /\ e \in Entry /\ e.deferred \subseteq mi[id].deferred
      /\ [e EXCEPT !.deferred = {}] = [mi[id] EXCEPT !.deferred = {}]
    BY <1>3 DEF Entry
<1>5. \/ mi' = [mi EXCEPT ![id] = e]
      \/ Install(id, e, q.slot)
    BY DEF DeferredStep
<1> HIDE DEF id, e
<1>6. \/ mi' = [mi EXCEPT ![id] = e]
      \/ mi' = [mi EXCEPT ![id] = [e EXCEPT !.deferred = {}]]
      \/ mi' = [mi EXCEPT ![id] = NoEntry]
    BY <1>1, <1>4, <1>5, InstallOK
<1>7. /\ [e EXCEPT !.deferred = {}].deferred = {}
      /\ [[e EXCEPT !.deferred = {}] EXCEPT !.deferred = {}] = [e EXCEPT !.deferred = {}]
    BY <1>4 DEF Entry
<1>8. /\ \A j \in Ids : j # id => mi'[j] = mi[j]
      /\ mi'[id] = e \/ mi'[id] = [e EXCEPT !.deferred = {}] \/ mi'[id] = NoEntry
    BY <1>1, <1>6
<1>9. mi'[id] # NoEntry =>
          /\ mi'[id].deferred \subseteq mi[id].deferred
          /\ [mi'[id] EXCEPT !.deferred = {}] = [mi[id] EXCEPT !.deferred = {}]
    BY <1>4, <1>7, <1>8
<1> QED
    BY <1>2, <1>8, <1>9 DEF SameNames, Present

\* An id is given out once, and what it names never changes: it only loses
\* deferred sides or goes away.
THEOREM IdsNeverReusedHolds == Spec => IdsNeverReused
<1>1. IInv /\ [Next]_vars => [SameNames]_vars
    <2> SUFFICES ASSUME IInv, Next PROVE SameNames
        OBVIOUS
    <2>1. CASE Request
        <3>1. ASSUME NEW c \in Classes, NEW m \in Methods, InstrumentMethod(c, m)
              PROVE  SameNames
            <4>1. MethodEntry(c, m) \in Entry
                BY DEF MethodEntry, Entry, Sites, Kinds
            <4> QED
                BY <3>1, <4>1, InstrumentNames DEF InstrumentMethod
        <3>2. ASSUME NEW c \in Classes, NEW x \in Classes, NEW n \in Lines, NEW k \in Lines,
                     InstrumentLine(c, n, x, k)
              PROVE  SameNames
            <4>1. LineEntry(c, n, x, k) \in Entry
                BY DEF LineEntry, Entry, Sites, Kinds
            <4> QED
                BY <3>2, <4>1, InstrumentNames DEF InstrumentLine
        <3>3. ASSUME NEW id \in Ids, Deinstrument(id)
              PROVE  SameNames
            <4>1. mi \in [Ids -> Entry \cup {NoEntry}]
                BY DEF IInv, TypeOK
            <4>2. mi' = [mi EXCEPT ![id] = NoEntry]
                <5>1. CASE DeinstrumentDeferred(id)
                    BY <5>1 DEF DeinstrumentDeferred
                <5>2. CASE DeinstrumentApplied(id)
                    BY <5>2, Zenon DEF DeinstrumentApplied
                <5> QED
                    BY <3>3, <5>1, <5>2 DEF Deinstrument
            <4>3. \A j \in Ids : mi'[j] # NoEntry => mi'[j] = mi[j]
                BY <4>1, <4>2
            <4> QED
                BY <4>3, RemovalRenamesNone
        <3> QED
            BY <2>1, <3>1, <3>2, <3>3 DEF Request
    <2>2. CASE HandleClassLoaded \/ ForgetClass \/ DeferredDone \/ JVM
        <3>1. HandleClassLoaded => mi' = mi
            BY DEF HandleClassLoaded
        <3>2. DeferredDone => mi' = mi
            BY DEF DeferredDone
        <3>3. JVM => mi' = mi
            BY DEF JVM, LoadHook, Define
        <3>4. ForgetClass => mi' = mi
            BY DEF ForgetClass
        <3> QED
            BY <2>2, <3>1, <3>2, <3>3, <3>4, RemovalRenamesNone
    <2>3. CASE CleanupStep
        <3> DEFINE i == Head(ci[cur.cls].probes).iid
        <3>1. mi' = mi \/ mi' = [mi EXCEPT ![i] = NoEntry]
            BY <2>3, Zenon DEF CleanupStep
        <3>2. mi \in [Ids -> Entry \cup {NoEntry}]
            BY DEF IInv, TypeOK
        <3> HIDE DEF i
        <3> QED
            BY <3>1, <3>2, RemovalRenamesNone
    <2>4. CASE \E q \in queue : DeferredStep(q)
        BY <2>4, DeferredNames
    <2> QED
        BY <2>1, <2>2, <2>3, <2>4 DEF Next, ClassEvent
<1>2. [][SameNames]_vars <=> IdsNeverReused
    BY PTL DEF IdsNeverReused, SameNames
<1> QED
    BY IInvHolds, <1>1, <1>2, PTL DEF Spec
-----------------------------------------------------------------------------
(* The life of an instrument.                                              *)

LifeMap == [id \in Ids |-> LifeOf(id)]
WhatMap == [id \in Ids |-> WhatOf(id)]
Things  == {e \in Entry : e.deferred = {}}

Same(j) == LifeOf(j)' = LifeOf(j) /\ WhatOf(j)' = WhatOf(j)

SameLog == UNCHANGED <<errs, dropped>>

\* What may become of id i in a step that leaves all others as they are.
Lives(i) ==
    \/ Same(i) /\ SameLog
    \/ /\ LifeOf(i) = "none" /\ SameLog
       /\ \/ LifeOf(i)' = "refused" /\ WhatOf(i)' = WhatOf(i)
          \/ LifeOf(i)' \in {"active", "deferred"} /\ WhatOf(i)' \in Things
    \/ LifeOf(i) = "deferred" /\ LifeOf(i)' = "active" /\ WhatOf(i)' = WhatOf(i) /\ SameLog
    \/ /\ LifeOf(i) \in {"active", "deferred"} /\ WhatOf(i)' = NoEntry
       /\ \/ LifeOf(i)' = "lost" /\ i \in errs \cup dropped /\ SameLog
          \/ LifeOf(i)' = "lost" /\ Report({i})
          \/ LifeOf(i)' = "removed" /\ SameLog

\* Such a step is one of InstrumentLife.
LEMMA OneLives ==
    ASSUME NEW i \in Ids, Lives(i), \A j \in Ids : j # i => Same(j)
    PROVE  [Life!Next]_<<LifeMap, WhatMap, errs, dropped>>
<1>1. /\ LifeMap' = [LifeMap EXCEPT ![i] = LifeOf(i)'] /\ LifeMap[i] = LifeOf(i)
      /\ WhatMap' = [WhatMap EXCEPT ![i] = WhatOf(i)'] /\ WhatMap[i] = WhatOf(i)
    BY DEF LifeMap, WhatMap, Same
<1>2. CASE Same(i) /\ SameLog
    <2>1. LifeMap' = LifeMap /\ WhatMap' = WhatMap
        BY <1>2 DEF LifeMap, WhatMap, Same
    <2> QED
        BY <1>2, <2>1 DEF SameLog
<1>3. CASE /\ LifeOf(i) = "none" /\ SameLog
           /\ \/ LifeOf(i)' = "refused" /\ WhatOf(i)' = WhatOf(i)
              \/ LifeOf(i)' \in {"active", "deferred"} /\ WhatOf(i)' \in Things
    <2>1. WhatOf(i)' = WhatOf(i) => WhatMap' = WhatMap
        BY DEF WhatMap, Same
    <2>2. Life!Ask(i)
        BY <1>1, <1>3, <2>1, Zenon DEF SameLog, Life!Ask, LifeMap, WhatMap, Things
    <2> QED
        BY <2>2 DEF Life!Next
<1>4. CASE LifeOf(i) = "deferred" /\ LifeOf(i)' = "active" /\ WhatOf(i)' = WhatOf(i) /\ SameLog
    <2>1. WhatMap' = WhatMap
        BY <1>4 DEF WhatMap, Same
    <2>2. Life!Apply(i)
        BY <1>1, <1>4, <2>1, Zenon DEF SameLog, Life!Apply, LifeMap, WhatMap
    <2> QED
        BY <2>2 DEF Life!Next
<1>5. CASE /\ LifeOf(i) \in {"active", "deferred"} /\ WhatOf(i)' = NoEntry
           /\ LifeOf(i)' = "lost"
           /\ (i \in errs \cup dropped /\ SameLog) \/ Report({i})
    <2>1. Life!Gone(i, "lost")
        BY <1>1, <1>5, Zenon DEF Life!Gone, Life!There, LifeMap, WhatMap
    <2>2. (i \in errs \cup dropped /\ SameLog) \/ Life!Written({i})
        BY <1>5 DEF Report, Life!Written
    <2>3. Life!Lose(i)
        BY <2>1, <2>2 DEF Life!Lose, SameLog
    <2> QED
        BY <2>3 DEF Life!Next
<1>6. CASE /\ LifeOf(i) \in {"active", "deferred"} /\ WhatOf(i)' = NoEntry
           /\ LifeOf(i)' = "removed" /\ SameLog
    <2>1. Life!Remove(i)
        BY <1>1, <1>6, Zenon DEF SameLog, Life!Remove, Life!Gone, Life!There, LifeMap, WhatMap
    <2> QED
        BY <2>1 DEF Life!Next
<1> QED
    BY <1>2, <1>3, <1>4, <1>5, <1>6 DEF Lives

\* An id whose entry and answer stay keeps its life.
LEMMA KeepsItsLife ==
    ASSUME NEW j, mi'[j] = mi[j], told'[j] = told[j], j >= nextId' <=> j >= nextId
    PROVE  Same(j)
BY DEF Same, LifeOf, WhatOf, Ready, Present
\* What the names of a life mean.
LEMMA LifeNames ==
    ASSUME IInv, NEW id \in Ids
    PROVE  /\ Present(id) => /\ id < nextId /\ mi[id] \in Entry
                             /\ LifeOf(id) = IF Ready(id) THEN "active" ELSE "deferred"
                             /\ WhatOf(id) = [mi[id] EXCEPT !.deferred = {}]
                             /\ told[id] \notin {"error", "removed", "fail"}
           /\ id >= nextId => LifeOf(id) = "none" /\ WhatOf(id) = NoEntry
           /\ id \in Nat /\ nextId \in Nat
<1>1. TypeOK /\ nextId \in Nat /\ id \in Nat /\ mi \in [Ids -> Entry \cup {NoEntry}]
    BY IdBound DEF IInv, TypeOK, Ids
<1>2. id >= nextId => ~Present(id) /\ told[id] = "none"
    BY DEF IInv, FreshIds
<1>3. Present(id) => told[id] \notin {"error", "removed", "fail"}
    BY DEF IInv, NoSilentLoss
<1>4. Present(id) => mi[id] \in Entry
    BY <1>1 DEF Present
<1>5. Ready(id) => Present(id)
    BY DEF Ready
<1> QED
    BY <1>1, <1>2, <1>3, <1>4, <1>5 DEF LifeOf, WhatOf

\* A request for an instrument: its id is the next one.
LEMMA InstrumentLives ==
    ASSUME IInv, NEW e \in Entry, Instrument(e)
    PROVE  [Life!Next]_<<LifeMap, WhatMap, errs, dropped>>
<1> DEFINE x == [e EXCEPT !.deferred = {}]
<1>0. PICK n \in Ids : n = nextId
    BY DEF Instrument
<1>1. /\ TypeOK /\ n = nextId /\ n \in Ids /\ mi \in [Ids -> Entry \cup {NoEntry}] /\ n \in Nat
      /\ nextId' = n + 1 /\ SameLog /\ DOMAIN told = Ids
      /\ \A j \in Ids : j \in Nat
    BY <1>0, IdBound DEF SameLog, IInv, TypeOK, Instrument, Ids
<1>2. LifeOf(n) = "none" /\ WhatOf(n) = NoEntry /\ mi[n] = NoEntry
    BY <1>1, LifeNames DEF Present
<1>3. x \in Things /\ x \in Entry /\ x.deferred = {} /\ x # NoEntry
    BY NoEntryOK DEF Things, Entry
<1>4. (n >= nextId)' = FALSE
    BY <1>1
<1>5. CASE InstrumentRefused
    <2>1. mi' = mi /\ told' = [told EXCEPT ![n] = "error"]
        BY <1>0, <1>5, Zenon DEF InstrumentRefused
    <2>2. LifeOf(n)' = "refused" /\ WhatOf(n)' = NoEntry
        BY <1>1, <1>2, <1>4, <2>1 DEF LifeOf, WhatOf, Ready, Present
    <2>3. \A j \in Ids : j # n => Same(j)
        <3> TAKE j \in Ids
        <3> HAVE j # n
        <3>1. mi'[j] = mi[j] /\ told'[j] = told[j] /\ (j >= nextId' <=> j >= nextId)
            BY <1>1, <2>1
        <3> QED
            BY <3>1, KeepsItsLife
    <2> QED
        BY <1>1, <1>2, <2>2, <2>3, OneLives DEF Lives
<1>6. ASSUME NEW s \in Slots, InstrumentNow(e, s)
      PROVE  [Life!Next]_<<LifeMap, WhatMap, errs, dropped>>
    <2>1. mi' = [mi EXCEPT ![n] = x] \/ mi' = [mi EXCEPT ![n] = NoEntry]
        BY <1>1, <1>6, InstallOK DEF InstrumentNow
    <2>2. told' = [told EXCEPT ![n] = IF mi'[n] # NoEntry THEN "ok" ELSE "error"]
        BY <1>0, <1>6, Zenon DEF InstrumentNow
    <2>3. CASE mi' = [mi EXCEPT ![n] = x]
        <3>1. mi'[n] = x
            BY <1>1, <2>3
        <3>2. LifeOf(n)' = "active" /\ WhatOf(n)' = x
            <4>1. [x EXCEPT !.deferred = {}] = x
                BY <1>3 DEF Entry
            <4> QED
                BY <1>3, <3>1, <4>1 DEF LifeOf, WhatOf, Ready, Present
        <3> QED
            <4>1. \A j \in Ids : j # n => Same(j)
                <5> TAKE j \in Ids
                <5> HAVE j # n
                <5>1. mi'[j] = mi[j] /\ told'[j] = told[j] /\ (j >= nextId' <=> j >= nextId)
                    BY <1>1, <2>2, <2>3
                <5> QED
                    BY <5>1, KeepsItsLife
            <4> QED
                BY <1>1, <1>2, <1>3, <3>2, <4>1, OneLives DEF Lives
    <2>4. CASE mi' = [mi EXCEPT ![n] = NoEntry]
        <3>1. mi'[n] = NoEntry /\ told'[n] = "error"
            BY <1>1, <2>2, <2>4
        <3>2. LifeOf(n)' = "refused" /\ WhatOf(n)' = NoEntry
            BY <1>4, <3>1 DEF LifeOf, WhatOf, Ready, Present
        <3> QED
            <4>1. \A j \in Ids : j # n => Same(j)
                <5> TAKE j \in Ids
                <5> HAVE j # n
                <5>1. mi'[j] = mi[j] /\ told'[j] = told[j] /\ (j >= nextId' <=> j >= nextId)
                    BY <1>1, <2>2, <2>4
                <5> QED
                    BY <5>1, KeepsItsLife
            <4> QED
                BY <1>1, <1>2, <3>2, <4>1, OneLives DEF Lives
    <2> QED
        BY <2>1, <2>3, <2>4
<1>7. ASSUME NEW s \in Slots, InstrumentLater(e, s)
      PROVE  [Life!Next]_<<LifeMap, WhatMap, errs, dropped>>
    <2> DEFINE y == [e EXCEPT !.deferred = Waiting(e)]
    <2>1. mi' = [mi EXCEPT ![n] = y] /\ told' = [told EXCEPT ![n] = "deferred"]
        BY <1>0, <1>7, Zenon DEF InstrumentLater
    <2>2. y \in Entry /\ [y EXCEPT !.deferred = {}] = x
        BY DEF Entry, Waiting, Kinds
    <2> HIDE DEF y
    <2>3. mi'[n] = y /\ y # NoEntry
        BY <1>1, <2>1, <2>2, NoEntryOK
    <2>4. LifeOf(n)' \in {"active", "deferred"} /\ WhatOf(n)' = x
        BY <2>2, <2>3 DEF LifeOf, WhatOf, Ready, Present
    <2>5. \A j \in Ids : j # n => Same(j)
        <3> TAKE j \in Ids
        <3> HAVE j # n
        <3>1. mi'[j] = mi[j] /\ told'[j] = told[j] /\ (j >= nextId' <=> j >= nextId)
            BY <1>1, <2>1
        <3> QED
            BY <3>1, KeepsItsLife
    <2> QED
        BY <1>1, <1>2, <1>3, <2>4, <2>5, OneLives DEF Lives
<1> QED
    BY <1>5, <1>6, <1>7 DEF Instrument

\* A removal.
LEMMA DeinstrumentLives ==
    ASSUME IInv, NEW id \in Ids, Deinstrument(id)
    PROVE  [Life!Next]_<<LifeMap, WhatMap, errs, dropped>>
<1>1. /\ mi \in [Ids -> Entry \cup {NoEntry}] /\ DOMAIN told = Ids
      /\ nextId' = nextId /\ SameLog /\ Present(id)
    BY DEF SameLog, IInv, TypeOK, Deinstrument, Present
<1>2. /\ mi' = [mi EXCEPT ![id] = NoEntry]
      /\ \E a \in {"removed", "fail"} : told' = [told EXCEPT ![id] = a]
    <2>1. CASE DeinstrumentDeferred(id)
        BY <2>1 DEF DeinstrumentDeferred
    <2>2. CASE DeinstrumentApplied(id)
        BY <2>2, Zenon DEF DeinstrumentApplied
    <2> QED
        BY <2>1, <2>2 DEF Deinstrument
<1>3. LifeOf(id) \in {"active", "deferred"} /\ id < nextId /\ id \in Nat /\ nextId \in Nat
    BY <1>1, LifeNames
<1>4. mi'[id] = NoEntry /\ told'[id] \in {"removed", "fail"} /\ ~(id >= nextId')
    BY <1>1, <1>2, <1>3
<1>5. LifeOf(id)' = "removed" /\ WhatOf(id)' = NoEntry
    BY <1>4 DEF LifeOf, WhatOf, Ready, Present
<1>6. \A j \in Ids : j # id => Same(j)
    <2> TAKE j \in Ids
    <2> HAVE j # id
    <2>1. mi'[j] = mi[j] /\ told'[j] = told[j] /\ (j >= nextId' <=> j >= nextId)
        BY <1>1, <1>2
    <2> QED
        BY <2>1, KeepsItsLife
<1> QED
    BY <1>1, <1>3, <1>5, <1>6, OneLives DEF Lives

\* A class has been loaded: what cannot be applied to it again is logged.
LEMMA HandleClassLoadedLives ==
    ASSUME IInv, HandleClassLoaded
    PROVE  [Life!Next]_<<LifeMap, WhatMap, errs, dropped>>
<1> DEFINE c    == Head(evq)[1]
           lost == {p.iid : p \in Elems(ci[c].probes)}
<1>1. /\ TypeOK /\ evq # <<>> /\ evq \in Seq(Pairs) /\ ci \in ClassList
      /\ mi' = mi /\ told' = told /\ nextId' = nextId
    BY DEF IInv, TypeOK, HandleClassLoaded
<1>2. SameLog \/ Report(lost)
    BY Zenon DEF HandleClassLoaded, SameLog
<1>3. LifeMap' = LifeMap /\ WhatMap' = WhatMap
    BY <1>1 DEF LifeMap, WhatMap, LifeOf, WhatOf, Ready, Present
<1>4. c \in Classes
    <2>1. Head(evq) \in Pairs
        BY <1>1
    <2> QED
        BY <2>1 DEF Pairs
<1>5. lost \subseteq {i \in Ids : LifeOf(i) \notin {"none", "deferred"}}
    <2>1. SUFFICES ASSUME NEW p \in Elems(ci[c].probes)
                   PROVE  p.iid \in Ids /\ LifeOf(p.iid) \notin {"none", "deferred"}
        OBVIOUS
    <2>2. p.iid \in Ids /\ p.iid < nextId /\ (Present(p.iid) => Ready(p.iid))
        BY <1>1, <1>4, ListedOK DEF IInv, ListedIsReady
    <2>3. p.iid \in Nat /\ nextId \in Nat
        BY <2>2, LifeNames
    <2> QED
        BY <2>2, <2>3 DEF LifeOf
<1>6. {i \in Ids : LifeMap[i] \notin {"none", "deferred"}}
      = {i \in Ids : LifeOf(i) \notin {"none", "deferred"}}
    BY DEF LifeMap
<1> HIDE DEF lost
<1>7. CASE Report(lost)
    <2>1. lost \in SUBSET {i \in Ids : LifeMap[i] \notin {"none", "deferred"}}
        BY <1>5, <1>6
    <2>2. Life!Report
        BY <1>3, <1>7, <2>1, Zenon DEF Life!Report, Life!Written, Report, LifeMap, WhatMap
    <2> QED
        BY <2>2 DEF Life!Next
<1> QED
    BY <1>2, <1>3, <1>7 DEF SameLog

\* An element of a list that is being given up.
LEMMA CleanupLives ==
    ASSUME IInv, CleanupStep
    PROVE  [Life!Next]_<<LifeMap, WhatMap, errs, dropped>>
<1> DEFINE c  == cur.cls
<1>1. /\ TypeOK /\ cur.phase = "cleanup" /\ ci \in ClassList
      /\ mi \in [Ids -> Entry \cup {NoEntry}]
      /\ SameLog /\ nextId' = nextId /\ told' = told
    BY DEF SameLog, IInv, TypeOK, CleanupStep
<1>2. c \in Classes
    BY <1>1 DEF TypeOK, Idle
<1>3. Head(ci[c].probes) \in Elems(ci[c].probes)
    <2>1. ci[c].probes \in Seq(Probe) /\ ci[c].probes # <<>>
        BY <1>1, <1>2 DEF ClassList, CleanupStep
    <2> QED
        BY <2>1 DEF Elems
<1>4. PICK id \in Ids :
         id = Head(ci[c].probes).iid /\ id \in errs \cup dropped /\ (Present(id) => Ready(id))
    BY <1>1, <1>2, <1>3, ListedOK DEF IInv, CleanupLogged, ListedIsReady
<1>5. mi' = mi \/ mi' = [mi EXCEPT ![id] = NoEntry]
    BY <1>4, Zenon DEF CleanupStep
<1> HIDE DEF c
<1>6. \A j \in Ids : mi'[j] = mi[j] => Same(j)
    BY <1>1, KeepsItsLife
<1>7. CASE mi'[id] = mi[id]
    BY <1>1, <1>4, <1>5, <1>6, <1>7, OneLives DEF Lives
<1>8. CASE mi' = [mi EXCEPT ![id] = NoEntry] /\ Present(id)
    <2>1. /\ LifeOf(id) = "active" /\ told[id] \notin {"error", "removed", "fail"}
          /\ id < nextId /\ id \in Nat /\ nextId \in Nat
        BY <1>4, <1>8, LifeNames
    <2>2. mi'[id] = NoEntry
        BY <1>1, <1>4, <1>8
    <2>3. LifeOf(id)' = "lost" /\ WhatOf(id)' = NoEntry
        BY <1>1, <2>1, <2>2 DEF LifeOf, WhatOf, Ready, Present
    <2>4. \A j \in Ids : j # id => Same(j)
        BY <1>1, <1>6, <1>8
    <2> QED
        BY <1>1, <1>4, <2>1, <2>3, <2>4, OneLives DEF Lives
<1> QED
    BY <1>1, <1>4, <1>5, <1>7, <1>8 DEF Present

\* A queued side gets its turn.
LEMMA DeferredLives ==
    ASSUME IInv, NEW q \in queue, DeferredStep(q)
    PROVE  [Life!Next]_<<LifeMap, WhatMap, errs, dropped>>
<1> DEFINE id == q.iid
           e  == [mi[id] EXCEPT !.deferred = @ \ {q.kind}]
           x  == [mi[id] EXCEPT !.deferred = {}]
<1>1. /\ TypeOK /\ id \in Ids /\ q.slot \in Slots /\ mi \in [Ids -> Entry \cup {NoEntry}]
      /\ told' = told /\ nextId' = nextId
    BY DEF IInv, TypeOK, Queued, DeferredStep
<1>2. Present(id) /\ q.kind \in mi[id].deferred
    BY DEF IInv, QueueMatchesMaster
<1>3. /\ mi[id] \in Entry /\ LifeOf(id) = "deferred" /\ WhatOf(id) = x
      /\ told[id] \notin {"error", "removed", "fail"}
      /\ id < nextId /\ id \in Nat /\ nextId \in Nat
    BY <1>1, <1>2, LifeNames DEF Ready
<1>4. /\ e \in Entry /\ x \in Entry /\ x.deferred = {} /\ [x EXCEPT !.deferred = {}] = x
      /\ [e EXCEPT !.deferred = {}] = x
    BY <1>3 DEF Entry
<1>5. e # NoEntry /\ x # NoEntry
    BY <1>4, NoEntryOK
<1>6. \/ e.deferred # {} /\ mi' = [mi EXCEPT ![id] = e] /\ SameLog
      \/ /\ Install(id, e, q.slot)
         /\ IF mi'[id] = NoEntry THEN Report({id}) ELSE SameLog
    BY DEF DeferredStep, SameLog
<1> HIDE DEF id, e, x
<1>7. \/ e.deferred # {} /\ mi' = [mi EXCEPT ![id] = e] /\ SameLog
      \/ mi' = [mi EXCEPT ![id] = x] /\ SameLog
      \/ mi' = [mi EXCEPT ![id] = NoEntry] /\ Report({id})
    <2>1. CASE /\ Install(id, e, q.slot)
               /\ IF mi'[id] = NoEntry THEN Report({id}) ELSE SameLog
        <3>1. mi' = [mi EXCEPT ![id] = x] \/ mi' = [mi EXCEPT ![id] = NoEntry]
            BY <1>1, <1>4, <2>1, InstallOK
        <3> QED
            BY <1>1, <1>5, <2>1, <3>1
    <2> QED
        BY <1>6, <2>1
<1>8. \A j \in Ids : j # id => Same(j)
    <2> TAKE j \in Ids
    <2> HAVE j # id
    <2>1. mi'[j] = mi[j]
        BY <1>1, <1>7
    <2> QED
        BY <1>1, <2>1, KeepsItsLife
<1>9. CASE e.deferred # {} /\ mi' = [mi EXCEPT ![id] = e] /\ SameLog
    <2>1. mi'[id] = e
        BY <1>1, <1>9
    <2>2. LifeOf(id)' = "deferred" /\ WhatOf(id)' = x
        BY <1>4, <1>5, <1>9, <2>1 DEF LifeOf, WhatOf, Ready, Present
    <2> QED
        BY <1>1, <1>3, <1>8, <1>9, <2>2, OneLives DEF Lives, Same
<1>10. CASE mi' = [mi EXCEPT ![id] = x] /\ SameLog
    <2>1. mi'[id] = x
        BY <1>1, <1>10
    <2>2. LifeOf(id)' = "active" /\ WhatOf(id)' = x
        BY <1>4, <1>5, <2>1 DEF LifeOf, WhatOf, Ready, Present
    <2> QED
        BY <1>1, <1>3, <1>8, <1>10, <2>2, OneLives DEF Lives
<1>11. CASE mi' = [mi EXCEPT ![id] = NoEntry] /\ Report({id})
    <2>1. mi'[id] = NoEntry
        BY <1>1, <1>11
    <2>2. LifeOf(id)' = "lost" /\ WhatOf(id)' = NoEntry
        BY <1>1, <1>3, <2>1 DEF LifeOf, WhatOf, Ready, Present
    <2> QED
        BY <1>1, <1>3, <1>8, <1>11, <2>2, OneLives DEF Lives
<1> QED
    BY <1>7, <1>9, <1>10, <1>11

\* To its client an instrument lives as InstrumentLife says, with every failure there
\* is: the handlers of instrument-handler.c implement that specification.
THEOREM LivesAsToldHolds == Spec => LivesAsTold
<1>1. Init => Life!Init
    <2> SUFFICES ASSUME Init PROVE Life!Init
        OBVIOUS
    <2>1. \A i \in Ids : LifeOf(i) = "none" /\ WhatOf(i) = NoEntry
        BY IdBound DEF Init, LifeOf, WhatOf, Ready, Present, Ids
    <2> QED
        BY <2>1 DEF Init, Life!Init
<1>2. IInv /\ [Next]_vars => [Life!Next]_<<LifeMap, WhatMap, errs, dropped>>
    <2> SUFFICES ASSUME IInv, [Next]_vars PROVE [Life!Next]_<<LifeMap, WhatMap, errs, dropped>>
        OBVIOUS
    <2>1. CASE Request
        <3>1. ASSUME NEW c \in Classes, NEW m \in Methods, InstrumentMethod(c, m)
              PROVE  [Life!Next]_<<LifeMap, WhatMap, errs, dropped>>
            <4>1. MethodEntry(c, m) \in Entry
                BY DEF MethodEntry, Entry, Sites, Kinds
            <4> QED
                BY <3>1, <4>1, InstrumentLives DEF InstrumentMethod
        <3>2. ASSUME NEW c \in Classes, NEW x \in Classes, NEW n \in Lines, NEW k \in Lines,
                     InstrumentLine(c, n, x, k)
              PROVE  [Life!Next]_<<LifeMap, WhatMap, errs, dropped>>
            <4>1. LineEntry(c, n, x, k) \in Entry
                BY DEF LineEntry, Entry, Sites, Kinds
            <4> QED
                BY <3>2, <4>1, InstrumentLives DEF InstrumentLine
        <3>3. ASSUME NEW id \in Ids, Deinstrument(id)
              PROVE  [Life!Next]_<<LifeMap, WhatMap, errs, dropped>>
            BY <3>3, DeinstrumentLives
        <3> QED
            BY <2>1, <3>1, <3>2, <3>3 DEF Request
    <2>2. CASE ForgetClass \/ DeferredDone \/ JVM \/ UNCHANGED vars
        <3>1. mi' = mi /\ told' = told /\ nextId' = nextId /\ SameLog
            BY <2>2 DEF ForgetClass, DeferredDone, JVM, LoadHook, Define, vars, SameLog
        <3> QED
            BY <3>1 DEF SameLog, LifeMap, WhatMap, LifeOf, WhatOf, Ready, Present
    <2> QED
        BY <2>1, <2>2, HandleClassLoadedLives, CleanupLives, DeferredLives DEF Next, ClassEvent
<1> QED
    BY <1>1, <1>2, IInvHolds, PTL DEF Spec, LivesAsTold, Life!Spec, Life!vars, LifeMap, WhatMap

-----------------------------------------------------------------------------
(* Removing by place.  A list is searched by site, so what comes out of it  *)
(* depends on where its probes stand.                                       *)

\* A set of indices that is not empty has a least one.
LEMMA LeastIndex ==
    ASSUME NEW S \in SUBSET Nat, S # {}
    PROVE  \E i \in S : \A j \in S : i <= j
<1>1. PICK i \in S : \A j \in S : ~ (<<j, i>> \in OpToRel(<, Nat))
    BY NatLessThanWellFounded, WFMin
<1>2. \A j \in S : ~ (j < i)
    BY <1>1 DEF OpToRel
<1> QED
    BY <1>2

\* A probe list without its i-th element.
Without(s, i) == [j \in 1..(Len(s) - 1) |-> IF j < i THEN s[j] ELSE s[j + 1]]

\* A side of an instrument is listed once, and the entry side of a line stands
\* before its exit side.
Neat(s) ==
    /\ \A i, j \in DOMAIN s : s[i].iid = s[j].iid /\ s[i].kind = s[j].kind => i = j
    /\ \A i, j \in DOMAIN s :
          s[i].iid = s[j].iid /\ s[i].kind = "exit" /\ s[j].kind = "enter" => j < i

\* Taking one element out of such a list takes out that probe and no other.
LEMMA WithoutOK ==
    ASSUME NEW s \in Seq(Probe), NEW i \in DOMAIN s, Neat(s)
    PROVE  /\ Without(s, i) \in Seq(Probe)
           /\ Elems(Without(s, i)) = Elems(s) \ {s[i]}
           /\ Neat(Without(s, i))
<1> DEFINE r    == Without(s, i)
           f(j) == IF j < i THEN j ELSE j + 1
<1>1. /\ Len(s) \in Nat /\ DOMAIN s = 1..Len(s) /\ i \in 1..Len(s)
      /\ \A j \in 1..Len(s) : s[j] \in Probe
    OBVIOUS
<1>2. \A j \in 1..(Len(s) - 1) : f(j) \in 1..Len(s) /\ f(j) # i /\ r[j] = s[f(j)]
    BY <1>1 DEF Without
<1>3. \A j, k \in 1..(Len(s) - 1) : (f(j) = f(k) => j = k) /\ (f(j) < f(k) => j < k)
    BY <1>1
<1>4. \A k \in 1..Len(s) : k # i => \E j \in 1..(Len(s) - 1) : f(j) = k
    <2> SUFFICES ASSUME NEW k \in 1..Len(s), k # i
                 PROVE  \E j \in 1..(Len(s) - 1) : f(j) = k
        OBVIOUS
    <2>1. CASE k < i
        <3>1. k \in 1..(Len(s) - 1) /\ f(k) = k
            BY <1>1, <2>1
        <3> QED
            BY <3>1
    <2>2. CASE k > i
        <3>1. k - 1 \in 1..(Len(s) - 1) /\ f(k - 1) = k
            BY <1>1, <2>2
        <3> QED
            BY <3>1
    <2> QED
        BY <1>1, <2>1, <2>2
<1>5. r \in Seq(Probe) /\ DOMAIN r = 1..(Len(s) - 1)
    <2>1. r \in [1..(Len(s) - 1) -> Probe]
        BY <1>1, <1>2 DEF Without
    <2>2. Len(s) - 1 \in Nat
        BY <1>1
    <2> HIDE DEF r
    <2> QED
        BY <2>1, <2>2
<1> HIDE DEF r, f
<1>6. Elems(r) = Elems(s) \ {s[i]}
    <2>1. \A k \in DOMAIN s : s[k] = s[i] => k = i
        BY DEF Neat
    <2>2. \A p \in Elems(r) : p \in Elems(s) /\ p # s[i]
        BY <1>1, <1>2, <1>5, <2>1 DEF Elems
    <2>3. \A p \in Elems(s) : p # s[i] => p \in Elems(r)
        <3> SUFFICES ASSUME NEW k \in 1..Len(s), s[k] # s[i]
                     PROVE  s[k] \in Elems(r)
            BY <1>1 DEF Elems
        <3>1. PICK j \in 1..(Len(s) - 1) : f(j) = k
            BY <1>4
        <3> QED
            BY <1>2, <1>5, <3>1 DEF Elems
    <2> QED
        BY <2>2, <2>3
<1>7. Neat(r)
    <2>1. ASSUME NEW j \in DOMAIN r, NEW k \in DOMAIN r, r[j].iid = r[k].iid, r[j].kind = r[k].kind
          PROVE  j = k
        <3>1. f(j) = f(k)
            BY <1>1, <1>2, <1>5, <2>1, SMTT(30) DEF Neat
        <3> QED
            BY <1>3, <1>5, <3>1
    <2>2. ASSUME NEW j \in DOMAIN r, NEW k \in DOMAIN r,
                 r[j].iid = r[k].iid, r[j].kind = "exit", r[k].kind = "enter"
          PROVE  k < j
        <3>1. f(k) < f(j)
            BY <1>1, <1>2, <1>5, <2>2 DEF Neat
        <3> QED
            BY <1>3, <1>5, <3>1
    <2> QED
        BY <2>1, <2>2 DEF Neat
<1> QED
    BY <1>5, <1>6, <1>7 DEF r

\* Removing by site (ci_remove_instrumented_line, class-info.c:217-230) does
\* nothing when the site is not listed, and else takes the first element there.
LEMMA RemoveSiteTakes ==
    ASSUME NEW s \in Seq(Probe), NEW site
    PROVE  \/ /\ \A p \in Elems(s) : p.site # site
              /\ RemoveSite(s, site) = s
           \/ \E i \in DOMAIN s : /\ s[i].site = site
                                  /\ \A j \in 1..(i - 1) : s[j].site # site
                                  /\ FirstAt(s, site) = i
                                  /\ RemoveSite(s, site) = Without(s, i)
<1>1. CASE ~ \E i \in DOMAIN s : s[i].site = site
    BY <1>1 DEF RemoveSite, Elems
<1>2. CASE \E i \in DOMAIN s : s[i].site = site
    <2> DEFINE S == {i \in DOMAIN s : s[i].site = site}
    <2>1. S \in SUBSET Nat /\ S # {} /\ DOMAIN s = 1..Len(s) /\ Len(s) \in Nat
        BY <1>2
    <2>2. PICK i \in S : \A j \in S : i <= j
        <3> HIDE DEF S
        <3> QED
            BY <2>1, LeastIndex
    <2>3. s[i].site = site /\ \A j \in 1..(i - 1) : s[j].site # site
        <3> SUFFICES ASSUME NEW j \in 1..(i - 1), s[j].site = site PROVE FALSE
            BY <2>2
        <3>1. j \in S
            BY <2>1
        <3>2. i <= j
            BY <2>2, <3>1
        <3> QED
            BY <2>1, <3>2
    <2>4. FirstAt(s, site) \in DOMAIN s
          /\ s[FirstAt(s, site)].site = site
          /\ \A j \in 1..(FirstAt(s, site) - 1) : s[j].site # site
        BY <2>2, <2>3 DEF FirstAt
    <2>5. RemoveSite(s, site) = Without(s, FirstAt(s, site))
        BY <1>2 DEF RemoveSite, Without
    <2> QED
        BY <2>4, <2>5
<1> QED
    BY <1>1, <1>2

\* The site of a probe that was listed last, and is the only one there, is
\* removed by taking that probe back.
LEMMA RemoveLast ==
    ASSUME NEW s \in Seq(Probe), NEW p \in Probe, \A q \in Elems(s) : q.site # p.site
    PROVE  RemoveSite(Append(s, p), p.site) = s
<1> DEFINE t == Append(s, p)
<1>1. /\ t \in Seq(Probe) /\ Len(s) \in Nat /\ DOMAIN s = 1..Len(s)
      /\ Len(t) = Len(s) + 1 /\ DOMAIN t = 1..(Len(s) + 1)
      /\ t[Len(s) + 1] = p /\ \A j \in 1..Len(s) : t[j] = s[j]
    OBVIOUS
<1>2. \A j \in 1..Len(s) : t[j].site # p.site
    BY <1>1 DEF Elems
<1> HIDE DEF t
<1>3. p \in Elems(t)
    BY <1>1 DEF Elems
<1>4. PICK i \in DOMAIN t : t[i].site = p.site /\ RemoveSite(t, p.site) = Without(t, i)
    BY <1>1, <1>3, RemoveSiteTakes
<1>5. i = Len(s) + 1
    BY <1>1, <1>2, <1>4
<1>6. Without(t, i) = [j \in 1..Len(s) |-> s[j]]
    BY <1>1, <1>5 DEF Without
<1>7. s = [j \in 1..Len(s) |-> s[j]]
    BY <1>1
<1> QED
    BY <1>4, <1>6, <1>7 DEF t

\* The same when another probe was listed after it.
LEMMA RemoveLastButOne ==
    ASSUME NEW s \in Seq(Probe), NEW p \in Probe, NEW q \in Probe,
           \A r \in Elems(s) : r.site # p.site
    PROVE  RemoveSite(Append(Append(s, p), q), p.site) = Append(s, q)
<1> DEFINE t == Append(Append(s, p), q)
           u == Append(s, q)
<1>1. /\ t \in Seq(Probe) /\ Len(s) \in Nat /\ DOMAIN s = 1..Len(s)
      /\ Len(t) = Len(s) + 2 /\ DOMAIN t = 1..(Len(s) + 2)
      /\ t[Len(s) + 1] = p /\ t[Len(s) + 2] = q /\ \A j \in 1..Len(s) : t[j] = s[j]
    OBVIOUS
<1>2. \A j \in 1..Len(s) : t[j].site # p.site
    BY <1>1 DEF Elems
<1>3. /\ u \in Seq(Probe) /\ DOMAIN u = 1..(Len(s) + 1) /\ u[Len(s) + 1] = q
      /\ \A j \in 1..Len(s) : u[j] = s[j]
    OBVIOUS
<1> HIDE DEF t, u
<1>4. u = [j \in 1..(Len(s) + 1) |-> u[j]]
    BY <1>3
<1>5. p \in Elems(t)
    BY <1>1 DEF Elems
<1>6. PICK i \in DOMAIN t : /\ t[i].site = p.site
                            /\ \A j \in 1..(i - 1) : t[j].site # p.site
                            /\ RemoveSite(t, p.site) = Without(t, i)
    BY <1>1, <1>5, RemoveSiteTakes, ZenonT(40)
<1>7. i = Len(s) + 1
    BY <1>1, <1>2, <1>6
<1>8. Without(t, i) = [j \in 1..(Len(s) + 1) |-> u[j]]
    <2>1. \A j \in 1..(Len(s) + 1) : (IF j < Len(s) + 1 THEN t[j] ELSE t[j + 1]) = u[j]
        BY <1>1, <1>3
    <2> QED
        BY <1>1, <1>7, <2>1 DEF Without
<1>9. RemoveSite(t, p.site) = u
    BY <1>4, <1>6, <1>8
<1> QED
    BY <1>9 DEF t, u

-----------------------------------------------------------------------------
(* What the operators on class lists do to the probes a class lists.       *)

\* All lists are neat.
AllNeat(cl) == \A d \in Classes : Neat(cl[d].probes)

\* The line number or method of a side.
SiteOf(e, k) == IF k = "exit" THEN e.xsite ELSE e.site

\* A probe is determined by its instrument and its side.
LEMMA NeatKeys ==
    ASSUME NEW s, Neat(s), NEW p \in Elems(s), NEW q \in Elems(s),
           p.iid = q.iid, p.kind = q.kind
    PROVE  p = q
BY DEF Neat, Elems

\* Two class lists differ in the probes of one class at most.
DifferAt(cl, dl, c) ==
    \A d \in Classes : cl[d].loader = dl[d].loader /\ (d # c => cl[d].probes = dl[d].probes)

\* The probes listed for a class.
ListOf(cl, c) == Elems(cl[c].probes)

\* Class lists are equal when they agree on every class.
LEMMA SameLists ==
    ASSUME NEW cl \in ClassList, NEW dl \in ClassList,
           \A d \in Classes : cl[d].loader = dl[d].loader /\ cl[d].probes = dl[d].probes
    PROVE  cl = dl
<1>1. \A d \in Classes : cl[d] = dl[d]
    BY DEF ClassList
<1> QED
    BY <1>1 DEF ClassList

\* Listing one more probe for a class.
LEMMA AddProbeLists ==
    ASSUME NEW cl \in ClassList, NEW c \in Classes, NEW p \in Probe
    PROVE  /\ AddProbe(cl, c, p) \in ClassList
           /\ DifferAt(AddProbe(cl, c, p), cl, c)
           /\ AddProbe(cl, c, p)[c].probes = Append(cl[c].probes, p)
           /\ ListOf(AddProbe(cl, c, p), c) = ListOf(cl, c) \cup {p}
<1> DEFINE s == cl[c].probes
           t == Append(s, p)
           new == AddProbe(cl, c, p)
<1>1. s \in Seq(Probe)
    BY DEF ClassList
<1>2. /\ t \in Seq(Probe) /\ Len(s) \in Nat /\ DOMAIN s = 1..Len(s)
      /\ DOMAIN t = 1..(Len(s) + 1)
      /\ t[Len(s) + 1] = p /\ \A j \in 1..Len(s) : t[j] = s[j]
    BY <1>1
<1>3. /\ new \in ClassList /\ new[c].probes = t
      /\ \A d \in Classes : new[d].loader = cl[d].loader /\ (d # c => new[d].probes = cl[d].probes)
    BY <1>2 DEF AddProbe, ClassList
<1> HIDE DEF t, new
<1>4. Elems(t) = Elems(s) \cup {p}
    <2>1. \A i \in DOMAIN t : i \in 1..Len(s) \/ i = Len(s) + 1
        BY <1>2
    <2>2. \A q \in Elems(t) : q \in Elems(s) \/ q = p
        BY <1>2, <2>1 DEF Elems
    <2>3. \A q \in Elems(s) : q \in Elems(t)
        <3> SUFFICES ASSUME NEW i \in 1..Len(s) PROVE s[i] \in Elems(t)
            BY <1>2 DEF Elems
        <3>1. i \in DOMAIN t /\ t[i] = s[i]
            BY <1>2
        <3> QED
            BY <3>1 DEF Elems
    <2>4. Len(s) + 1 \in DOMAIN t
        BY <1>2
    <2>5. p \in Elems(t)
        BY <1>2, <2>4 DEF Elems
    <2> QED
        BY <2>2, <2>3, <2>5
<1> QED
    BY <1>3, <1>4 DEF new, t, DifferAt, ListOf

\* The lists stay neat when the probe's instrument had none in them, or its
\* entry side only.
LEMMA AddProbeNeat ==
    ASSUME NEW cl \in ClassList, NEW c \in Classes, NEW p \in Probe, AllNeat(cl),
           \A q \in ListOf(cl, c) : q.iid = p.iid => q.kind = "enter" /\ p.kind = "exit"
    PROVE  AllNeat(AddProbe(cl, c, p))
<1> DEFINE s == cl[c].probes
           t == Append(s, p)
           new == AddProbe(cl, c, p)
<1>1. s \in Seq(Probe) /\ Neat(s)
    BY DEF ClassList, AllNeat
<1>2. /\ t \in Seq(Probe) /\ Len(s) \in Nat /\ DOMAIN s = 1..Len(s)
      /\ DOMAIN t = 1..(Len(s) + 1)
      /\ t[Len(s) + 1] = p /\ \A j \in 1..Len(s) : t[j] = s[j]
    BY <1>1
<1>3. new[c].probes = t /\ DifferAt(new, cl, c)
    BY AddProbeLists
<1> HIDE DEF t, new
<1>5. Neat(t)
    <2>1. \A i \in 1..Len(s) : t[i].iid = p.iid => t[i].kind = "enter" /\ p.kind = "exit"
        BY <1>2 DEF Elems, ListOf
    <2>2. \A i, j \in 1..Len(s) : t[i].iid = t[j].iid =>
              /\ t[i].kind = t[j].kind => i = j
              /\ t[i].kind = "exit" /\ t[j].kind = "enter" => j < i
        BY <1>1, <1>2, ZenonT(40) DEF Neat
    <2>3. \A i \in DOMAIN t : i \in 1..Len(s) \/ (i = Len(s) + 1 /\ t[i] = p)
        BY <1>2
    <2>4. ASSUME NEW i \in DOMAIN t, NEW j \in DOMAIN t, t[i].iid = t[j].iid
          PROVE  /\ t[i].kind = t[j].kind => i = j
                 /\ t[i].kind = "exit" /\ t[j].kind = "enter" => j < i
        <3>1. CASE i \in 1..Len(s) /\ j \in 1..Len(s)
            BY <2>2, <2>4, <3>1
        <3>2. CASE i = Len(s) + 1 /\ j = Len(s) + 1
            BY <3>2
        <3>3. CASE i = Len(s) + 1 /\ j \in 1..Len(s)
            BY <1>2, <2>1, <2>4, <3>3
        <3>4. CASE i \in 1..Len(s) /\ j = Len(s) + 1
            BY <1>2, <2>1, <2>4, <3>4
        <3> QED
            BY <2>3, <3>1, <3>2, <3>3, <3>4
    <2> QED
        BY <2>4 DEF Neat
<1>6. AllNeat(new)
    BY <1>3, <1>5 DEF AllNeat, DifferAt
<1> QED
    BY <1>6 DEF new

\* Removing by site from a class.
LEMMA DropSiteLists ==
    ASSUME NEW cl \in ClassList, NEW c \in Classes, NEW site
    PROVE  /\ DropSite(cl, c, site) \in ClassList
           /\ DifferAt(DropSite(cl, c, site), cl, c)
           /\ DropSite(cl, c, site)[c].probes = RemoveSite(cl[c].probes, site)
<1> DEFINE s   == cl[c].probes
           new == DropSite(cl, c, site)
           r   == RemoveSite(s, site)
<1>1. s \in Seq(Probe)
    BY DEF ClassList
<1>2. r \in Seq(Probe)
    BY <1>1, RemoveSiteOK
<1>3. /\ new \in ClassList /\ new[c].probes = r
      /\ \A d \in Classes : new[d].loader = cl[d].loader /\ (d # c => new[d].probes = cl[d].probes)
    <2> HIDE DEF r
    <2>1. new = [cl EXCEPT ![c].probes = r]
        BY DEF DropSite, r
    <2> QED
        BY <1>2, <2>1, SMTT(30) DEF ClassList
<1> QED
    BY <1>3 DEF new, r, DifferAt

\* Neat lists stay neat, and lose at most one probe, which stood at the site.
LEMMA DropSiteTakes ==
    ASSUME NEW cl \in ClassList, NEW c \in Classes, NEW site, AllNeat(cl)
    PROVE  /\ AllNeat(DropSite(cl, c, site))
           /\ \/ /\ \A p \in ListOf(cl, c) : p.site # site
                 /\ DropSite(cl, c, site)[c].probes = cl[c].probes
              \/ \E p \in ListOf(cl, c) :
                    /\ p.site = site
                    /\ ListOf(DropSite(cl, c, site), c) = ListOf(cl, c) \ {p}
<1> DEFINE s   == cl[c].probes
           new == DropSite(cl, c, site)
           r   == RemoveSite(s, site)
<1>1. s \in Seq(Probe) /\ Neat(s)
    BY DEF ClassList, AllNeat
<1>3. new[c].probes = r /\ DifferAt(new, cl, c)
    BY DropSiteLists
<1> HIDE DEF new, s
<1>4. \/ (\A p \in Elems(s) : p.site # site) /\ r = s
      \/ \E i \in DOMAIN s : s[i].site = site /\ r = Without(s, i)
    <2>1. s \in Seq(Probe)
        BY <1>1
    <2> QED
        BY <2>1, RemoveSiteTakes
<1> HIDE DEF r
<1>5. /\ Neat(r)
      /\ \/ (\A p \in Elems(s) : p.site # site) /\ r = s
         \/ \E p \in Elems(s) : p.site = site /\ Elems(r) = Elems(s) \ {p}
    <2>1. CASE (\A p \in Elems(s) : p.site # site) /\ r = s
        BY <1>1, <2>1
    <2>2. ASSUME NEW i \in DOMAIN s, s[i].site = site, r = Without(s, i)
          PROVE  Neat(r) /\ \E p \in Elems(s) : p.site = site /\ Elems(r) = Elems(s) \ {p}
        <3>1. Neat(r) /\ Elems(r) = Elems(s) \ {s[i]}
            BY <1>1, <2>2, WithoutOK
        <3>2. s[i] \in Elems(s)
            BY DEF Elems
        <3> QED
            BY <2>2, <3>1, <3>2
    <2> QED
        BY <1>4, <2>1, <2>2
<1>6. AllNeat(new)
    BY <1>3, <1>5 DEF AllNeat, DifferAt
<1> QED
    BY <1>3, <1>5, <1>6 DEF new, s, ListOf

\* The probe of a side of an instrument.
LEMMA ProbeOfOK ==
    ASSUME NEW id \in Ids, NEW e \in Entry, NEW s \in Slots, NEW k \in Kinds
    PROVE  /\ ProbeOf(id, e, s, k) \in Probe
           /\ ProbeOf(id, e, s, k).iid = id /\ ProbeOf(id, e, s, k).kind = k
           /\ ProbeOf(id, e, s, k).slot = s /\ ProbeOf(id, e, s, k).site = SiteOf(e, k)
<1>1. e.site \in Sites /\ e.xsite \in Sites
    BY DEF Entry
<1> QED
    BY <1>1 DEF ProbeOf, Probe, SiteOf

\* Listing an instrument lists the probe of each of its sides, in the class of
\* that side, and nothing else.
LEMMA PopulateLists ==
    ASSUME NEW cl \in ClassList, NEW id \in Ids, NEW e \in Entry, NEW s \in Slots
    PROVE  /\ Populate(cl, id, e, s) \in ClassList
           /\ \A d \in Classes :
                 /\ Populate(cl, id, e, s)[d].loader = cl[d].loader
                 /\ ListOf(cl, d) \subseteq ListOf(Populate(cl, id, e, s), d)
                 /\ \A p \in ListOf(Populate(cl, id, e, s), d) :
                       \/ p \in ListOf(cl, d)
                       \/ \E k \in Sides(e) : SideClass(e, k) = d /\ p = ProbeOf(id, e, s, k)
           /\ \A k \in Sides(e) :
                 ProbeOf(id, e, s, k) \in ListOf(Populate(cl, id, e, s), SideClass(e, k))
<1> DEFINE pm  == ProbeOf(id, e, s, "method")
           pe  == ProbeOf(id, e, s, "enter")
           px  == ProbeOf(id, e, s, "exit")
           new == Populate(cl, id, e, s)
<1>1. e.cls \in Classes /\ e.xcls \in Classes
    BY DEF Entry
<1>2. pm \in Probe /\ pe \in Probe /\ px \in Probe
    BY ProbeOfOK DEF Kinds
<1>4. CASE e.type = "method"
    <2>1. new = AddProbe(cl, e.cls, pm)
        BY <1>4 DEF Populate
    <2>2. Sides(e) = {"method"} /\ SideClass(e, "method") = e.cls
        BY <1>4 DEF Sides, SideClass
    <2> HIDE DEF new, pm
    <2>3. /\ new \in ClassList
          /\ DifferAt(new, cl, e.cls)
          /\ ListOf(new, e.cls) = ListOf(cl, e.cls) \cup {pm}
        BY <1>1, <1>2, <2>1, AddProbeLists
    <2>4. \A d \in Classes : /\ new[d].loader = cl[d].loader
                             /\ ListOf(cl, d) \subseteq ListOf(new, d)
                             /\ \A p \in ListOf(new, d) :
                                   p \in ListOf(cl, d) \/ (d = e.cls /\ p = pm)
        BY <2>3 DEF DifferAt, ListOf
    <2>5. pm \in ListOf(new, e.cls)
        BY <2>3
    <2> QED
        BY <2>2, <2>3, <2>4, <2>5 DEF new, pm
<1>5. CASE e.type # "method"
    <2> DEFINE mid == AddProbe(cl, e.cls, pe)
    <2>1. new = AddProbe(mid, e.xcls, px)
        BY <1>5 DEF Populate
    <2>2. /\ Sides(e) = {"enter", "exit"} /\ SideClass(e, "enter") = e.cls
          /\ SideClass(e, "exit") = e.xcls
        BY <1>5 DEF Sides, SideClass
    <2> HIDE DEF new, pe, px
    <2>3. /\ mid \in ClassList
          /\ DifferAt(mid, cl, e.cls)
          /\ ListOf(mid, e.cls) = ListOf(cl, e.cls) \cup {pe}
        BY <1>1, <1>2, AddProbeLists, SMTT(30)
    <2> HIDE DEF mid
    <2>4. /\ new \in ClassList
          /\ DifferAt(new, mid, e.xcls)
          /\ ListOf(new, e.xcls) = ListOf(mid, e.xcls) \cup {px}
        <3>1. mid \in ClassList
            BY <2>3
        <3> QED
            BY <1>1, <1>2, <2>1, <3>1, AddProbeLists
    <2>5. \A d \in Classes : /\ new[d].loader = mid[d].loader
                             /\ ListOf(mid, d) \subseteq ListOf(new, d)
                             /\ \A p \in ListOf(new, d) :
                                   p \in ListOf(mid, d) \/ (d = e.xcls /\ p = px)
        BY <2>4 DEF DifferAt, ListOf
    <2>6. \A d \in Classes : /\ mid[d].loader = cl[d].loader
                             /\ ListOf(cl, d) \subseteq ListOf(mid, d)
                             /\ \A p \in ListOf(mid, d) :
                                   p \in ListOf(cl, d) \/ (d = e.cls /\ p = pe)
        BY <2>3 DEF DifferAt, ListOf
    <2>8. pe \in ListOf(new, e.cls) /\ px \in ListOf(new, e.xcls)
        BY <1>1, <2>3, <2>4, <2>5
    <2>9. \A d \in Classes : /\ new[d].loader = cl[d].loader
                             /\ ListOf(cl, d) \subseteq ListOf(new, d)
        BY <2>5, <2>6
    <2>10. \A d \in Classes : \A p \in ListOf(new, d) :
              \/ p \in ListOf(cl, d)
              \/ d = e.cls /\ p = pe
              \/ d = e.xcls /\ p = px
        BY <2>5, <2>6
    <2>11. \A d \in Classes : \A p \in ListOf(new, d) :
              \/ p \in ListOf(cl, d)
              \/ \E k \in Sides(e) : SideClass(e, k) = d /\ p = ProbeOf(id, e, s, k)
        BY <2>2, <2>10 DEF pe, px
    <2>12. \A k \in Sides(e) : ProbeOf(id, e, s, k) \in ListOf(new, SideClass(e, k))
        BY <2>2, <2>8 DEF pe, px
    <2> QED
        BY <2>4, <2>9, <2>11, <2>12 DEF new
<1> QED
    BY <1>4, <1>5

\* A new instrument's probes keep the lists neat.
LEMMA PopulateNeat ==
    ASSUME NEW cl \in ClassList, NEW id \in Ids, NEW e \in Entry, NEW s \in Slots, AllNeat(cl),
           \A d \in Classes : \A p \in ListOf(cl, d) : p.iid # id
    PROVE  AllNeat(Populate(cl, id, e, s))
<1> DEFINE P(k) == ProbeOf(id, e, s, k)
<1>1. e.cls \in Classes /\ e.xcls \in Classes
    BY DEF Entry
<1>2. /\ P("method") \in Probe /\ P("method").iid = id
      /\ P("enter") \in Probe /\ P("enter").iid = id /\ P("enter").kind = "enter"
      /\ P("exit") \in Probe /\ P("exit").iid = id /\ P("exit").kind = "exit"
    BY ProbeOfOK DEF Kinds
<1>3. CASE e.type = "method"
    <2>1. Populate(cl, id, e, s) = AddProbe(cl, e.cls, P("method"))
        BY <1>3 DEF Populate
    <2> HIDE DEF P
    <2>2. \A q \in ListOf(cl, e.cls) : q.iid # P("method").iid
        BY <1>1, <1>2
    <2>3. AllNeat(AddProbe(cl, e.cls, P("method")))
        BY <1>1, <1>2, <2>2, AddProbeNeat
    <2> QED
        BY <2>1, <2>3
<1>4. CASE e.type # "method"
    <2> DEFINE mid == AddProbe(cl, e.cls, P("enter"))
    <2>1. Populate(cl, id, e, s) = AddProbe(mid, e.xcls, P("exit"))
        BY <1>4 DEF Populate
    <2> HIDE DEF P
    <2>2. \A q \in ListOf(cl, e.cls) : q.iid # P("enter").iid
        BY <1>1, <1>2
    <2>3. AllNeat(mid)
        BY <1>1, <1>2, <2>2, AddProbeNeat
    <2>4. /\ mid \in ClassList
          /\ DifferAt(mid, cl, e.cls)
          /\ ListOf(mid, e.cls) = ListOf(cl, e.cls) \cup {P("enter")}
        BY <1>1, <1>2, AddProbeLists
    <2> HIDE DEF mid
    <2>5. \A q \in ListOf(mid, e.xcls) : q.iid = id => q = P("enter")
        <3>1. CASE e.xcls = e.cls
            BY <1>1, <2>4, <3>1
        <3>2. CASE e.xcls # e.cls
            BY <1>1, <2>4, <3>2 DEF DifferAt, ListOf
        <3> QED
            BY <3>1, <3>2
    <2>6. AllNeat(AddProbe(mid, e.xcls, P("exit")))
        BY <1>1, <1>2, <2>3, <2>4, <2>5, AddProbeNeat
    <2> QED
        BY <2>1, <2>6
<1> QED
    BY <1>3, <1>4

\* Taking back one probe that was just listed at a site with no other.
LEMMA DropAdded ==
    ASSUME NEW cl \in ClassList, NEW c \in Classes, NEW p \in Probe,
           \A q \in ListOf(cl, c) : q.site # p.site
    PROVE  DropSite(AddProbe(cl, c, p), c, p.site) = cl
<1> DEFINE add == AddProbe(cl, c, p)
           old == DropSite(add, c, p.site)
<1>1. /\ add \in ClassList
      /\ DifferAt(add, cl, c)
      /\ add[c].probes = Append(cl[c].probes, p)
    BY AddProbeLists
<1> HIDE DEF add
<1>2. /\ old \in ClassList
      /\ DifferAt(old, add, c)
      /\ old[c].probes = RemoveSite(add[c].probes, p.site)
    BY <1>1, DropSiteLists
<1> HIDE DEF old
<1>3. cl[c].probes \in Seq(Probe)
    BY DEF ClassList
<1>4. RemoveSite(Append(cl[c].probes, p), p.site) = cl[c].probes
    BY <1>3, RemoveLast DEF ListOf
<1>5. \A d \in Classes : old[d].loader = cl[d].loader /\ old[d].probes = cl[d].probes
    BY <1>1, <1>2, <1>4 DEF DifferAt, ListOf
<1>6. old = cl
    BY <1>2, <1>5, SameLists
<1> QED
    BY <1>6 DEF old, add

\* Undoing a failed installation (undo_ci_and_mi) restores the lists, when no
\* other probe is listed at the instrument's places.
LEMMA UndoRestores ==
    ASSUME NEW cl \in ClassList, NEW id \in Ids, NEW e \in Entry, NEW s \in Slots,
           \A p \in ListOf(cl, e.cls) : p.site # e.site,
           e.type # "method" => \A p \in ListOf(cl, e.xcls) : p.site # e.xsite
    PROVE  Depopulate(Populate(cl, id, e, s), e) = cl
<1> DEFINE P(k) == ProbeOf(id, e, s, k)
<1>1. e.cls \in Classes /\ e.xcls \in Classes
    BY DEF Entry
<1>2. /\ P("method") \in Probe /\ P("method").site = e.site
      /\ P("enter") \in Probe /\ P("enter").site = e.site
      /\ P("exit") \in Probe /\ P("exit").site = e.xsite
    BY ProbeOfOK DEF Kinds, SiteOf
<1>3. CASE e.type = "method"
    <2>1. Populate(cl, id, e, s) = AddProbe(cl, e.cls, P("method"))
        BY <1>3 DEF Populate
    <2> HIDE DEF P
    <2>2. Depopulate(Populate(cl, id, e, s), e)
            = DropSite(AddProbe(cl, e.cls, P("method")), e.cls, P("method").site)
        BY <1>2, <1>3, <2>1 DEF Depopulate
    <2>3. \A q \in ListOf(cl, e.cls) : q.site # P("method").site
        BY <1>2
    <2>4. DropSite(AddProbe(cl, e.cls, P("method")), e.cls, P("method").site) = cl
        BY <1>1, <1>2, <2>3, DropAdded
    <2> QED
        BY <2>2, <2>4
<1>4. CASE e.type # "method"
    <2> DEFINE mid == AddProbe(cl, e.cls, P("enter"))
               pop == AddProbe(mid, e.xcls, P("exit"))
               one == DropSite(pop, e.cls, e.site)
               two == DropSite(one, e.xcls, e.xsite)
               only == AddProbe(cl, e.xcls, P("exit"))
    <2>1. /\ Populate(cl, id, e, s) = pop
          /\ Depopulate(pop, e) = two
        BY <1>4 DEF Populate, Depopulate
    <2> HIDE DEF P
    <2>2. /\ mid \in ClassList
          /\ DifferAt(mid, cl, e.cls)
          /\ mid[e.cls].probes = Append(cl[e.cls].probes, P("enter"))
        BY <1>1, <1>2, AddProbeLists
    <2> HIDE DEF mid
    <2>3. /\ pop \in ClassList
          /\ DifferAt(pop, mid, e.xcls)
          /\ pop[e.xcls].probes = Append(mid[e.xcls].probes, P("exit"))
        BY <1>1, <1>2, <2>2, AddProbeLists
    <2>4. /\ only \in ClassList
          /\ DifferAt(only, cl, e.xcls)
          /\ only[e.xcls].probes = Append(cl[e.xcls].probes, P("exit"))
        BY <1>1, <1>2, AddProbeLists
    <2> HIDE DEF pop, only
    <2>5. /\ one \in ClassList
          /\ DifferAt(one, pop, e.cls)
          /\ one[e.cls].probes = RemoveSite(pop[e.cls].probes, e.site)
        BY <1>1, <2>3, DropSiteLists
    <2> HIDE DEF one
    <2>6. cl[e.cls].probes \in Seq(Probe)
        BY <1>1 DEF ClassList
    <2>7. /\ RemoveSite(Append(cl[e.cls].probes, P("enter")), e.site) = cl[e.cls].probes
          /\ RemoveSite(Append(Append(cl[e.cls].probes, P("enter")), P("exit")), e.site)
                = Append(cl[e.cls].probes, P("exit"))
        BY <1>2, <2>6, RemoveLast, RemoveLastButOne DEF ListOf
    <2>8. one[e.cls].probes = only[e.cls].probes
        <3>1. CASE e.cls = e.xcls
            <4>1. pop[e.cls].probes = Append(Append(cl[e.cls].probes, P("enter")), P("exit"))
                BY <2>2, <2>3, <3>1
            <4>2. only[e.cls].probes = Append(cl[e.cls].probes, P("exit"))
                BY <2>4, <3>1
            <4> QED
                BY <2>5, <2>7, <4>1, <4>2
        <3>2. CASE e.cls # e.xcls
            BY <1>1, <2>2, <2>3, <2>4, <2>5, <2>7, <3>2, ZenonT(40) DEF DifferAt, ListOf
        <3> QED
            BY <3>1, <3>2
    <2>9. \A d \in Classes : one[d].loader = only[d].loader /\ one[d].probes = only[d].probes
        <3> SUFFICES ASSUME NEW d \in Classes, d # e.cls
                     PROVE  one[d].probes = only[d].probes
            BY <2>2, <2>3, <2>4, <2>5, <2>8 DEF DifferAt, ListOf
        <3>1. CASE d = e.xcls
            BY <2>2, <2>3, <2>4, <2>5, <3>1 DEF DifferAt, ListOf
        <3>2. CASE d # e.xcls
            BY <2>2, <2>3, <2>4, <2>5, <3>2 DEF DifferAt, ListOf
        <3> QED
            BY <3>1, <3>2
    <2>10. one = only
        BY <2>4, <2>5, <2>9, SameLists
    <2>11. DropSite(only, e.xcls, P("exit").site) = cl
        BY <1>1, <1>2, <1>4, DropAdded DEF only
    <2>12. two = cl
        BY <1>2, <2>10, <2>11
    <2> HIDE DEF two
    <2> QED
        BY <2>1, <2>12
<1> QED
    BY <1>3, <1>4

\* The probes listed for an instrument stand at its own places, and no other
\* probe stands there.
HasItsPlaces(cl, id, e) ==
    \A d \in Classes : \A p \in ListOf(cl, d) :
        /\ p.iid = id => /\ p.kind \in Sides(e)
                         /\ SideClass(e, p.kind) = d
                         /\ p.site = SiteOf(e, p.kind)
        /\ <<d, p.site>> \in Places(e) => p.iid = id

\* Removing at one of an instrument's places takes a probe of that instrument,
\* if there is one.
LEMMA DropOneOfIts ==
    ASSUME NEW cl \in ClassList, AllNeat(cl), NEW id, NEW e, HasItsPlaces(cl, id, e),
           NEW c \in Classes, NEW site, <<c, site>> \in Places(e)
    PROVE  /\ DropSite(cl, c, site) \in ClassList
           /\ AllNeat(DropSite(cl, c, site))
           /\ HasItsPlaces(DropSite(cl, c, site), id, e)
           /\ \A d \in Classes :
                 /\ DropSite(cl, c, site)[d].loader = cl[d].loader
                 /\ ListOf(DropSite(cl, c, site), d) \subseteq ListOf(cl, d)
                 /\ \A p \in ListOf(cl, d) : p.iid # id => p \in ListOf(DropSite(cl, c, site), d)
           /\ \A p \in ListOf(DropSite(cl, c, site), c) : p.site = site =>
                 \E q \in ListOf(cl, c) : /\ q.site = site /\ q.iid = id
                                          /\ q \notin ListOf(DropSite(cl, c, site), c)
<1> DEFINE new == DropSite(cl, c, site)
<1>1. new \in ClassList /\ DifferAt(new, cl, c)
    BY DropSiteLists
<1>2. /\ AllNeat(new)
      /\ \/ (\A p \in ListOf(cl, c) : p.site # site) /\ new[c].probes = cl[c].probes
         \/ \E p \in ListOf(cl, c) : p.site = site /\ ListOf(new, c) = ListOf(cl, c) \ {p}
    BY DropSiteTakes
<1> HIDE DEF new
<1>3. \/ (\A p \in ListOf(cl, c) : p.site # site) /\ ListOf(new, c) = ListOf(cl, c)
      \/ \E p \in ListOf(cl, c) : p.site = site /\ p.iid = id /\ ListOf(new, c) = ListOf(cl, c) \ {p}
    <2>1. \A p \in ListOf(cl, c) : p.site = site => p.iid = id
        BY DEF HasItsPlaces
    <2>2. new[c].probes = cl[c].probes => ListOf(new, c) = ListOf(cl, c)
        BY DEF ListOf
    <2> QED
        BY <1>2, <2>1, <2>2
<1>4. \A d \in Classes : /\ new[d].loader = cl[d].loader
                         /\ d # c => ListOf(new, d) = ListOf(cl, d)
    BY <1>1 DEF DifferAt, ListOf
<1>5. \A d \in Classes :
         /\ ListOf(new, d) \subseteq ListOf(cl, d)
         /\ \A p \in ListOf(cl, d) : p.iid # id => p \in ListOf(new, d)
    BY <1>3, <1>4
<1>6. \A p \in ListOf(new, c) : p.site = site =>
         \E q \in ListOf(cl, c) : q.site = site /\ q.iid = id /\ q \notin ListOf(new, c)
    BY <1>3
<1>7. HasItsPlaces(new, id, e)
    BY <1>5 DEF HasItsPlaces
<1> QED
    BY <1>1, <1>2, <1>4, <1>5, <1>6, <1>7 DEF new

\* Taking an instrument out of the lists takes all its probes, and only them.
LEMMA DepopulateTakes ==
    ASSUME NEW cl \in ClassList, AllNeat(cl), NEW id \in Ids, NEW e \in Entry,
           HasItsPlaces(cl, id, e)
    PROVE  /\ Depopulate(cl, e) \in ClassList
           /\ AllNeat(Depopulate(cl, e))
           /\ \A d \in Classes :
                 /\ Depopulate(cl, e)[d].loader = cl[d].loader
                 /\ ListOf(Depopulate(cl, e), d) \subseteq ListOf(cl, d)
                 /\ \A p \in ListOf(cl, d) :
                       p \in ListOf(Depopulate(cl, e), d) <=> p.iid # id
<1> DEFINE new == Depopulate(cl, e)
           mid == DropSite(cl, e.cls, e.site)
<1>1. e.cls \in Classes /\ e.xcls \in Classes
    BY DEF Entry
<1>2. <<e.cls, e.site>> \in Places(e) /\ <<e.xcls, e.xsite>> \in Places(e)
    BY DEF Places
<1>3. /\ mid \in ClassList /\ AllNeat(mid) /\ HasItsPlaces(mid, id, e)
      /\ \A d \in Classes :
            /\ mid[d].loader = cl[d].loader
            /\ ListOf(mid, d) \subseteq ListOf(cl, d)
            /\ \A p \in ListOf(cl, d) : p.iid # id => p \in ListOf(mid, d)
      /\ \A p \in ListOf(mid, e.cls) : p.site = e.site =>
            \E q \in ListOf(cl, e.cls) :
                q.site = e.site /\ q.iid = id /\ q \notin ListOf(mid, e.cls)
    BY <1>1, <1>2, DropOneOfIts
<1>4. \A d \in Classes : \A p, q \in ListOf(cl, d) : p.iid = q.iid /\ p.kind = q.kind => p = q
    BY NeatKeys DEF AllNeat, ListOf
<1>5. CASE e.type = "method"
    <2>1. new = mid /\ Sides(e) = {"method"}
        BY <1>5 DEF Depopulate, Sides
    <2> HIDE DEF new, mid
    <2>2. \A d \in Classes : \A p \in ListOf(cl, d) : p.iid = id =>
              d = e.cls /\ p.site = e.site /\ p.kind = "method"
        BY <2>1 DEF HasItsPlaces, SideClass, SiteOf
    <2>3. ASSUME NEW d \in Classes, NEW p \in ListOf(mid, d), p.iid = id
          PROVE  FALSE
        <3>1. d = e.cls /\ p.site = e.site /\ p.kind = "method" /\ p \in ListOf(cl, d)
            BY <1>3, <2>2, <2>3
        <3>2. PICK q \in ListOf(cl, d) : q.iid = id /\ q \notin ListOf(mid, d)
            BY <1>3, <3>1
        <3>3. q.kind = "method"
            BY <2>2, <3>2
        <3> QED
            BY <1>4, <2>3, <3>1, <3>2, <3>3
    <2>4. \A d \in Classes : \A p \in ListOf(cl, d) : p \in ListOf(mid, d) <=> p.iid # id
        BY <1>3, <2>3
    <2> QED
        BY <1>3, <2>1, <2>4 DEF new
<1>6. CASE e.type # "method"
    <2>1. new = DropSite(mid, e.xcls, e.xsite) /\ Sides(e) = {"enter", "exit"}
        BY <1>6 DEF Depopulate, Sides
    <2> HIDE DEF mid, new
    <2>2. /\ new \in ClassList /\ AllNeat(new)
          /\ \A d \in Classes :
                /\ new[d].loader = mid[d].loader
                /\ ListOf(new, d) \subseteq ListOf(mid, d)
                /\ \A p \in ListOf(mid, d) : p.iid # id => p \in ListOf(new, d)
          /\ \A p \in ListOf(new, e.xcls) : p.site = e.xsite =>
                \E q \in ListOf(mid, e.xcls) :
                    q.site = e.xsite /\ q.iid = id /\ q \notin ListOf(new, e.xcls)
        <3>1. mid \in ClassList /\ AllNeat(mid) /\ HasItsPlaces(mid, id, e)
            BY <1>3
        <3> QED
            BY <1>1, <1>2, <2>1, <3>1, DropOneOfIts
    <2>3. \A d \in Classes : \A p \in ListOf(cl, d) : p.iid = id =>
              \/ p.kind = "enter" /\ d = e.cls /\ p.site = e.site
              \/ p.kind = "exit" /\ d = e.xcls /\ p.site = e.xsite
        BY <2>1, ZenonT(40) DEF HasItsPlaces, SideClass, SiteOf
    <2>4. ASSUME NEW d \in Classes, NEW p \in ListOf(new, d), p.iid = id
          PROVE  FALSE
        <3>1. p \in ListOf(mid, d) /\ p \in ListOf(cl, d)
            BY <1>3, <2>2
        <3>2. CASE p.kind = "enter" /\ d = e.cls /\ p.site = e.site
            <4>1. PICK q \in ListOf(cl, d) : q.site = e.site /\ q.iid = id /\ q \notin ListOf(mid, d)
                BY <1>3, <3>1, <3>2
            <4>2. q.kind = "exit" /\ d = e.xcls /\ e.site = e.xsite
                BY <1>4, <2>3, <2>4, <3>1, <3>2, <4>1
            <4>3. PICK r \in ListOf(mid, d) : r.iid = id /\ r \notin ListOf(new, d)
                BY <2>2, <3>2, <4>2
            <4>4. r \in ListOf(cl, d)
                BY <1>3
            <4>5. r = p \/ r = q
                BY <1>4, <2>3, <2>4, <3>1, <3>2, <4>1, <4>2, <4>3, <4>4
            <4> QED
                BY <4>1, <4>3, <4>5
        <3>3. CASE p.kind = "exit" /\ d = e.xcls /\ p.site = e.xsite
            <4>1. PICK r \in ListOf(mid, d) : r.site = e.xsite /\ r.iid = id /\ r \notin ListOf(new, d)
                BY <2>2, <3>3
            <4>2. r \in ListOf(cl, d)
                BY <1>3
            <4>3. r.kind = "enter" /\ d = e.cls /\ e.site = e.xsite
                BY <1>4, <2>3, <2>4, <3>1, <3>3, <4>1, <4>2
            <4>4. PICK q \in ListOf(cl, d) : q.iid = id /\ q \notin ListOf(mid, d)
                BY <1>3, <3>1, <3>3, <4>3
            <4>5. q = p \/ q = r
                BY <1>4, <2>3, <2>4, <3>1, <3>3, <4>1, <4>2, <4>3, <4>4
            <4> QED
                BY <3>1, <4>1, <4>4, <4>5
        <3> QED
            BY <2>3, <2>4, <3>1, <3>2, <3>3
    <2>5. \A d \in Classes : \A p \in ListOf(cl, d) : p \in ListOf(new, d) <=> p.iid # id
        BY <1>3, <2>2, <2>4
    <2> QED
        BY <1>3, <2>2, <2>5 DEF new
<1> QED
    BY <1>5, <1>6

-----------------------------------------------------------------------------
(* The slots and the lists, inductively.  While no two line instruments    *)
(* share a line, an instrument is alone at its places; that is what makes  *)
(* removal by place take the right probes.                                 *)

\* A method instrument has a method for its site, a line instrument has lines.
FitsEntry(e) ==
    IF e.type = "method"
    THEN e.site \in Methods /\ e.xsite = e.site /\ e.xcls = e.cls
    ELSE e.site \in Lines /\ e.xsite \in Lines

EntriesFit == \A id \in Ids : Present(id) => FitsEntry(mi[id])

\* No two instruments of the master table have a place in common.
EntriesApart ==
    \A i, j \in Ids : i # j /\ Present(i) /\ Present(j) => Places(mi[i]) \cap Places(mi[j]) = {}

\* A queued side remembers the slot of its instrument's profiler.
QueueSlots == \A q \in queue : slots[q.slot] = q.iid

\* What ListsMatchMaster says of a listed probe.
Listed(c, p) ==
    /\ Ready(p.iid)
    /\ slots[p.slot] = p.iid
    /\ p.kind \in Sides(mi[p.iid])
    /\ SideClass(mi[p.iid], p.kind) = c
    /\ p = ProbeOf(p.iid, mi[p.iid], p.slot, p.kind)

\* A list holds probes of applied instruments.  While it is being cleaned up
\* it may also hold the exit side of a line whose entry side, met earlier, has
\* taken the instrument out of the table.
ListsSound ==
    \A c \in Classes : \A p \in ListOf(ci, c) :
        Listed(c, p) \/ (~Settled(c) /\ p.kind = "exit" /\ ~Present(p.iid))

\* Every side of an applied instrument is listed, during a clean-up too.
ListsComplete ==
    \A id \in Ids : Ready(id) =>
        \A k \in Sides(mi[id]) :
            \E p \in ListOf(ci, SideClass(mi[id], k)) : p.iid = id /\ p.kind = k

Tables ==
    /\ EntriesFit
    /\ EntriesApart
    /\ SlotsMatchMaster
    /\ QueueSlots
    /\ ListsSound
    /\ ListsComplete
    /\ AllNeat(ci)

\* The tables start empty.
LEMMA InitTables == Init => Tables
<1> SUFFICES ASSUME Init PROVE Tables
    OBVIOUS
<1>1. \A id \in Ids : ~Present(id) /\ ~Ready(id)
    BY DEF Init, Present, Ready
<1>2. EntriesFit /\ EntriesApart /\ ListsComplete
    BY <1>1 DEF EntriesFit, EntriesApart, ListsComplete
<1>3. \A c \in Classes : ci[c].probes = <<>> /\ DOMAIN ci[c].probes = {}
    BY DEF Init
<1>4. ListsSound /\ AllNeat(ci)
    BY <1>3 DEF ListsSound, AllNeat, ListOf, Elems, Neat
<1>5. SlotsMatchMaster
    BY <1>1 DEF SlotsMatchMaster, Init, Ids
<1>6. QueueSlots
    BY DEF Init, QueueSlots
<1> QED
    BY <1>2, <1>4, <1>5, <1>6 DEF Tables

\* The side of an entry is one of its places.
LEMMA SidePlace ==
    ASSUME NEW e, NEW k
    PROVE  <<SideClass(e, k), SiteOf(e, k)>> \in Places(e)
BY DEF SideClass, SiteOf, Places

\* What is known of a listed probe of an instrument in the table.
LEMMA ListedFacts ==
    ASSUME IInv, Tables, NEW c \in Classes, NEW p \in ListOf(ci, c),
           Settled(c) \/ Present(p.iid)
    PROVE  /\ p.iid \in Ids /\ p.slot \in Slots /\ p.kind \in Kinds
           /\ Present(p.iid) /\ mi[p.iid].deferred = {}
           /\ slots[p.slot] = p.iid
           /\ p.kind \in Sides(mi[p.iid])
           /\ SideClass(mi[p.iid], p.kind) = c
           /\ p.site = SiteOf(mi[p.iid], p.kind)
           /\ <<c, p.site>> \in Places(mi[p.iid])
<1>1. p.iid \in Ids /\ p.slot \in Slots /\ p.kind \in Kinds
    BY ListedOK DEF IInv, TypeOK, ListOf
<1>2. Listed(c, p)
    BY DEF Tables, ListsSound
<1>3. /\ Present(p.iid) /\ mi[p.iid].deferred = {}
      /\ slots[p.slot] = p.iid
      /\ p.kind \in Sides(mi[p.iid])
      /\ SideClass(mi[p.iid], p.kind) = c
    BY <1>2 DEF Listed, Ready
<1>4. mi[p.iid] \in Entry
    BY <1>1, <1>3, EntryFields DEF IInv
<1>5. p.site = SiteOf(mi[p.iid], p.kind)
    BY <1>1, <1>2, <1>4, ProbeOfOK DEF Listed
<1>6. <<c, p.site>> \in Places(mi[p.iid])
    BY <1>3, <1>5, SidePlace
<1> QED
    BY <1>1, <1>3, <1>5, <1>6

\* A step that leaves the table, the queue, the slots and the lists alone.
LEMMA TablesKept ==
    ASSUME TypeOK, Tables, UNCHANGED <<mi, queue, slots>>,
           \A d \in Classes : ci'[d].probes = ci[d].probes,
           \A d \in Classes : ~Settled(d) => ~Settled(d)'
    PROVE  Tables'
<1>1. EntriesFit' /\ EntriesApart' /\ SlotsMatchMaster' /\ QueueSlots'
    BY DEF Tables, EntriesFit, EntriesApart, SlotsMatchMaster, QueueSlots, Present
<1>2. \A d \in Classes : ListOf(ci', d) = ListOf(ci, d)
    BY DEF ListOf
<1>3. \A d \in Classes : \A p : Listed(d, p)' <=> Listed(d, p)
    BY DEF Listed, Ready, Present
<1>4. ListsSound'
    BY <1>2, <1>3 DEF Tables, ListsSound, Present
<1>5. ListsComplete'
    <2> SUFFICES ASSUME NEW id \in Ids, Ready(id), NEW k \in Sides(mi[id])
                 PROVE  \E p \in ListOf(ci', SideClass(mi[id], k)) : p.iid = id /\ p.kind = k
        BY DEF ListsComplete, Ready, Present
    <2>1. PICK p \in ListOf(ci, SideClass(mi[id], k)) : p.iid = id /\ p.kind = k
        BY DEF Tables, ListsComplete
    <2>2. SideClass(mi[id], k) \in Classes
        BY EntryFields DEF Ready, SideClass
    <2> QED
        BY <1>2, <2>1, <2>2
<1>6. AllNeat(ci')
    BY DEF Tables, AllNeat
<1> QED
    BY <1>1, <1>4, <1>5, <1>6 DEF Tables

\* An instrument enters the table, or is moved on in it, with a slot of its
\* own: the table and the slots stay matched.
LEMMA TakesSlot ==
    ASSUME IInv, Tables, NEW id \in Ids, NEW e \in Entry, NEW s \in Slots,
           FitsEntry(e),
           \A j \in Ids : j # id /\ Present(j) => Places(mi[j]) \cap Places(e) = {},
           slots[s] = IF Present(id) THEN id ELSE 0,
           mi' = [mi EXCEPT ![id] = e],
           slots' = [slots EXCEPT ![s] = id],
           \A q \in queue' : q \in queue \/ (q.iid = id /\ q.slot = s)
    PROVE  EntriesFit' /\ EntriesApart' /\ SlotsMatchMaster' /\ QueueSlots'
<1>1. /\ mi \in [Ids -> Entry \cup {NoEntry}] /\ slots \in [Slots -> Ids \cup {0}]
      /\ e # NoEntry /\ 0 \notin Ids
      /\ \A q \in queue : q.slot \in Slots /\ q.iid \in Ids
    BY NoEntryOK DEF IInv, TypeOK, Queued, Ids
<1>2. mi'[id] = e /\ \A j \in Ids : j # id => mi'[j] = mi[j]
    BY <1>1
<1>3. slots'[s] = id /\ \A t \in Slots : t # s => slots'[t] = slots[t]
    BY <1>1
<1>4. /\ \A j \in Ids : Present(j) => \E t \in Slots : slots[t] = j
      /\ \A t \in Slots : slots[t] # 0 => Present(slots[t])
      /\ \A t, u \in Slots : slots[t] = slots[u] /\ slots[t] # 0 => t = u
    <2>1. \A j \in Ids : Present(j) <=> \E t \in Slots : slots[t] = j
        BY DEF Tables, SlotsMatchMaster
    <2>2. \A t \in Slots : slots[t] # 0 => slots[t] \in Ids
        BY <1>1
    <2>3. \A t, u \in Slots : slots[t] = slots[u] /\ slots[t] # 0 => t = u
        BY DEF Tables, SlotsMatchMaster
    <2> QED
        BY <2>1, <2>2, <2>3
<1>5. EntriesFit'
    BY <1>2 DEF Tables, EntriesFit, Present
<1>6. EntriesApart'
    <2> SUFFICES ASSUME NEW i \in Ids, NEW j \in Ids, i # j, mi'[i] # NoEntry, mi'[j] # NoEntry
                 PROVE  Places(mi'[i]) \cap Places(mi'[j]) = {}
        BY DEF EntriesApart, Present
    <2>1. CASE i = id
        <3>1. mi'[j] = mi[j] /\ mi'[i] = e /\ Present(j)
            BY <1>2, <2>1 DEF Present
        <3>2. Places(mi[j]) \cap Places(e) = {}
            BY <2>1, <3>1
        <3> QED
            BY <3>1, <3>2
    <2>2. CASE j = id
        <3>1. mi'[i] = mi[i] /\ mi'[j] = e /\ Present(i)
            BY <1>2, <2>2 DEF Present
        <3>2. Places(mi[i]) \cap Places(e) = {}
            BY <2>2, <3>1
        <3> QED
            BY <3>1, <3>2
    <2>3. CASE i # id /\ j # id
        <3>1. mi'[i] = mi[i] /\ mi'[j] = mi[j]
            BY <1>2, <2>3
        <3> QED
            BY <3>1 DEF Tables, EntriesApart, Present
    <2> QED
        BY <2>1, <2>2, <2>3
<1>7. SlotsMatchMaster'
    <2>1. \A j \in Ids : mi'[j] # NoEntry => \E t \in Slots : slots'[t] = j
        <3> SUFFICES ASSUME NEW j \in Ids, mi'[j] # NoEntry
                     PROVE  \E t \in Slots : slots'[t] = j
            OBVIOUS
        <3>1. CASE j = id
            BY <1>3, <3>1
        <3>2. CASE j # id
            <4>1. PICK t \in Slots : slots[t] = j
                BY <1>2, <1>4, <3>2 DEF Present
            <4>2. t # s
                BY <1>1, <3>2, <4>1
            <4> QED
                BY <1>3, <4>1, <4>2
        <3> QED
            BY <3>1, <3>2
    <2>2. \A t \in Slots : slots'[t] # 0 => mi'[slots'[t]] # NoEntry
        <3> SUFFICES ASSUME NEW t \in Slots, slots'[t] # 0
                     PROVE  mi'[slots'[t]] # NoEntry
            OBVIOUS
        <3>1. CASE t = s
            BY <1>1, <1>2, <1>3, <3>1
        <3>2. CASE t # s
            <4>1. slots'[t] = slots[t] /\ slots[t] \in Ids /\ Present(slots[t])
                BY <1>1, <1>3, <1>4, <3>2
            <4> QED
                BY <1>1, <1>2, <4>1 DEF Present
        <3> QED
            BY <3>1, <3>2
    <2>3. \A t, u \in Slots : slots'[t] = slots'[u] /\ slots'[t] # 0 => t = u
        <3>1. \A t \in Slots : slots[t] = id => t = s
            BY <1>1, <1>4
        <3> QED
            BY <1>3, <1>4, <3>1
    <2>4. \A j \in Ids : j # 0
        BY <1>1
    <2> QED
        BY <2>1, <2>2, <2>3, <2>4 DEF SlotsMatchMaster, Present
<1>8. QueueSlots'
    <2> SUFFICES ASSUME NEW q \in queue' PROVE slots'[q.slot] = q.iid
        BY DEF QueueSlots
    <2>1. CASE q \in queue
        <3>1. slots[q.slot] = q.iid /\ q.slot \in Slots /\ q.iid \in Ids
            BY <1>1, <2>1 DEF Tables, QueueSlots
        <3> QED
            BY <1>1, <1>3, <3>1
    <2>2. CASE q.iid = id /\ q.slot = s
        BY <1>3, <2>2
    <2> QED
        BY <2>1, <2>2
<1> QED
    BY <1>5, <1>6, <1>7, <1>8

\* A listed probe of another instrument stays what it was when one entry and
\* the slot of that entry change.
LEMMA StaysListed ==
    ASSUME IInv, NEW id \in Ids, NEW c \in Classes, NEW p, Listed(c, p),
           p.iid \in Ids, p.slot \in Slots, p.iid # id,
           mi'[p.iid] = mi[p.iid], slots'[p.slot] = slots[p.slot]
    PROVE  Listed(c, p)'
BY DEF Listed, Ready, Present

\* An instrument waits for (more of) its classes: it has no probe listed yet,
\* and gets none.
LEMMA WaitsOn ==
    ASSUME IInv, Tables, NEW id \in Ids, NEW e \in Entry, NEW s \in Slots,
           FitsEntry(e), e.deferred # {}, ~Ready(id),
           \A j \in Ids : j # id /\ Present(j) => Places(mi[j]) \cap Places(e) = {},
           slots[s] = IF Present(id) THEN id ELSE 0,
           \A c \in Classes : Settled(c),
           mi' = [mi EXCEPT ![id] = e],
           slots' = [slots EXCEPT ![s] = id],
           \A q \in queue' : q \in queue \/ (q.iid = id /\ q.slot = s),
           ci' = ci
    PROVE  Tables'
<1>1. EntriesFit' /\ EntriesApart' /\ SlotsMatchMaster' /\ QueueSlots'
    BY TakesSlot
<1>2. /\ mi \in [Ids -> Entry \cup {NoEntry}] /\ slots \in [Slots -> Ids \cup {0}]
      /\ 0 \notin Ids
    BY DEF IInv, TypeOK, Ids
<1>3. mi'[id] = e /\ \A j \in Ids : j # id => mi'[j] = mi[j]
    BY <1>2
<1>4. \A t \in Slots : t # s => slots'[t] = slots[t]
    BY <1>2
<1>5. ListsSound'
    <2> SUFFICES ASSUME NEW c \in Classes, NEW p \in ListOf(ci, c) PROVE Listed(c, p)'
        BY DEF ListsSound
    <2>1. /\ p.iid \in Ids /\ p.slot \in Slots
          /\ Present(p.iid) /\ mi[p.iid].deferred = {} /\ slots[p.slot] = p.iid
        BY ListedFacts
    <2>2. Listed(c, p)
        BY DEF Tables, ListsSound
    <2>3. p.iid # id
        BY <2>1 DEF Ready
    <2>4. p.slot # s
        BY <1>2, <2>1, <2>3
    <2> QED
        BY <1>3, <1>4, <2>1, <2>2, <2>3, <2>4, StaysListed
<1>6. ListsComplete'
    <2> SUFFICES ASSUME NEW j \in Ids, Present(j)', mi'[j].deferred = {}, NEW k \in Sides(mi'[j])
                 PROVE  \E p \in ListOf(ci, SideClass(mi'[j], k)) : p.iid = j /\ p.kind = k
        BY DEF ListsComplete, Ready
    <2>1. j # id
        BY <1>3
    <2>2. mi'[j] = mi[j] /\ Ready(j)
        BY <1>3, <2>1 DEF Ready, Present
    <2> QED
        BY <2>2 DEF Tables, ListsComplete
<1>7. AllNeat(ci')
    BY DEF Tables
<1> QED
    BY <1>1, <1>5, <1>6, <1>7 DEF Tables

\* An instrument is applied: its probes join the lists.
LEMMA Arrives ==
    ASSUME IInv, Tables, NEW id \in Ids, NEW e \in Entry, NEW s \in Slots,
           FitsEntry(e), e.deferred = {}, ~Ready(id),
           \A j \in Ids : j # id /\ Present(j) => Places(mi[j]) \cap Places(e) = {},
           slots[s] = IF Present(id) THEN id ELSE 0,
           \A c \in Classes : Settled(c),
           mi' = [mi EXCEPT ![id] = e],
           slots' = [slots EXCEPT ![s] = id],
           \A q \in queue' : q \in queue \/ (q.iid = id /\ q.slot = s),
           ci' = Populate(ci, id, e, s)
    PROVE  Tables'
<1>1. EntriesFit' /\ EntriesApart' /\ SlotsMatchMaster' /\ QueueSlots'
    BY TakesSlot
<1>2. /\ mi \in [Ids -> Entry \cup {NoEntry}] /\ slots \in [Slots -> Ids \cup {0}]
      /\ 0 \notin Ids /\ ci \in ClassList /\ e # NoEntry
      /\ e.cls \in Classes /\ e.xcls \in Classes
    BY NoEntryOK DEF IInv, TypeOK, Ids, Entry
<1>3. mi'[id] = e /\ \A j \in Ids : j # id => mi'[j] = mi[j]
    BY <1>2
<1>4. slots'[s] = id /\ \A t \in Slots : t # s => slots'[t] = slots[t]
    BY <1>2
<1>5. \A c \in Classes : \A p \in ListOf(ci, c) :
          /\ p.iid \in Ids /\ p.slot \in Slots /\ p.iid # id /\ p.slot # s /\ Listed(c, p)
    <2> SUFFICES ASSUME NEW c \in Classes, NEW p \in ListOf(ci, c)
                 PROVE  /\ p.iid \in Ids /\ p.slot \in Slots /\ p.iid # id /\ p.slot # s
                        /\ Listed(c, p)
        OBVIOUS
    <2>1. /\ p.iid \in Ids /\ p.slot \in Slots
          /\ Present(p.iid) /\ mi[p.iid].deferred = {} /\ slots[p.slot] = p.iid
        BY ListedFacts
    <2>2. Listed(c, p)
        BY DEF Tables, ListsSound
    <2>3. p.iid # id
        BY <2>1 DEF Ready
    <2>4. p.slot # s
        BY <1>2, <2>1, <2>3
    <2> QED
        BY <2>1, <2>2, <2>3, <2>4
<1>6. /\ \A d \in Classes :
            /\ ListOf(ci, d) \subseteq ListOf(ci', d)
            /\ \A p \in ListOf(ci', d) :
                  \/ p \in ListOf(ci, d)
                  \/ \E k \in Sides(e) : SideClass(e, k) = d /\ p = ProbeOf(id, e, s, k)
      /\ \A k \in Sides(e) : ProbeOf(id, e, s, k) \in ListOf(ci', SideClass(e, k))
    BY <1>2, PopulateLists
<1>7. \A k \in Sides(e) :
         /\ k \in Kinds
         /\ ProbeOf(id, e, s, k).iid = id /\ ProbeOf(id, e, s, k).kind = k
         /\ ProbeOf(id, e, s, k).slot = s
    BY ProbeOfOK DEF Sides, Kinds
<1>8. ListsSound'
    <2> SUFFICES ASSUME NEW c \in Classes, NEW p \in ListOf(ci', c) PROVE Listed(c, p)'
        BY DEF ListsSound
    <2>1. CASE p \in ListOf(ci, c)
        <3>1. /\ p.iid \in Ids /\ p.slot \in Slots /\ p.iid # id /\ p.slot # s /\ Listed(c, p)
            BY <1>5, <2>1
        <3>2. mi'[p.iid] = mi[p.iid] /\ slots'[p.slot] = slots[p.slot]
            BY <1>3, <1>4, <3>1
        <3> QED
            BY <3>1, <3>2, StaysListed
    <2>2. ASSUME NEW k \in Sides(e), SideClass(e, k) = c, p = ProbeOf(id, e, s, k)
          PROVE  Listed(c, p)'
        <3>1. p.iid = id /\ p.kind = k /\ p.slot = s
            BY <1>7, <2>2
        <3>2. mi'[id] = e /\ e # NoEntry /\ slots'[s] = id
            BY <1>2, <1>3, <1>4
        <3> QED
            BY <2>2, <3>1, <3>2 DEF Listed, Ready, Present
    <2> QED
        BY <1>6, <2>1, <2>2
<1>9. ListsComplete'
    <2> SUFFICES ASSUME NEW j \in Ids, Present(j)', mi'[j].deferred = {}, NEW k \in Sides(mi'[j])
                 PROVE  \E p \in ListOf(ci', SideClass(mi'[j], k)) : p.iid = j /\ p.kind = k
        BY DEF ListsComplete, Ready
    <2>1. CASE j = id
        <3>1. k \in Sides(e) /\ SideClass(mi'[j], k) = SideClass(e, k)
            BY <1>3, <2>1
        <3>2. ProbeOf(id, e, s, k) \in ListOf(ci', SideClass(mi'[j], k))
            BY <1>6, <3>1
        <3> QED
            BY <1>7, <2>1, <3>1, <3>2
    <2>2. CASE j # id
        <3>1. mi'[j] = mi[j] /\ Ready(j)
            BY <1>3, <2>2 DEF Ready, Present
        <3>2. PICK p \in ListOf(ci, SideClass(mi[j], k)) : p.iid = j /\ p.kind = k
            BY <3>1 DEF Tables, ListsComplete
        <3>3. SideClass(mi[j], k) \in Classes
            BY <3>1, EntryFields DEF Ready, SideClass, IInv
        <3> QED
            BY <1>6, <3>1, <3>2, <3>3
    <2> QED
        BY <2>1, <2>2
<1>10. AllNeat(ci')
    <2>1. \A d \in Classes : \A p \in ListOf(ci, d) : p.iid # id
        BY <1>5
    <2> QED
        BY <1>2, <2>1, PopulateNeat DEF Tables
<1> QED
    BY <1>1, <1>8, <1>9, <1>10 DEF Tables

\* An instrument leaves the table: its slot is freed, its queue elements and
\* its probes are gone, except for exit sides in a list that is being cleaned up.
LEMMA Leaves ==
    ASSUME IInv, Tables, NEW id \in Ids,
           mi' = [mi EXCEPT ![id] = NoEntry],
           slots' \in [Slots -> Ids \cup {0}],
           \A s \in Slots : slots'[s] = IF slots[s] = id THEN 0 ELSE slots[s],
           \A q \in queue' : q \in queue /\ q.iid # id,
           AllNeat(ci'),
           \A d \in Classes :
              /\ ListOf(ci', d) \subseteq ListOf(ci, d)
              /\ \A p \in ListOf(ci, d) : p.iid # id /\ Present(p.iid) => p \in ListOf(ci', d)
              /\ \A p \in ListOf(ci', d) : p.iid = id => p.kind = "exit" /\ ~Settled(d)'
              /\ ~Settled(d) => ~Settled(d)' \/ ListOf(ci', d) = {}
    PROVE  Tables'
<1>1. /\ mi \in [Ids -> Entry \cup {NoEntry}] /\ slots \in [Slots -> Ids \cup {0}]
      /\ 0 \notin Ids /\ ci \in ClassList
      /\ \A q \in queue : q.slot \in Slots /\ q.iid \in Ids
    BY DEF IInv, TypeOK, Ids, Queued
<1>2. mi'[id] = NoEntry /\ \A j \in Ids : j # id => mi'[j] = mi[j]
    BY <1>1
<1>3. EntriesFit' /\ EntriesApart'
    BY <1>2 DEF Tables, EntriesFit, EntriesApart, Present
<1>4. SlotsMatchMaster'
    <2>1. \A j \in Ids : mi'[j] # NoEntry <=> \E s \in Slots : slots'[s] = j
        <3> SUFFICES ASSUME NEW j \in Ids
                     PROVE  mi'[j] # NoEntry <=> \E s \in Slots : slots'[s] = j
            OBVIOUS
        <3>1. Present(j) <=> \E s \in Slots : slots[s] = j
            BY DEF Tables, SlotsMatchMaster
        <3>2. \A s \in Slots : slots'[s] = j <=> (slots[s] = j /\ j # id)
            BY <1>1
        <3> QED
            BY <1>2, <3>1, <3>2 DEF Present
    <2>2. \A s, t \in Slots : slots'[s] = slots'[t] /\ slots'[s] # 0 => s = t
        <3>1. \A s, t \in Slots : slots[s] = slots[t] /\ slots[s] # 0 => s = t
            BY DEF Tables, SlotsMatchMaster
        <3>2. \A s \in Slots : slots'[s] # 0 => slots'[s] = slots[s]
            OBVIOUS
        <3> QED
            BY <3>1, <3>2
    <2> QED
        BY <2>1, <2>2 DEF SlotsMatchMaster, Present
<1>5. QueueSlots'
    BY <1>1 DEF Tables, QueueSlots
<1>6. ListsSound'
    <2> SUFFICES ASSUME NEW c \in Classes, NEW p \in ListOf(ci', c)
                 PROVE  Listed(c, p)' \/ (~Settled(c)' /\ p.kind = "exit" /\ ~Present(p.iid)')
        BY DEF ListsSound
    <2>1. p \in ListOf(ci, c)
        OBVIOUS
    <2>2. p.iid \in Ids /\ p.slot \in Slots
        BY <1>1, <2>1, ListedOK DEF ListOf
    <2>3. CASE p.iid = id
        BY <1>2, <2>3 DEF Present
    <2>4. CASE p.iid # id /\ Present(p.iid)
        <3>1. Listed(c, p) /\ slots[p.slot] = p.iid
            BY <2>1, <2>4 DEF Tables, ListsSound, Listed
        <3>2. mi'[p.iid] = mi[p.iid] /\ slots'[p.slot] = slots[p.slot]
            BY <1>2, <2>2, <2>4, <3>1
        <3> QED
            BY <2>2, <2>4, <3>1, <3>2, StaysListed
    <2>5. CASE p.iid # id /\ ~Present(p.iid)
        <3>1. ~Settled(c) /\ p.kind = "exit"
            BY <2>1, <2>5 DEF Tables, ListsSound, Listed, Ready
        <3>2. ~Settled(c)'
            BY <3>1
        <3>3. mi'[p.iid] = mi[p.iid]
            BY <1>2, <2>2, <2>5
        <3> QED
            BY <2>5, <3>1, <3>2, <3>3 DEF Present
    <2> QED
        BY <2>3, <2>4, <2>5
<1>7. ListsComplete'
    <2> SUFFICES ASSUME NEW j \in Ids, Present(j)', mi'[j].deferred = {}, NEW k \in Sides(mi'[j])
                 PROVE  \E p \in ListOf(ci', SideClass(mi'[j], k)) : p.iid = j /\ p.kind = k
        BY DEF ListsComplete, Ready
    <2>1. j # id /\ mi'[j] = mi[j] /\ Ready(j)
        BY <1>2 DEF Ready, Present
    <2>2. PICK p \in ListOf(ci, SideClass(mi[j], k)) : p.iid = j /\ p.kind = k
        BY <2>1 DEF Tables, ListsComplete
    <2>3. SideClass(mi[j], k) \in Classes
        BY <2>1, EntryFields DEF Ready, SideClass, IInv
    <2>4. p \in ListOf(ci', SideClass(mi[j], k))
        BY <2>1, <2>2, <2>3 DEF Ready
    <2> QED
        BY <2>1, <2>2, <2>4
<1> QED
    BY <1>3, <1>4, <1>5, <1>6, <1>7 DEF Tables

-----------------------------------------------------------------------------
(* Every step keeps the tables.                                            *)

\* Installing an instrument (instrument_now, ih_instrument_line), whether it
\* succeeds or is undone.
LEMMA InstallTables ==
    ASSUME IInv, Tables, NEW id \in Ids, NEW e \in Entry, NEW s \in Slots,
           FitsEntry(e), ~Ready(id),
           \A j \in Ids : j # id /\ Present(j) => Places(mi[j]) \cap Places(e) = {},
           slots[s] = IF Present(id) THEN id ELSE 0,
           \A c \in Classes : Settled(c),
           UNCHANGED cur,
           \A q \in queue' : q \in queue /\ q.iid # id,
           Install(id, e, s)
    PROVE  Tables'
<1>1. /\ mi \in [Ids -> Entry \cup {NoEntry}] /\ slots \in [Slots -> Ids \cup {0}]
      /\ 0 \notin Ids /\ ci \in ClassList
    BY DEF IInv, TypeOK, Ids
<1> DEFINE f == [e EXCEPT !.deferred = {}]
<1>2. /\ f \in Entry /\ f.deferred = {} /\ f.type = e.type
      /\ f.cls = e.cls /\ f.site = e.site /\ f.xcls = e.xcls /\ f.xsite = e.xsite
    BY DEF Entry
<1> HIDE DEF f
<1>3. Places(f) = Places(e) /\ FitsEntry(f)
    BY <1>2 DEF Places, FitsEntry
<1>4. Populate(ci, id, f, s) = Populate(ci, id, e, s)
    BY <1>2 DEF Populate, ProbeOf
<1>5. PICK ok \in BOOLEAN :
          /\ ci' = IF ok THEN Populate(ci, id, e, s) ELSE Depopulate(Populate(ci, id, e, s), e)
          /\ mi' = [mi EXCEPT ![id] = IF ok THEN f ELSE NoEntry]
          /\ slots' = [slots EXCEPT ![s] = IF ok THEN id ELSE 0]
    <2>1. PICK o \in Perform(code, Populate(ci, id, e, s), e) :
              /\ ci' = IF o.ok THEN Populate(ci, id, e, s)
                               ELSE Depopulate(Populate(ci, id, e, s), e)
              /\ mi' = [mi EXCEPT ![id] = IF o.ok THEN f ELSE NoEntry]
              /\ slots' = [slots EXCEPT ![s] = IF o.ok THEN id ELSE 0]
        BY DEF Install, f
    <2>2. Populate(ci, id, e, s) \in ClassList
        BY <1>1, PopulateLists
    <2>3. o.ok \in BOOLEAN
        BY <2>2, PerformOK DEF IInv, TypeOK
    <2> QED
        BY <2>1, <2>3
<1>6. CASE ok
    <2>1. ci' = Populate(ci, id, f, s) /\ mi' = [mi EXCEPT ![id] = f]
          /\ slots' = [slots EXCEPT ![s] = id]
        BY <1>4, <1>5, <1>6
    <2>2. \A j \in Ids : j # id /\ Present(j) => Places(mi[j]) \cap Places(f) = {}
        BY <1>3
    <2> QED
        BY <1>2, <1>3, <2>1, <2>2, Arrives
<1>7. CASE ~ok
    <2>1. \A d \in Classes : \A p \in ListOf(ci, d) :
              /\ p.iid \in Ids /\ p.iid # id /\ Present(p.iid)
              /\ <<d, p.site>> \notin Places(e)
        <3> SUFFICES ASSUME NEW d \in Classes, NEW p \in ListOf(ci, d)
                     PROVE  /\ p.iid \in Ids /\ p.iid # id /\ Present(p.iid)
                            /\ <<d, p.site>> \notin Places(e)
            OBVIOUS
        <3>1. /\ p.iid \in Ids /\ Present(p.iid) /\ mi[p.iid].deferred = {}
              /\ <<d, p.site>> \in Places(mi[p.iid])
            BY ListedFacts
        <3>2. p.iid # id
            BY <3>1 DEF Ready
        <3>3. Places(mi[p.iid]) \cap Places(e) = {}
            BY <3>1, <3>2
        <3> QED
            BY <3>1, <3>2, <3>3
    <2>2. Depopulate(Populate(ci, id, e, s), e) = ci
        <3>1. e.cls \in Classes /\ e.xcls \in Classes
            BY DEF Entry
        <3>2. /\ \A p \in ListOf(ci, e.cls) : p.site # e.site
              /\ \A p \in ListOf(ci, e.xcls) : p.site # e.xsite
            BY <2>1, <3>1 DEF Places
        <3> QED
            BY <1>1, <3>2, UndoRestores
    <2>3. ci' = ci /\ mi' = [mi EXCEPT ![id] = NoEntry] /\ slots' = [slots EXCEPT ![s] = 0]
        BY <1>5, <1>7, <2>2
    <2>4. \A t \in Slots : slots'[t] = IF slots[t] = id THEN 0 ELSE slots[t]
        <3>1. \A t \in Slots : slots[t] = id => t = s
            BY <1>1 DEF Tables, SlotsMatchMaster
        <3> QED
            BY <1>1, <2>3, <3>1
    <2>5. AllNeat(ci') /\ slots' \in [Slots -> Ids \cup {0}]
        BY <1>1, <2>3 DEF Tables
    <2>6. \A d \in Classes :
              /\ ListOf(ci', d) \subseteq ListOf(ci, d)
              /\ \A p \in ListOf(ci, d) : p.iid # id /\ Present(p.iid) => p \in ListOf(ci', d)
              /\ \A p \in ListOf(ci', d) : p.iid = id => p.kind = "exit" /\ ~Settled(d)'
              /\ ~Settled(d) => ~Settled(d)' \/ ListOf(ci', d) = {}
        BY <2>1, <2>3
    <2> QED
        BY <2>3, <2>4, <2>5, <2>6, Leaves
<1> QED
    BY <1>5, <1>6, <1>7

\* A request for a new instrument.
LEMMA InstrumentTables ==
    ASSUME IInv, Tables, NEW e \in Entry, FitsEntry(e), Instrument(e),
           \A j \in Ids : Present(j) => Places(mi[j]) \cap Places(e) = {}
    PROVE  Tables'
<1>1. /\ TypeOK /\ cur = Idle /\ nextId \in Ids /\ slots \in [Slots -> Ids \cup {0}]
      /\ UNCHANGED cur
    BY DEF IInv, TypeOK, Instrument
<1>2. \A c \in Classes : Settled(c)
    BY <1>1 DEF Settled, Idle
<1>3. ~Present(nextId) /\ ~Ready(nextId)
    <2>1. nextId >= nextId
        BY <1>1 DEF Ids
    <2> QED
        BY <1>1, <2>1 DEF IInv, FreshIds, Ready
<1>4. \A q \in queue : q.iid # nextId
    BY <1>3, NotQueued DEF IInv
<1>5. CASE InstrumentRefused
    <2>1. UNCHANGED <<mi, queue, slots, ci>>
        BY <1>5 DEF InstrumentRefused
    <2> QED
        BY <1>1, <1>2, <2>1, TablesKept
<1>6. ASSUME NEW s \in Slots, FirstFree(s), InstrumentNow(e, s)
      PROVE  Tables'
    <2>1. Install(nextId, e, s) /\ queue' = queue /\ slots[s] = 0
        BY <1>6 DEF InstrumentNow, FirstFree
    <2> QED
        BY <1>1, <1>2, <1>3, <1>4, <2>1, InstallTables
<1>7. ASSUME NEW s \in Slots, FirstFree(s), InstrumentLater(e, s)
      PROVE  Tables'
    <2> DEFINE f == [e EXCEPT !.deferred = Waiting(e)]
    <2>1. /\ slots[s] = 0 /\ ci' = ci /\ slots' = [slots EXCEPT ![s] = nextId]
          /\ mi' = [mi EXCEPT ![nextId] = f]
          /\ ~(Known(e.cls) /\ Known(e.xcls))
          /\ queue' = queue \cup {[kind |-> k, cls |-> SideClass(e, k), slot |-> s, iid |-> nextId] :
                                     k \in Waiting(e)}
        BY <1>7 DEF InstrumentLater, FirstFree
    <2>2. Waiting(e) \in SUBSET Kinds /\ Waiting(e) # {}
        <3>1. CASE e.type = "method"
            BY <3>1 DEF Waiting, Kinds
        <3>2. CASE e.type # "method" /\ ~Known(e.cls)
            <4>1. "enter" \in Waiting(e)
                BY <3>2 DEF Waiting, SideClass
            <4> QED
                BY <3>2, <4>1 DEF Waiting, Kinds
        <3>3. CASE e.type # "method" /\ Known(e.cls) /\ ~Known(e.xcls)
            <4>1. e.xcls # e.cls
                BY <3>3
            <4>2. "exit" \in Waiting(e)
                BY <3>3, <4>1 DEF Waiting, SideClass
            <4> QED
                BY <3>3, <4>2 DEF Waiting, Kinds
        <3> QED
            BY <2>1, <3>1, <3>2, <3>3
    <2>3. /\ f \in Entry /\ f.deferred = Waiting(e) /\ f.type = e.type
          /\ f.cls = e.cls /\ f.site = e.site /\ f.xcls = e.xcls /\ f.xsite = e.xsite
        BY <2>2 DEF Entry
    <2> HIDE DEF f
    <2>4. Places(f) = Places(e) /\ FitsEntry(f)
        BY <2>3 DEF Places, FitsEntry
    <2>5. \A j \in Ids : j # nextId /\ Present(j) => Places(mi[j]) \cap Places(f) = {}
        BY <2>4
    <2>6. \A q \in queue' : q \in queue \/ (q.iid = nextId /\ q.slot = s)
        BY <2>1
    <2>7. f.deferred # {}
        BY <2>2, <2>3
    <2> QED
        BY <1>1, <1>2, <1>3, <2>1, <2>3, <2>4, <2>5, <2>6, <2>7, WaitsOn
<1> QED
    BY <1>5, <1>6, <1>7 DEF Instrument

\* A request for a method, which is refused when the method has an instrument.
LEMMA InstrumentMethodTables ==
    ASSUME IInv, Tables, NEW c \in Classes, NEW m \in Methods, InstrumentMethod(c, m)
    PROVE  Tables'
<1> DEFINE e == MethodEntry(c, m)
<1>1. /\ e \in Entry /\ e.type = "method" /\ e.cls = c /\ e.xcls = c /\ e.site = m /\ e.xsite = m
    BY DEF MethodEntry, Entry, Sites, Kinds
<1>2. FindMethod(c, m) = {} /\ Instrument(e)
    BY DEF InstrumentMethod
<1> HIDE DEF e
<1>3. FitsEntry(e) /\ Places(e) = {<<c, m>>}
    BY <1>1 DEF FitsEntry, Places
<1>4. ASSUME NEW j \in Ids, Present(j)
      PROVE  Places(mi[j]) \cap Places(e) = {}
    <2>1. FitsEntry(mi[j])
        BY <1>4 DEF Tables, EntriesFit
    <2>2. CASE mi[j].type = "method"
        <3>1. mi[j].cls # c \/ mi[j].site # m
            BY <1>2, <1>4, <2>2 DEF FindMethod, Present
        <3>2. Places(mi[j]) = {<<mi[j].cls, mi[j].site>>}
            BY <2>1, <2>2 DEF FitsEntry, Places
        <3> QED
            BY <1>3, <3>1, <3>2
    <2>3. CASE mi[j].type # "method"
        <3>1. mi[j].site # m /\ mi[j].xsite # m
            BY <2>1, <2>3, SiteKinds DEF FitsEntry
        <3> QED
            BY <1>3, <3>1 DEF Places
    <2> QED
        BY <2>2, <2>3
<1> QED
    BY <1>1, <1>2, <1>3, <1>4, InstrumentTables

\* The same for a line, which its clients put where no other is.
LEMMA InstrumentLineTables ==
    ASSUME IInv, Tables, ~SharedLines, NEW c \in Classes, NEW x \in Classes,
           NEW n \in Lines, NEW k \in Lines, InstrumentLine(c, n, x, k)
    PROVE  Tables'
<1> DEFINE e == LineEntry(c, n, x, k)
<1>1. e \in Entry /\ e.type = "line" /\ e.site = n /\ e.xsite = k
    BY DEF LineEntry, Entry, Sites, Kinds
<1>2. ~Overlaps(e) /\ Instrument(e)
    BY DEF InstrumentLine
<1> HIDE DEF e
<1>3. FitsEntry(e)
    BY <1>1 DEF FitsEntry
<1>4. \A j \in Ids : Present(j) => Places(mi[j]) \cap Places(e) = {}
    BY <1>2 DEF Overlaps, Present
<1> QED
    BY <1>1, <1>2, <1>3, <1>4, InstrumentTables

\* Removing an instrument that waits for a class.
LEMMA DeinstrumentDeferredTables ==
    ASSUME IInv, Tables, NEW id \in Ids, cur = Idle, UNCHANGED cur, Present(id),
           DeinstrumentDeferred(id)
    PROVE  Tables'
<1>1. /\ slots \in [Slots -> Ids \cup {0}] /\ 0 \notin Ids
      /\ \A q \in queue : q.slot \in Slots
    BY DEF IInv, TypeOK, Ids, Queued
<1>2. \A c \in Classes : Settled(c)
    BY DEF Settled, Idle
<1>3. /\ mi[id].deferred # {}
      /\ slots' = [s \in Slots |-> IF \E q \in queue : q.iid = id /\ q.slot = s THEN 0 ELSE slots[s]]
      /\ queue' = {q \in queue : q.iid # id}
      /\ mi' = [mi EXCEPT ![id] = NoEntry]
      /\ ci' = ci
    BY DEF DeinstrumentDeferred
<1>4. \A s \in Slots : slots[s] = id <=> \E q \in queue : q.iid = id /\ q.slot = s
    <2>1. PICK q \in queue : q.iid = id
        <3>1. PICK k : k \in mi[id].deferred
            BY <1>3
        <3> QED
            BY <3>1 DEF IInv, QueueMatchesMaster
    <2>2. \A r \in queue : slots[r.slot] = r.iid
        BY DEF Tables, QueueSlots
    <2>3. \A s \in Slots : slots[s] = id => s = q.slot
        BY <1>1, <2>1, <2>2 DEF Tables, SlotsMatchMaster
    <2> QED
        BY <2>1, <2>2, <2>3
<1>5. \A s \in Slots : slots'[s] = IF slots[s] = id THEN 0 ELSE slots[s]
    BY <1>3, <1>4
<1>6. slots' \in [Slots -> Ids \cup {0}] /\ AllNeat(ci')
    BY <1>1, <1>3 DEF Tables
<1>7. \A d \in Classes : \A p \in ListOf(ci, d) : p.iid # id
    BY <1>2, <1>3, ListedFacts
<1>8. \A d \in Classes :
         /\ ListOf(ci', d) \subseteq ListOf(ci, d)
         /\ \A p \in ListOf(ci, d) : p.iid # id /\ Present(p.iid) => p \in ListOf(ci', d)
         /\ \A p \in ListOf(ci', d) : p.iid = id => p.kind = "exit" /\ ~Settled(d)'
         /\ ~Settled(d) => ~Settled(d)' \/ ListOf(ci', d) = {}
    BY <1>2, <1>3, <1>7
<1> QED
    BY <1>3, <1>5, <1>6, <1>8, Leaves

\* When no list is being cleaned up, an instrument of the table is alone at
\* its places.
LEMMA AloneAtItsPlaces ==
    ASSUME IInv, Tables, NEW id \in Ids, Present(id), \A c \in Classes : Settled(c)
    PROVE  HasItsPlaces(ci, id, mi[id])
<1> SUFFICES ASSUME NEW d \in Classes, NEW p \in ListOf(ci, d)
             PROVE  /\ p.iid = id => /\ p.kind \in Sides(mi[id])
                                     /\ SideClass(mi[id], p.kind) = d
                                     /\ p.site = SiteOf(mi[id], p.kind)
                    /\ <<d, p.site>> \in Places(mi[id]) => p.iid = id
    BY DEF HasItsPlaces
<1>1. /\ p.iid \in Ids /\ Present(p.iid)
      /\ p.kind \in Sides(mi[p.iid])
      /\ SideClass(mi[p.iid], p.kind) = d
      /\ p.site = SiteOf(mi[p.iid], p.kind)
      /\ <<d, p.site>> \in Places(mi[p.iid])
    BY ListedFacts
<1>2. p.iid # id => Places(mi[p.iid]) \cap Places(mi[id]) = {}
    BY <1>1 DEF Tables, EntriesApart
<1> QED
    BY <1>1, <1>2

\* Removing an applied instrument: the probe that is found at its entry site is
\* its own, so the slot that is freed is its own too.
LEMMA DeinstrumentAppliedTables ==
    ASSUME IInv, Tables, NEW id \in Ids, cur = Idle, UNCHANGED cur, Present(id),
           DeinstrumentApplied(id)
    PROVE  Tables'
<1> DEFINE e   == mi[id]
           old == ci[e.cls].probes
           freed == IF \E i \in DOMAIN old : old[i].site = e.site
                    THEN {old[FirstAt(old, e.site)].slot} ELSE {}
<1>1. /\ slots \in [Slots -> Ids \cup {0}] /\ 0 \notin Ids /\ ci \in ClassList
      /\ e \in Entry /\ e.cls \in Classes
    BY EntryFields DEF IInv, TypeOK, Ids
<1>2. \A c \in Classes : Settled(c)
    BY DEF Settled, Idle
<1>3. /\ e.deferred = {}
      /\ slots' = [s \in Slots |-> IF s \in freed THEN 0 ELSE slots[s]]
      /\ queue' = queue
      /\ mi' = [mi EXCEPT ![id] = NoEntry]
      /\ ci' = Depopulate(ci, e)
    BY DEF DeinstrumentApplied
<1> HIDE DEF freed, old
<1>4. HasItsPlaces(ci, id, e)
    BY <1>2, AloneAtItsPlaces
<1>5. \A s \in Slots : s \in freed <=> slots[s] = id
    <2> DEFINE k == IF e.type = "method" THEN "method" ELSE "enter"
    <2>1. k \in Sides(e) /\ SideClass(e, k) = e.cls /\ SiteOf(e, k) = e.site
        BY DEF Sides, SideClass, SiteOf
    <2>2. PICK p \in ListOf(ci, e.cls) : p.iid = id /\ p.kind = k
        <3>1. Ready(id)
            BY <1>3 DEF Ready
        <3> QED
            BY <2>1, <3>1 DEF Tables, ListsComplete
    <2> HIDE DEF k
    <2>3. p.site = e.site
        BY <1>1, <1>4, <2>1, <2>2 DEF HasItsPlaces
    <2>4. old \in Seq(Probe) /\ p \in Elems(old)
        BY <1>1 DEF old, ClassList, ListOf
    <2>5. PICK i \in DOMAIN old : old[i].site = e.site /\ FirstAt(old, e.site) = i
        BY <2>3, <2>4, RemoveSiteTakes
    <2>6. freed = {old[i].slot}
        BY <2>5 DEF freed
    <2>7. old[i] \in ListOf(ci, e.cls)
        BY DEF ListOf, Elems, old
    <2>8. old[i].iid = id
        <3>1. <<e.cls, e.site>> \in Places(e)
            BY DEF Places
        <3> QED
            BY <1>1, <1>4, <2>5, <2>7, <3>1 DEF HasItsPlaces
    <2>9. old[i].slot \in Slots /\ slots[old[i].slot] = id
        BY <1>1, <1>2, <2>7, <2>8, ListedFacts
    <2>10. \A s \in Slots : slots[s] = id => s = old[i].slot
        BY <1>1, <2>9 DEF Tables, SlotsMatchMaster
    <2> QED
        BY <2>6, <2>9, <2>10
<1>6. \A s \in Slots : slots'[s] = IF slots[s] = id THEN 0 ELSE slots[s]
    BY <1>3, <1>5
<1>7. slots' \in [Slots -> Ids \cup {0}]
    BY <1>1, <1>3
<1>8. \A q \in queue' : q \in queue /\ q.iid # id
    <2>1. Ready(id)
        BY <1>3 DEF Ready
    <2> QED
        BY <1>3, <2>1, NotQueued DEF IInv
<1> HIDE DEF e
<1>9. /\ AllNeat(ci')
      /\ \A d \in Classes :
            /\ ListOf(ci', d) \subseteq ListOf(ci, d)
            /\ \A p \in ListOf(ci, d) : p \in ListOf(ci', d) <=> p.iid # id
    <2>1. AllNeat(ci)
        BY DEF Tables
    <2> QED
        BY <1>1, <1>3, <1>4, <2>1, DepopulateTakes
<1>10. \A d \in Classes :
         /\ ListOf(ci', d) \subseteq ListOf(ci, d)
         /\ \A p \in ListOf(ci, d) : p.iid # id /\ Present(p.iid) => p \in ListOf(ci', d)
         /\ \A p \in ListOf(ci', d) : p.iid = id => p.kind = "exit" /\ ~Settled(d)'
         /\ ~Settled(d) => ~Settled(d)' \/ ListOf(ci', d) = {}
    BY <1>2, <1>9
<1> QED
    BY <1>3, <1>6, <1>7, <1>8, <1>9, <1>10, Leaves

\* A queued side gets its turn.
LEMMA DeferredStepTables ==
    ASSUME IInv, Tables, NEW q \in queue, DeferredStep(q)
    PROVE  Tables'
<1> DEFINE id == q.iid
           e  == [mi[id] EXCEPT !.deferred = @ \ {q.kind}]
<1>1. /\ TypeOK /\ q \in Queued /\ id \in Ids /\ q.slot \in Slots
      /\ slots \in [Slots -> Ids \cup {0}] /\ mi \in [Ids -> Entry \cup {NoEntry}]
    BY DEF IInv, TypeOK, Queued
<1>2. Present(id) /\ q.kind \in mi[id].deferred /\ slots[q.slot] = id
    BY DEF IInv, QueueMatchesMaster, Tables, QueueSlots
<1>3. mi[id] \in Entry
    BY <1>1, <1>2, EntryFields
<1>4. /\ e \in Entry /\ e.deferred = mi[id].deferred \ {q.kind} /\ e.type = mi[id].type
      /\ e.cls = mi[id].cls /\ e.xcls = mi[id].xcls
      /\ e.site = mi[id].site /\ e.xsite = mi[id].xsite
    BY <1>3 DEF Entry
<1>5. cur.phase = "deferred" /\ queue' = queue \ {q} /\ UNCHANGED cur
    BY DEF DeferredStep
<1>6. \/ /\ e.deferred # {}
         /\ mi' = [mi EXCEPT ![id] = e]
         /\ UNCHANGED <<ci, slots>>
      \/ /\ e.deferred = {}
         /\ Install(id, e, q.slot)
    BY DEF DeferredStep
<1> HIDE DEF id, e
<1>7. \A c \in Classes : Settled(c)
    BY <1>5 DEF Settled
<1>8. ~Ready(id)
    BY <1>2 DEF Ready
<1>9. FitsEntry(e) /\ Places(e) = Places(mi[id])
    BY <1>1, <1>2, <1>4 DEF Tables, EntriesFit, FitsEntry, Places
<1>10. \A j \in Ids : j # id /\ Present(j) => Places(mi[j]) \cap Places(e) = {}
    BY <1>1, <1>2, <1>9 DEF Tables, EntriesApart
<1>11. CASE e.deferred # {} /\ mi' = [mi EXCEPT ![id] = e] /\ UNCHANGED <<ci, slots>>
    <2>1. slots' = [slots EXCEPT ![q.slot] = id]
        BY <1>1, <1>2, <1>11
    <2>2. \A r \in queue' : r \in queue
        BY <1>5
    <2>3. slots[q.slot] = IF Present(id) THEN id ELSE 0
        BY <1>2
    <2> QED
        BY <1>1, <1>4, <1>7, <1>8, <1>9, <1>10, <1>11, <2>1, <2>2, <2>3, WaitsOn
<1>12. CASE e.deferred = {} /\ Install(id, e, q.slot)
    <2>1. \A r \in queue' : r \in queue /\ r.iid # id
        <3> SUFFICES ASSUME NEW r \in queue, r # q, r.iid = id PROVE FALSE
            BY <1>5
        <3>1. r.kind \in mi[id].deferred
            BY DEF IInv, QueueMatchesMaster
        <3>2. r.kind = q.kind
            BY <1>4, <1>12, <3>1
        <3> QED
            BY <1>1, <3>2, QueueKeys DEF IInv, id
    <2>2. slots[q.slot] = IF Present(id) THEN id ELSE 0
        BY <1>2
    <2> QED
        BY <1>1, <1>4, <1>5, <1>7, <1>8, <1>9, <1>10, <1>12, <2>1, <2>2, InstallTables
<1> QED
    BY <1>6, <1>11, <1>12

\* The first probe of a class's list, and the lists without it.
HeadOf(cl, c) == Head(cl[c].probes)

WithoutHead(cl, c) == [cl EXCEPT ![c].probes = Tail(cl[c].probes)]

\* Dropping the first probe of a list (the clean-up loop) takes that probe and
\* no other; if it is the exit side of a line, the entry side is not listed.
LEMMA HeadGoes ==
    ASSUME NEW cl \in ClassList, AllNeat(cl), NEW c \in Classes, cl[c].probes # <<>>
    PROVE  /\ WithoutHead(cl, c) \in ClassList
           /\ AllNeat(WithoutHead(cl, c))
           /\ DifferAt(WithoutHead(cl, c), cl, c)
           /\ HeadOf(cl, c) \in ListOf(cl, c)
           /\ ListOf(WithoutHead(cl, c), c) = ListOf(cl, c) \ {HeadOf(cl, c)}
           /\ \A q \in ListOf(cl, c) :
                 q.iid = HeadOf(cl, c).iid /\ HeadOf(cl, c).kind = "exit" => q.kind # "enter"
<1> DEFINE new == WithoutHead(cl, c)
           p == HeadOf(cl, c)
<1> DEFINE s == cl[c].probes
           r == Tail(s)
<1>1. s \in Seq(Probe) /\ Neat(s) /\ s # <<>>
    BY DEF ClassList, AllNeat
<1>2. /\ Len(s) \in Nat /\ Len(s) > 0 /\ DOMAIN s = 1..Len(s) /\ p = s[1] /\ 1 \in DOMAIN s
      /\ r \in Seq(Probe) /\ Len(r) = Len(s) - 1 /\ DOMAIN r = 1..(Len(s) - 1)
      /\ \A j \in 1..(Len(s) - 1) : r[j] = s[j + 1]
    BY <1>1 DEF HeadOf
<1>3. new \in ClassList /\ new[c].probes = r /\ DifferAt(new, cl, c)
    BY <1>2 DEF ClassList, DifferAt, WithoutHead
<1> HIDE DEF s, r, new, p
<1>4. r = Without(s, 1)
    <2>1. r = [j \in 1..(Len(s) - 1) |-> r[j]]
        BY <1>2
    <2>2. \A j \in 1..(Len(s) - 1) : r[j] = (IF j < 1 THEN s[j] ELSE s[j + 1])
        BY <1>2
    <2> QED
        BY <2>1, <2>2 DEF Without
<1>5. Elems(r) = Elems(s) \ {s[1]} /\ Neat(r)
    BY <1>1, <1>2, <1>4, WithoutOK
<1>6. AllNeat(new)
    BY <1>3, <1>5 DEF AllNeat, DifferAt
<1>7. p \in Elems(s)
    BY <1>2 DEF Elems
<1>8. \A q \in Elems(s) : q.iid = p.iid /\ p.kind = "exit" => q.kind # "enter"
    <2> SUFFICES ASSUME NEW i \in DOMAIN s, s[i].iid = s[1].iid, s[1].kind = "exit",
                        s[i].kind = "enter"
                 PROVE  FALSE
        BY <1>2 DEF Elems
    <2>1. i < 1
        BY <1>1, <1>2 DEF Neat
    <2> QED
        BY <1>2, <2>1
<1> QED
    BY <1>2, <1>3, <1>5, <1>6, <1>7, <1>8 DEF s, new, p, ListOf

\* One iteration of the clean-up after a failed reapply.
LEMMA CleanupTables ==
    ASSUME IInv, Tables, CleanupStep
    PROVE  Tables'
<1> DEFINE c     == cur.cls
           p     == Head(ci[c].probes)
           id    == p.iid
           e     == mi[id]
           rest  == [ci EXCEPT ![c].probes = Tail(@)]
           other == IF p.kind = "enter" THEN e.xcls ELSE e.cls
           osite == IF p.kind = "enter" THEN e.xsite ELSE e.site
           cross == e # NoEntry /\ e.cls # e.xcls
           cl    == DropSite(rest, other, osite)
<1>1. /\ TypeOK /\ cur.phase = "cleanup" /\ ci \in ClassList /\ AllNeat(ci)
      /\ mi \in [Ids -> Entry \cup {NoEntry}] /\ slots \in [Slots -> Ids \cup {0}]
      /\ 0 \notin Ids
    <2>1. cur.phase = "cleanup"
        BY DEF CleanupStep
    <2> QED
        BY <2>1 DEF IInv, TypeOK, Tables, Ids
<1>2. c \in Classes /\ ci[c].probes # <<>>
    <2>1. ci[c].probes # <<>>
        BY DEF CleanupStep
    <2>2. cur # Idle
        BY <1>1 DEF Idle
    <2> QED
        BY <1>1, <2>1, <2>2 DEF TypeOK
<1>3. /\ queue' = queue
      /\ ci' = IF cross THEN cl ELSE rest
      /\ IF p.kind # "exit" \/ cross
         THEN mi' = [mi EXCEPT ![id] = NoEntry] /\ slots' = [slots EXCEPT ![p.slot] = 0]
         ELSE UNCHANGED <<mi, slots>>
      /\ cur' = IF ci'[c].probes = <<>> THEN [cur EXCEPT !.phase = "deferred"] ELSE cur
    <2> USE DEF CleanupStep
    <2>1. queue' = queue
        OBVIOUS
    <2>2. ci' = IF cross THEN cl ELSE rest
        OBVIOUS
    <2>3. IF p.kind # "exit" \/ cross
          THEN mi' = [mi EXCEPT ![id] = NoEntry] /\ slots' = [slots EXCEPT ![p.slot] = 0]
          ELSE UNCHANGED <<mi, slots>>
        OBVIOUS
    <2>4. cur' = IF ci'[c].probes = <<>> THEN [cur EXCEPT !.phase = "deferred"] ELSE cur
        OBVIOUS
    <2> QED
        BY <2>1, <2>2, <2>3, <2>4
<1>4. PICK cc \in Classes : cc = c
    BY <1>2
<1>5. /\ \A d \in Classes : Settled(d) <=> d # cc
      /\ \A d \in Classes : ~Settled(d) => ~Settled(d)' \/ ListOf(ci', d) = {}
      /\ \A d \in Classes : \A q \in ListOf(ci', d) : ~Settled(d) => ~Settled(d)'
    <2>1. \A d \in Classes : Settled(d) <=> d # cc
        BY <1>1, <1>4 DEF Settled
    <2>2. CASE ci'[cc].probes = <<>>
        <3>1. ListOf(ci', cc) = {}
            BY <2>2 DEF ListOf, Elems
        <3> QED
            BY <2>1, <3>1
    <2>3. CASE ci'[cc].probes # <<>>
        <3>1. cur' = cur
            BY <1>3, <1>4, <2>3
        <3> QED
            BY <2>1, <3>1 DEF Settled
    <2> QED
        BY <2>1, <2>2, <2>3
<1>6. /\ rest \in ClassList /\ AllNeat(rest) /\ DifferAt(rest, ci, cc)
      /\ p \in ListOf(ci, cc)
      /\ ListOf(rest, cc) = ListOf(ci, cc) \ {p}
      /\ \A q \in ListOf(ci, cc) : q.iid = p.iid /\ p.kind = "exit" => q.kind # "enter"
    <2> HIDE DEF p, rest, c
    <2>1. rest = WithoutHead(ci, cc)
        BY <1>1, <1>4 DEF rest, WithoutHead
    <2>2. ci[cc].probes # <<>> /\ p = HeadOf(ci, cc)
        BY <1>2, <1>4 DEF p, HeadOf
    <2> QED
        BY <1>1, <2>1, <2>2, HeadGoes
<1>7. PICK pp : pp = p
    OBVIOUS
<1>8. PICK ee : ee = e
    OBVIOUS
<1>9. PICK re : re = rest
    OBVIOUS
<1>10. id = pp.iid
    BY <1>7
<1> HIDE DEF c, p, rest
<1>11. /\ pp.iid \in Ids /\ pp.slot \in Slots
       /\ re \in ClassList /\ AllNeat(re) /\ DifferAt(re, ci, cc)
       /\ pp \in ListOf(ci, cc)
       /\ ListOf(re, cc) = ListOf(ci, cc) \ {pp}
       /\ \A d \in Classes : d # cc => ListOf(re, d) = ListOf(ci, d)
    <2>1. pp.iid \in Ids /\ pp.slot \in Slots
        BY <1>1, <1>6, <1>7, ListedOK DEF ListOf
    <2> QED
        BY <1>6, <1>7, <1>9, <2>1 DEF DifferAt, ListOf
<1>12. \A q \in queue' : q \in queue /\ q.iid # pp.iid
    <2>1. Present(pp.iid) => Ready(pp.iid)
        BY <1>11 DEF IInv, ListedIsReady, ListOf
    <2> QED
        BY <1>3, <2>1, NotQueued DEF IInv
<1>13. CASE ~Present(pp.iid)
    <2>1. pp.kind = "exit" /\ ~cross
        BY <1>5, <1>8, <1>10, <1>11, <1>13 DEF Tables, ListsSound, Listed, Ready, Present
    <2>2. mi' = mi /\ slots' = slots /\ ci' = re
        BY <1>3, <1>7, <1>9, <2>1
    <2>3. mi' = [mi EXCEPT ![pp.iid] = NoEntry]
        BY <1>1, <1>13, <2>2 DEF Present
    <2>4. \A s \in Slots : slots'[s] = IF slots[s] = pp.iid THEN 0 ELSE slots[s]
        BY <1>11, <1>13, <2>2 DEF Tables, SlotsMatchMaster
    <2>5. \A d \in Classes : \A q \in ListOf(ci, d) : q.iid = pp.iid => q.kind = "exit" /\ ~Settled(d)
        BY <1>13 DEF Tables, ListsSound, Listed, Ready
    <2>6. \A d \in Classes : \A q \in ListOf(ci', d) : q.iid = pp.iid => q.kind = "exit" /\ ~Settled(d)'
        BY <1>5, <1>11, <2>2, <2>5
    <2>7. \A d \in Classes :
             /\ ListOf(ci', d) \subseteq ListOf(ci, d)
             /\ \A q \in ListOf(ci, d) : q.iid # pp.iid /\ Present(q.iid) => q \in ListOf(ci', d)
             /\ \A q \in ListOf(ci', d) : q.iid = pp.iid => q.kind = "exit" /\ ~Settled(d)'
             /\ ~Settled(d) => ~Settled(d)' \/ ListOf(ci', d) = {}
        BY <1>5, <1>11, <2>2, <2>6
    <2>8. AllNeat(ci') /\ slots' \in [Slots -> Ids \cup {0}]
        BY <1>1, <1>11, <2>2
    <2> QED
        BY <1>11, <1>12, <2>3, <2>4, <2>7, <2>8, Leaves
<1>14. CASE Present(pp.iid)
    <2>1. /\ pp.kind \in Kinds /\ mi[pp.iid].deferred = {} /\ slots[pp.slot] = pp.iid
          /\ pp.kind \in Sides(ee) /\ SideClass(ee, pp.kind) = cc
          /\ ee \in Entry /\ ee = mi[pp.iid] /\ FitsEntry(ee)
          /\ ee.cls \in Classes /\ ee.xcls \in Classes
        <3>1. ee = mi[pp.iid]
            BY <1>8, <1>10
        <3>2. FitsEntry(ee)
            BY <1>11, <1>14, <3>1 DEF Tables, EntriesFit
        <3> QED
            BY <1>1, <1>11, <1>14, <3>1, <3>2, ListedFacts, EntryFields
    <2>2. \A d \in Classes : \A q \in ListOf(ci, d) : q.iid = pp.iid =>
             /\ q.kind \in Sides(ee) /\ SideClass(ee, q.kind) = d /\ q.site = SiteOf(ee, q.kind)
        BY <1>14, <2>1, ListedFacts
    <2>3. \A k \in Sides(ee) : \E q \in ListOf(ci, SideClass(ee, k)) : q.iid = pp.iid /\ q.kind = k
        BY <1>11, <1>14, <2>1 DEF Tables, ListsComplete, Ready
    <2>4. \A d \in Classes : \A q, r \in ListOf(ci, d) : q.iid = r.iid /\ q.kind = r.kind => q = r
        BY <1>1, NeatKeys DEF AllNeat, ListOf
    <2>5. \A s \in Slots : slots[s] = pp.iid <=> s = pp.slot
        BY <1>1, <1>11, <2>1 DEF Tables, SlotsMatchMaster
    <2>6. SUFFICES ASSUME ci' \in ClassList, AllNeat(ci'),
                          pp.kind # "exit" \/ cross,
                          \A d \in Classes :
                             /\ ListOf(ci', d) \subseteq ListOf(ci, d)
                             /\ \A q \in ListOf(ci, d) : q.iid # pp.iid => q \in ListOf(ci', d)
                             /\ \A q \in ListOf(ci', d) : q.iid = pp.iid => q.kind = "exit" /\ d = cc
                   PROVE  Tables'
        <3>1. CASE ~cross
            <4>1. ci' = re
                BY <1>3, <1>9, <3>1
            <4>2. ee.cls = ee.xcls /\ \A k : SideClass(ee, k) = cc
                <5>1. ee.cls = ee.xcls
                    BY <1>8, <1>14, <2>1, <3>1 DEF Present
                <5> QED
                    BY <2>1, <5>1 DEF SideClass
            <4>3. pp.kind # "exit"
                <5> SUFFICES ASSUME pp.kind = "exit" PROVE FALSE
                    OBVIOUS
                <5>1. "enter" \in Sides(ee)
                    BY <2>1 DEF Sides
                <5>2. PICK q \in ListOf(ci, SideClass(ee, "enter")) : q.iid = pp.iid /\ q.kind = "enter"
                    BY <2>3, <5>1
                <5> QED
                    BY <1>6, <1>7, <4>2, <5>2
            <4>4. \A d \in Classes : \A q \in ListOf(re, d) : q.iid = pp.iid => q.kind = "exit" /\ d = cc
                <5> SUFFICES ASSUME NEW d \in Classes, NEW q \in ListOf(re, d), q.iid = pp.iid
                             PROVE  q.kind = "exit" /\ d = cc
                    OBVIOUS
                <5>1. q \in ListOf(ci, d)
                    BY <1>11
                <5>2. d = cc /\ q.kind \in Sides(ee)
                    BY <2>2, <4>2, <5>1
                <5>3. q # pp
                    BY <1>11, <5>2
                <5>4. q.kind # pp.kind
                    BY <1>11, <2>4, <5>1, <5>2, <5>3
                <5> QED
                    BY <2>1, <4>3, <5>2, <5>4 DEF Sides
            <4> QED
                BY <1>11, <4>1, <4>3, <4>4
        <3>2. CASE cross
            <4> DEFINE ok == IF pp.kind = "enter" THEN "exit" ELSE "enter"
            <4>1. ee.cls # ee.xcls /\ ee.type # "method" /\ Sides(ee) = {"enter", "exit"}
                <5>1. ee.cls # ee.xcls
                    BY <1>8, <3>2
                <5> QED
                    BY <2>1, <5>1 DEF FitsEntry, Sides
            <4>0. PICK oc \in Classes : oc = other
                BY <1>7, <1>8, <2>1
            <4>2. PICK os : oc = other /\ os = osite
                BY <4>0
            <4>3. /\ ok \in Sides(ee) /\ oc = SideClass(ee, ok) /\ os = SiteOf(ee, ok) /\ oc # cc
                  /\ \A k \in Sides(ee) : SideClass(ee, k) = oc => k = ok
                  /\ \A k \in Sides(ee) : SideClass(ee, k) = cc => k = pp.kind
                  /\ \A k \in Sides(ee) : SideClass(ee, k) = cc \/ SideClass(ee, k) = oc
                BY <1>7, <1>8, <2>1, <4>1, <4>2 DEF SideClass, SiteOf
            <4> HIDE DEF ok, other, osite
            <4>4. ci' = DropSite(re, oc, os)
                BY <1>3, <1>9, <3>2, <4>2
            <4>5. PICK q \in ListOf(ci, oc) : q.iid = pp.iid /\ q.kind = ok
                BY <2>3, <4>3
            <4>6. q.site = os /\ ListOf(re, oc) = ListOf(ci, oc)
                BY <1>11, <2>2, <4>3, <4>5
            <4>7. /\ AllNeat(ci') /\ ci' \in ClassList /\ DifferAt(ci', re, oc)
                  /\ \/ \A r \in ListOf(re, oc) : r.site # os
                     \/ \E r \in ListOf(re, oc) : r.site = os /\ ListOf(ci', oc) = ListOf(re, oc) \ {r}
                BY <1>11, <4>4, DropSiteLists, DropSiteTakes
            <4>8. PICK r \in ListOf(ci, oc) : r.site = os /\ ListOf(ci', oc) = ListOf(ci, oc) \ {r}
                BY <4>5, <4>6, <4>7
            <4>9. r.iid = pp.iid
                <5>1. Settled(oc)
                    BY <1>5, <4>3
                <5>2. /\ r.iid \in Ids /\ Present(r.iid)
                      /\ <<oc, os>> \in Places(mi[r.iid])
                    BY <4>8, <5>1, ListedFacts
                <5>3. <<oc, os>> \in Places(ee)
                    BY <4>3, SidePlace
                <5> QED
                    BY <1>11, <1>14, <2>1, <5>2, <5>3 DEF Tables, EntriesApart
            <4>10. \A t \in ListOf(ci, oc) : t.iid = pp.iid => t = r
                BY <2>2, <2>4, <4>3, <4>8, <4>9
            <4>11. \A t \in ListOf(ci, cc) : t.iid = pp.iid => t = pp
                BY <1>11, <2>2, <2>4, <4>3
            <4>12. /\ ListOf(ci', cc) = ListOf(ci, cc) \ {pp}
                   /\ \A d \in Classes : d # cc /\ d # oc => ListOf(ci', d) = ListOf(ci, d)
                BY <1>11, <4>3, <4>7 DEF DifferAt, ListOf
            <4>13. \A d \in Classes : \A t \in ListOf(ci, d) : t.iid = pp.iid => d = cc \/ d = oc
                BY <2>2, <4>3
            <4>14. \A d \in Classes :
                     /\ ListOf(ci', d) \subseteq ListOf(ci, d)
                     /\ \A t \in ListOf(ci, d) : t.iid # pp.iid => t \in ListOf(ci', d)
                     /\ \A t \in ListOf(ci', d) : t.iid = pp.iid => t.kind = "exit" /\ d = cc
                <5> TAKE d \in Classes
                <5>1. CASE d = cc
                    BY <4>11, <4>12, <5>1
                <5>2. CASE d = oc
                    BY <4>3, <4>8, <4>9, <4>10, <5>2
                <5>3. CASE d # cc /\ d # oc
                    BY <4>12, <4>13, <5>3
                <5> QED
                    BY <5>1, <5>2, <5>3
            <4> QED
                BY <3>2, <4>7, <4>14
        <3> QED
            BY <3>1, <3>2
    <2>7. mi' = [mi EXCEPT ![pp.iid] = NoEntry] /\ slots' = [slots EXCEPT ![pp.slot] = 0]
        BY <1>3, <1>7, <2>6
    <2>8. \A s \in Slots : slots'[s] = IF slots[s] = pp.iid THEN 0 ELSE slots[s]
        BY <1>1, <2>5, <2>7
    <2>9. slots' \in [Slots -> Ids \cup {0}]
        BY <1>1, <2>7
    <2>10. \A d \in Classes :
             /\ ListOf(ci', d) \subseteq ListOf(ci, d)
             /\ \A q \in ListOf(ci, d) : q.iid # pp.iid /\ Present(q.iid) => q \in ListOf(ci', d)
             /\ \A q \in ListOf(ci', d) : q.iid = pp.iid => q.kind = "exit" /\ ~Settled(d)'
             /\ ~Settled(d) => ~Settled(d)' \/ ListOf(ci', d) = {}
        BY <1>5, <2>6
    <2> QED
        BY <1>11, <1>12, <2>6, <2>7, <2>8, <2>9, <2>10, Leaves
<1> QED
    BY <1>13, <1>14

\* Every step, the JVM's and the stuttering ones included, keeps the tables.
LEMMA NextTables ==
    ASSUME ~SharedLines, IInv, Tables, [Next]_vars
    PROVE  Tables'
<1>1. CASE Request
    <2>1. ASSUME NEW id \in Ids, Deinstrument(id)
          PROVE  Tables'
        <3>1. cur = Idle /\ UNCHANGED cur /\ Present(id)
              /\ (DeinstrumentDeferred(id) \/ DeinstrumentApplied(id))
            BY <2>1 DEF Deinstrument, Present
        <3> QED
            BY <3>1, DeinstrumentDeferredTables, DeinstrumentAppliedTables
    <2> QED
        BY <1>1, <2>1, InstrumentMethodTables, InstrumentLineTables DEF Request
<1>2. CASE HandleClassLoaded
    <2>1. /\ UNCHANGED <<mi, queue, slots>> /\ cur = Idle /\ ci \in ClassList /\ TypeOK
          /\ ci' = [ci EXCEPT ![Head(evq)[1]].loader = Head(evq)[2]]
        BY <1>2 DEF HandleClassLoaded, IInv, TypeOK
    <2>2. \A d \in Classes : ci'[d].probes = ci[d].probes
        BY <2>1 DEF ClassList
    <2>3. \A d \in Classes : ~Settled(d) => ~Settled(d)'
        BY <2>1 DEF Settled, Idle
    <2> QED
        BY <2>1, <2>2, <2>3, TablesKept
<1>7. CASE ForgetClass
    <2>1. UNCHANGED <<mi, queue, slots>> /\ UNCHANGED ci /\ UNCHANGED cur
        BY <1>7 DEF ForgetClass
    <2>2. \A d \in Classes : ~Settled(d) => ~Settled(d)'
        BY <2>1 DEF Settled
    <2> QED
        BY <2>1, <2>2, TablesKept DEF IInv
<1>3. CASE CleanupStep
    BY <1>3, CleanupTables
<1>4. CASE \E q \in queue : DeferredStep(q)
    BY <1>4, DeferredStepTables
<1>5. CASE DeferredDone
    <2>1. UNCHANGED <<mi, queue, slots>> /\ UNCHANGED ci /\ cur.phase = "deferred"
        BY <1>5 DEF DeferredDone
    <2>2. \A d \in Classes : ~Settled(d) => ~Settled(d)'
        BY <2>1 DEF Settled
    <2> QED
        BY <2>1, <2>2, TablesKept DEF IInv
<1>6. CASE JVM \/ UNCHANGED vars
    <2>1. UNCHANGED <<mi, queue, slots>> /\ UNCHANGED ci /\ UNCHANGED cur
        BY <1>6 DEF JVM, LoadHook, Define, vars
    <2>2. \A d \in Classes : ~Settled(d) => ~Settled(d)'
        BY <2>1 DEF Settled
    <2> QED
        BY <2>1, <2>2, TablesKept DEF IInv
<1> QED
    BY <1>1, <1>2, <1>3, <1>4, <1>5, <1>6, <1>7 DEF Next, ClassEvent

\* As long as no two line instruments share a line, the tables hold in every
\* state the agent can reach.
THEOREM TablesHold ==
    ASSUME ~SharedLines
    PROVE  Spec => []Tables
<1>1. IInv /\ Tables /\ IInv' /\ [Next]_vars => Tables'
    BY NextTables
<1> QED
    BY InitTables, IInvHolds, <1>1, PTL DEF Spec

\* No profiler slot leaks and none is lost, whatever fails on the way.
THEOREM SlotsMatchMasterHolds ==
    ASSUME ~SharedLines
    PROVE  Spec => []SlotsMatchMaster
<1>1. Tables => SlotsMatchMaster
    BY DEF Tables
<1> QED
    BY TablesHold, <1>1, PTL

\* The lists that the next rewrite of a class is made from hold exactly the
\* probes of the applied instruments.
THEOREM ListsMatchMasterHolds ==
    ASSUME ~SharedLines
    PROVE  Spec => []ListsMatchMaster
<1>1. Tables => ListsMatchMaster
    <2> SUFFICES ASSUME Tables, NEW c \in Classes, Settled(c)
                 PROVE  /\ \A p \in ListOf(ci, c) : Listed(c, p)
                        /\ \A id \in Ids : Ready(id) =>
                              \A k \in Sides(mi[id]) : SideClass(mi[id], k) = c =>
                                  \E p \in ListOf(ci, c) : p.iid = id /\ p.kind = k
        BY DEF ListsMatchMaster, Listed, ListOf
    <2>1. \A p \in ListOf(ci, c) : Listed(c, p)
        BY DEF Tables, ListsSound
    <2>2. \A id \in Ids : Ready(id) =>
              \A k \in Sides(mi[id]) : SideClass(mi[id], k) = c =>
                  \E p \in ListOf(ci, c) : p.iid = id /\ p.kind = k
        BY DEF Tables, ListsComplete
    <2> QED
        BY <2>1, <2>2
<1> QED
    BY TablesHold, <1>1, PTL

-----------------------------------------------------------------------------
(* What the classes run.  When a class-loaded message is handled only once  *)
(* its class is defined, a rewrite goes to the version the server means.   *)

\* The version of a class that a class list means.
VersionOf(cl, c) == <<c, cl[c].loader>>

\* Every version the server knows is defined.
AllDefined(cl) == \A c \in Classes : cl[c].loader # NoLoader => VersionOf(cl, c) \in defined

\* A rewrite left everything as it was, or gave that version the probes of its
\* class's list.
Rewrote(cd, cl, c, o) ==
    \/ o.ok = FALSE /\ o.code = cd
    \/ /\ o.ok = TRUE /\ o.built = TRUE
       /\ cl[c].loader # NoLoader
       /\ o.code = [cd EXCEPT ![VersionOf(cl, c)] = ListOf(cl, c)]

\* Nothing else happens when the known versions are defined.
LEMMA ApplyRewrites ==
    ASSUME ~Faults, NEW cd \in [Pairs -> SUBSET Probe], NEW cl \in ClassList, AllDefined(cl),
           NEW c \in Classes, NEW o \in Apply(cd, cl, c)
    PROVE  Rewrote(cd, cl, c, o)
<1>1. CASE \E b \in BOOLEAN : o = [built |-> b, ok |-> FALSE, code |-> cd]
    BY <1>1 DEF Rewrote
<1>2. CASE \E d \in Targets(c, cl[c].loader) :
              /\ Matches(cl, c)
              /\ o = [built |-> TRUE, ok |-> TRUE, code |-> [cd EXCEPT ![d] = Elems(cl[c].probes)]]
    <2>1. PICK d \in Targets(c, cl[c].loader) :
              o = [built |-> TRUE, ok |-> TRUE, code |-> [cd EXCEPT ![d] = Elems(cl[c].probes)]]
        BY <1>2
    <2>2. cl[c].loader # NoLoader
        BY <1>2 DEF Matches
    <2>3. d = VersionOf(cl, c)
        BY <2>1, <2>2 DEF AllDefined, Targets, VersionOf
    <2> QED
        BY <2>1, <2>2, <2>3 DEF ListOf, Rewrote
<1>3. \/ \E b \in BOOLEAN : o = [built |-> b, ok |-> FALSE, code |-> cd]
      \/ \E d \in Targets(c, cl[c].loader) :
              /\ Matches(cl, c)
              /\ o = [built |-> TRUE, ok |-> TRUE, code |-> [cd EXCEPT ![d] = Elems(cl[c].probes)]]
    BY Zenon DEF Apply
<1> QED
    BY <1>1, <1>2, <1>3

\* The versions whose bytecode differs are versions of the entry's classes, and
\* run their lists.
RewrittenFor(cd, cl, e, new) ==
    \A p \in Pairs :
        \/ new[p] = cd[p]
        \/ \E d \in {e.cls, e.xcls} : /\ cl[d].loader # NoLoader
                                      /\ p = VersionOf(cl, d)
                                      /\ new[p] = ListOf(cl, d)

\* Both classes of the entry run their lists.
BothRun(cl, e, new) ==
    \A d \in {e.cls, e.xcls} : cl[d].loader # NoLoader /\ new[VersionOf(cl, d)] = ListOf(cl, d)

\* What the rewrites of an instrument's two classes come to.
LEMMA PerformRewrites ==
    ASSUME ~Faults, NEW cd \in [Pairs -> SUBSET Probe], NEW cl \in ClassList, AllDefined(cl),
           NEW e \in Entry, defined \subseteq Pairs,
           NEW o \in Perform(cd, cl, e) \cup Strip(cd, cl, e)
    PROVE  /\ RewrittenFor(cd, cl, e, o.code)
           /\ o \in Perform(cd, cl, e) /\ o.ok => BothRun(cl, e, o.code)
<1>1. e.cls \in Classes /\ e.xcls \in Classes
    BY DEF Entry
<1>2. ASSUME NEW o1 \in Apply(cd, cl, e.cls)
      PROVE  /\ o1.code \in [Pairs -> SUBSET Probe]
             /\ RewrittenFor(cd, cl, e, o1.code)
             /\ o1.ok => /\ cl[e.cls].loader # NoLoader
                         /\ o1.code[VersionOf(cl, e.cls)] = ListOf(cl, e.cls)
    <2>1. o1.code \in [Pairs -> SUBSET Probe]
        BY <1>1, ApplyOK
    <2>2. CASE o1.ok = FALSE /\ o1.code = cd
        BY <2>1, <2>2 DEF RewrittenFor
    <2>3. CASE /\ o1.ok = TRUE /\ cl[e.cls].loader # NoLoader
               /\ o1.code = [cd EXCEPT ![VersionOf(cl, e.cls)] = ListOf(cl, e.cls)]
        <3>1. VersionOf(cl, e.cls) \in Pairs
            BY <1>1, <2>3 DEF AllDefined
        <3> QED
            BY <2>1, <2>3, <3>1 DEF RewrittenFor
    <2>4. Rewrote(cd, cl, e.cls, o1)
        BY <1>1, ApplyRewrites
    <2> QED
        BY <2>2, <2>3, <2>4 DEF Rewrote
<1>3. ASSUME NEW o1 \in Apply(cd, cl, e.cls), e.xcls # e.cls,
             NEW o2 \in Apply(o1.code, cl, e.xcls)
      PROVE  /\ RewrittenFor(cd, cl, e, o2.code)
             /\ o1.ok /\ o2.ok => BothRun(cl, e, o2.code)
    <2>1. /\ o1.code \in [Pairs -> SUBSET Probe]
          /\ RewrittenFor(cd, cl, e, o1.code)
          /\ o1.ok => /\ cl[e.cls].loader # NoLoader
                      /\ o1.code[VersionOf(cl, e.cls)] = ListOf(cl, e.cls)
        BY <1>2
    <2>2. CASE o2.ok = FALSE /\ o2.code = o1.code
        BY <2>1, <2>2
    <2>3. CASE /\ o2.ok = TRUE /\ cl[e.xcls].loader # NoLoader
               /\ o2.code = [o1.code EXCEPT ![VersionOf(cl, e.xcls)] = ListOf(cl, e.xcls)]
        <3>1. VersionOf(cl, e.xcls) \in Pairs
            BY <1>1, <2>3 DEF AllDefined
        <3>2. /\ o2.code[VersionOf(cl, e.xcls)] = ListOf(cl, e.xcls)
              /\ \A p \in Pairs : p # VersionOf(cl, e.xcls) => o2.code[p] = o1.code[p]
            BY <2>1, <2>3, <3>1
        <3>3. RewrittenFor(cd, cl, e, o2.code)
            BY <2>1, <2>3, <3>2 DEF RewrittenFor
        <3>4. o1.ok => BothRun(cl, e, o2.code)
            <4> SUFFICES ASSUME o1.ok PROVE BothRun(cl, e, o2.code)
                OBVIOUS
            <4>1. VersionOf(cl, e.cls) \in Pairs /\ VersionOf(cl, e.cls) # VersionOf(cl, e.xcls)
                BY <1>1, <1>3, <2>1 DEF AllDefined, VersionOf
            <4> QED
                BY <2>1, <2>3, <3>2, <4>1 DEF BothRun
        <3> QED
            BY <3>3, <3>4
    <2>4. Rewrote(o1.code, cl, e.xcls, o2)
        <3>1. o1.code \in [Pairs -> SUBSET Probe]
            BY <2>1
        <3> QED
            BY <1>1, <3>1, ApplyRewrites
    <2> QED
        BY <2>2, <2>3, <2>4 DEF Rewrote
<1>4. CASE o \in Perform(cd, cl, e)
    <2>1. PICK o1 \in Apply(cd, cl, e.cls) :
              o \in IF o1.ok /\ e.xcls # e.cls THEN Apply(o1.code, cl, e.xcls) ELSE {o1}
        BY <1>4 DEF Perform
    <2>2. CASE o1.ok /\ e.xcls # e.cls
        BY <1>3, <2>1, <2>2
    <2>3. CASE ~(o1.ok /\ e.xcls # e.cls)
        <3>1. o = o1
            BY <2>1, <2>3
        <3>2. RewrittenFor(cd, cl, e, o.code)
            BY <1>2, <3>1
        <3>3. o.ok => BothRun(cl, e, o.code)
            BY <1>2, <2>3, <3>1 DEF BothRun
        <3> QED
            BY <3>2, <3>3
    <2> QED
        BY <2>2, <2>3
<1>5. CASE o \in Strip(cd, cl, e) /\ o \notin Perform(cd, cl, e)
    <2>1. PICK o1 \in Apply(cd, cl, e.cls) :
              o \in IF o1.built /\ e.xcls # e.cls THEN Apply(o1.code, cl, e.xcls) ELSE {o1}
        BY <1>5 DEF Strip
    <2> QED
        BY <1>2, <1>3, <1>5, <2>1
<1> QED
    BY <1>4, <1>5

\* Every class the server knows is defined.
KnownDefined == AllDefined(ci)

\* Every side of an applied instrument is in the bytecode its class runs,
\* except where a failed reapply is being cleaned up.
Running ==
    \A id \in Ids : Ready(id) =>
        \A k \in Sides(mi[id]) :
            Settled(SideClass(mi[id], k)) =>
                \E p \in code[VersionOf(ci, SideClass(mi[id], k))] : p.iid = id /\ p.kind = k

\* Nothing is known and nothing is applied at first.
LEMMA InitRuns == Init => KnownDefined /\ Running
BY DEF Init, KnownDefined, AllDefined, Running, Ready, Present

\* The classes of an applied instrument are known.
LEMMA ReadyKnown ==
    ASSUME IInv, NEW id \in Ids, Ready(id), NEW k
    PROVE  SideClass(mi[id], k) \in Classes /\ Known(SideClass(mi[id], k))
<1>1. Present(id) /\ mi[id].deferred = {}
    BY DEF Ready
<1>2. mi[id].cls \in Classes /\ mi[id].xcls \in Classes
    BY <1>1, EntryFields DEF IInv
<1>3. Known(mi[id].cls) /\ (mi[id].xcls # mi[id].cls => Known(mi[id].xcls))
    BY <1>1 DEF IInv, DeferredSides
<1>4. Known(mi[id].xcls)
    <2>1. CASE mi[id].xcls = mi[id].cls
        BY <1>3, <2>1
    <2>2. CASE mi[id].xcls # mi[id].cls
        BY <1>3, <2>2
    <2> QED
        BY <2>1, <2>2
<1> QED
    BY <1>2, <1>3, <1>4 DEF SideClass

\* A class runs its list, and perhaps more.
RunsList(c) == ListOf(ci, c) \subseteq code[VersionOf(ci, c)]

\* A step after which every rewritten version runs its list, and a newly
\* applied instrument is in the lists that run.
LEMMA RunsOn ==
    ASSUME IInv, IInv', Tables', Running,
           \A d \in Classes : ci'[d].loader = ci[d].loader,
           \A p \in Pairs : \/ code'[p] = code[p]
                            \/ \E d \in Classes : p = VersionOf(ci, d) /\ RunsList(d)',
           \A j \in Ids : Ready(j)' =>
              \/ mi'[j] = mi[j]
              \/ \A k \in Sides(mi'[j]) : RunsList(SideClass(mi[j], k))',
           \A d \in Classes : Settled(d)' => Settled(d) \/ ListOf(ci', d) = {}
    PROVE  Running'
<1> SUFFICES ASSUME NEW j \in Ids, Ready(j)', NEW k \in Sides(mi'[j]),
                    Settled(SideClass(mi[j], k))'
             PROVE  \E p \in code'[VersionOf(ci', SideClass(mi'[j], k))] : p.iid = j /\ p.kind = k
    BY DEF Running
<1>1. PICK c : c = SideClass(mi'[j], k)
    OBVIOUS
<1>2. PICK p \in ListOf(ci', c) : p.iid = j /\ p.kind = k
    BY <1>1 DEF Tables, ListsComplete
<1>3. c \in Classes
    <2>1. mi'[j].cls \in Classes /\ mi'[j].xcls \in Classes
        BY DEF IInv, TypeOK, Ready, Present, Entry
    <2> QED
        BY <1>1, <2>1 DEF SideClass
<1>4. CASE \A kk \in Sides(mi'[j]) : RunsList(SideClass(mi[j], kk))'
    BY <1>1, <1>2, <1>4 DEF RunsList
<1>5. CASE mi'[j] = mi[j]
    <2>1. Ready(j) /\ c = SideClass(mi[j], k) /\ k \in Sides(mi[j])
        BY <1>1, <1>5 DEF Ready, Present
    <2>2. Known(c)
        BY <2>1, ReadyKnown
    <2>3. VersionOf(ci, c) \in Pairs /\ VersionOf(ci', c) = VersionOf(ci, c)
        <3>1. ci[c].loader \in Loaders
            BY <1>3, <2>2 DEF Known, IInv, TypeOK, ClassList
        <3> QED
            BY <1>3, <3>1 DEF VersionOf, Pairs
    <2>4. Settled(c)
        BY <1>1, <1>2, <1>3
    <2>5. CASE code'[VersionOf(ci, c)] = code[VersionOf(ci, c)]
        BY <1>1, <2>1, <2>3, <2>4, <2>5 DEF Running
    <2>6. ASSUME NEW d \in Classes, VersionOf(ci, c) = VersionOf(ci, d), RunsList(d)'
          PROVE  \E q \in code'[VersionOf(ci', c)] : q.iid = j /\ q.kind = k
        <3>1. d = c
            BY <2>6 DEF VersionOf
        <3> QED
            BY <1>2, <2>6, <3>1 DEF RunsList
    <2> QED
        BY <1>1, <2>3, <2>5, <2>6
<1> QED
    BY <1>4, <1>5

\* Installing an instrument.
LEMMA InstallRuns ==
    ASSUME ~Faults, IInv, IInv', Tables', KnownDefined, Running,
           NEW id \in Ids, NEW e \in Entry, NEW s \in Slots,
           \A c \in Classes : Settled(c), UNCHANGED defined,
           Install(id, e, s)
    PROVE  KnownDefined' /\ Running'
<1>1. /\ mi \in [Ids -> Entry \cup {NoEntry}] /\ ci \in ClassList
      /\ code \in [Pairs -> SUBSET Probe] /\ defined \subseteq Pairs
      /\ e.cls \in Classes /\ e.xcls \in Classes
    BY DEF IInv, TypeOK, Entry
<1> DEFINE pop == Populate(ci, id, e, s)
<1>2. PICK o \in Perform(code, pop, e) :
          /\ code' = o.code
          /\ ci' = IF o.ok THEN pop ELSE Depopulate(pop, e)
          /\ mi' = [mi EXCEPT ![id] = IF o.ok THEN [e EXCEPT !.deferred = {}] ELSE NoEntry]
    BY DEF Install
<1>3. pop \in ClassList /\ \A d \in Classes : pop[d].loader = ci[d].loader
    BY <1>1, PopulateOK
<1> HIDE DEF pop
<1>4. AllDefined(pop)
    BY <1>3 DEF KnownDefined, AllDefined, VersionOf
<1>5. /\ RewrittenFor(code, pop, e, code')
      /\ o.ok => BothRun(pop, e, code')
    BY <1>1, <1>2, <1>3, <1>4, PerformRewrites
<1>6. \A d \in Classes : /\ ci'[d].loader = pop[d].loader
                         /\ ListOf(ci', d) \subseteq ListOf(pop, d)
    <2>1. \A d \in Classes : /\ Depopulate(pop, e)[d].loader = pop[d].loader
                             /\ Elems(Depopulate(pop, e)[d].probes) \subseteq Elems(pop[d].probes)
        BY <1>3, DepopulateOK
    <2> QED
        BY <1>2, <2>1 DEF ListOf
<1>7. KnownDefined'
    BY <1>3, <1>6 DEF KnownDefined, AllDefined, VersionOf
<1>8. \A d \in Classes : VersionOf(ci', d) = VersionOf(ci, d) /\ VersionOf(pop, d) = VersionOf(ci, d)
    BY <1>3, <1>6 DEF VersionOf
<1>9. \A p \in Pairs : \/ code'[p] = code[p]
                       \/ \E d \in Classes : p = VersionOf(ci, d) /\ RunsList(d)'
    BY <1>1, <1>5, <1>6, <1>8 DEF RewrittenFor, RunsList
<1>10. \A j \in Ids : Ready(j)' =>
          \/ mi'[j] = mi[j]
          \/ \A k \in Sides(mi'[j]) : RunsList(SideClass(mi[j], k))'
    <2> SUFFICES ASSUME NEW j \in Ids, Ready(j)', mi'[j] # mi[j], NEW k \in Sides(mi'[j])
                 PROVE  RunsList(SideClass(mi[j], k))'
        OBVIOUS
    <2>1. j = id /\ o.ok
        BY <1>1, <1>2 DEF Ready, Present
    <2>2. mi'[j].cls = e.cls /\ mi'[j].xcls = e.xcls
        BY <1>1, <1>2, <2>1 DEF Entry
    <2>3. SideClass(mi'[j], k) \in {e.cls, e.xcls}
        BY <2>2 DEF SideClass
    <2>4. BothRun(pop, e, code')
        BY <1>5, <2>1
    <2> QED
        BY <1>1, <1>6, <1>8, <2>3, <2>4 DEF BothRun, RunsList
<1>11. \A d \in Classes : ci'[d].loader = ci[d].loader
    BY <1>3, <1>6
<1> QED
    BY <1>7, <1>9, <1>10, <1>11, RunsOn

\* A step that rewrites nothing and applies nothing.
LEMMA RunsStill ==
    ASSUME IInv, IInv', Tables', KnownDefined, Running,
           UNCHANGED <<ci, code>>, defined \subseteq defined',
           \A j \in Ids : Ready(j)' => mi'[j] = mi[j],
           \A d \in Classes : Settled(d)' => Settled(d) \/ ListOf(ci', d) = {}
    PROVE  KnownDefined' /\ Running'
<1>1. KnownDefined'
    BY DEF KnownDefined, AllDefined, VersionOf
<1>2. Running'
    BY RunsOn
<1> QED
    BY <1>1, <1>2

\* A request for a new instrument, or for the removal of one.
LEMMA RequestRuns ==
    ASSUME ~Faults, IInv, IInv', Tables', KnownDefined, Running, Request
    PROVE  KnownDefined' /\ Running'
<1>1. /\ mi \in [Ids -> Entry \cup {NoEntry}] /\ ci \in ClassList
      /\ code \in [Pairs -> SUBSET Probe] /\ defined \subseteq Pairs
    BY DEF IInv, TypeOK
<1>2. ASSUME NEW e \in Entry, Instrument(e), e.deferred = Sides(e)
      PROVE  KnownDefined' /\ Running'
    <2>1. cur = Idle /\ nextId \in Ids /\ UNCHANGED cur /\ UNCHANGED defined
        BY <1>2 DEF Instrument
    <2>2. \A c \in Classes : Settled(c)
        BY <2>1 DEF Settled, Idle
    <2>3. CASE InstrumentRefused
        BY <2>1, <2>2, <2>3, RunsStill DEF InstrumentRefused
    <2>4. ASSUME NEW s \in Slots, InstrumentNow(e, s)
          PROVE  KnownDefined' /\ Running'
        <3>1. Install(nextId, e, s)
            BY <2>4 DEF InstrumentNow
        <3> QED
            BY <2>1, <2>2, <3>1, InstallRuns
    <2>5. ASSUME NEW s \in Slots, InstrumentLater(e, s)
          PROVE  KnownDefined' /\ Running'
        <3>1. /\ UNCHANGED <<ci, code>>
              /\ ~(Known(e.cls) /\ Known(e.xcls))
              /\ mi' = [mi EXCEPT ![nextId] = [e EXCEPT !.deferred = Waiting(e)]]
            BY <2>5 DEF InstrumentLater
        <3>2. PICK id \in Ids : id = nextId
            BY <2>1
        <3>3. ~Ready(id)'
            <4> SUFFICES ASSUME Ready(id)' PROVE FALSE
                OBVIOUS
            <4>1. mi'[id].cls = e.cls /\ mi'[id].xcls = e.xcls
                BY <1>1, <3>1, <3>2 DEF Entry
            <4>2. mi'[id].deferred = {} /\ Present(id)'
                BY DEF Ready
            <4>3. /\ Known(mi[id].cls)'
                  /\ mi'[id].xcls # mi'[id].cls => Known(mi[id].xcls)'
                BY <4>2 DEF IInv, DeferredSides
            <4>4. Known(e.cls) /\ (e.xcls # e.cls => Known(e.xcls))
                BY <3>1, <4>1, <4>3 DEF Known
            <4>5. CASE e.xcls = e.cls
                BY <3>1, <4>4, <4>5
            <4>6. CASE e.xcls # e.cls
                BY <3>1, <4>4, <4>6
            <4> QED
                BY <4>5, <4>6
        <3>4. \A j \in Ids : Ready(j)' => mi'[j] = mi[j]
            BY <1>1, <3>1, <3>2, <3>3
        <3> QED
            BY <2>1, <2>2, <3>1, <3>4, RunsStill
    <2> QED
        BY <1>2, <2>3, <2>4, <2>5 DEF Instrument
<1>3. ASSUME NEW id \in Ids, Deinstrument(id)
      PROVE  KnownDefined' /\ Running'
    <2>1. cur = Idle /\ UNCHANGED cur /\ UNCHANGED defined /\ Present(id)
          /\ (DeinstrumentDeferred(id) \/ DeinstrumentApplied(id))
        BY <1>3 DEF Deinstrument, Present
    <2>2. \A c \in Classes : Settled(c)
        BY <2>1 DEF Settled, Idle
    <2>3. mi' = [mi EXCEPT ![id] = NoEntry]
        BY <2>1 DEF DeinstrumentDeferred, DeinstrumentApplied
    <2>4. \A j \in Ids : Ready(j)' => mi'[j] = mi[j]
        BY <1>1, <2>3 DEF Ready, Present
    <2>5. CASE DeinstrumentDeferred(id)
        BY <2>1, <2>2, <2>4, <2>5, RunsStill DEF DeinstrumentDeferred
    <2>6. CASE DeinstrumentApplied(id)
        <3> DEFINE e == mi[id]
                   cl == Depopulate(ci, e)
        <3>1. PICK o \in Strip(code, cl, e) : code' = o.code
            BY <2>6 DEF DeinstrumentApplied
        <3>2. ci' = cl
            BY <2>6 DEF DeinstrumentApplied
        <3>3. e \in Entry /\ e.cls \in Classes /\ e.xcls \in Classes
            BY <2>1, EntryFields DEF IInv
        <3> HIDE DEF e
        <3>4. cl \in ClassList /\ \A d \in Classes : cl[d].loader = ci[d].loader
            BY <1>1, <3>3, DepopulateOK
        <3> HIDE DEF cl
        <3>5. AllDefined(cl)
            BY <3>4 DEF KnownDefined, AllDefined, VersionOf
        <3>6. RewrittenFor(code, cl, e, code')
            BY <1>1, <3>1, <3>3, <3>4, <3>5, PerformRewrites
        <3>7. \A p \in Pairs : \/ code'[p] = code[p]
                               \/ \E d \in Classes : p = VersionOf(ci, d) /\ RunsList(d)'
            BY <3>2, <3>3, <3>4, <3>6 DEF RewrittenFor, RunsList, VersionOf
        <3>8. KnownDefined'
            BY <2>1, <3>2, <3>4 DEF KnownDefined, AllDefined, VersionOf
        <3>9. \A d \in Classes : ci'[d].loader = ci[d].loader
            BY <3>2, <3>4
        <3> QED
            BY <2>2, <2>4, <3>7, <3>8, <3>9, RunsOn
    <2> QED
        BY <2>1, <2>5, <2>6
<1>4. ASSUME NEW c \in Classes, NEW m \in Methods, InstrumentMethod(c, m)
      PROVE  KnownDefined' /\ Running'
    <2> DEFINE e == MethodEntry(c, m)
    <2>1. e \in Entry /\ e.deferred = Sides(e)
        BY DEF MethodEntry, Entry, Sides, Sites, Kinds
    <2>2. Instrument(e)
        BY <1>4 DEF InstrumentMethod
    <2> HIDE DEF e
    <2> QED
        BY <1>2, <2>1, <2>2
<1>5. ASSUME NEW c \in Classes, NEW x \in Classes, NEW n \in Lines, NEW k \in Lines,
             InstrumentLine(c, n, x, k)
      PROVE  KnownDefined' /\ Running'
    <2> DEFINE e == LineEntry(c, n, x, k)
    <2>1. e \in Entry /\ e.deferred = Sides(e)
        BY DEF LineEntry, Entry, Sides, Sites, Kinds
    <2>2. Instrument(e)
        BY <1>5 DEF InstrumentLine
    <2> HIDE DEF e
    <2> QED
        BY <1>2, <2>1, <2>2
<1> QED
    BY <1>3, <1>4, <1>5 DEF Request

\* A class is loaded: the version that counts from now on runs what the list
\* says, or its list is going to be cleaned up.
LEMMA HandleClassLoadedRuns ==
    ASSUME ~Faults, IInv, IInv', Tables, Tables', KnownDefined, Running, HandleClassLoaded,
           Head(evq) \in defined
    PROVE  KnownDefined' /\ Running'
<1> DEFINE c  == Head(evq)[1]
           l  == Head(evq)[2]
           cl == [ci EXCEPT ![c].loader = l]
<1>1. /\ cur = Idle /\ ci \in ClassList /\ code \in [Pairs -> SUBSET Probe]
      /\ defined \subseteq Pairs
    BY DEF IInv, TypeOK, HandleClassLoaded
<1>2. ci' = cl /\ UNCHANGED <<mi, slots, defined>>
    BY DEF HandleClassLoaded
<1>3. c \in Classes /\ l \in Loaders /\ Head(evq) = <<c, l>>
    BY <1>1, <1>2 DEF Pairs
<1>4. \/ /\ ci[c].probes = <<>>
         /\ code' = code
      \/ \E o \in Apply(code, cl, c) :
            /\ code' = o.code
            /\ cur' = [phase |-> IF o.ok THEN "deferred" ELSE "cleanup", cls |-> c]
    BY DEF HandleClassLoaded
<1>5. PICK cc \in Classes, ll \in Loaders : cc = c /\ ll = l
    BY <1>3
<1>6. PICK k1 : k1 = cl
    OBVIOUS
<1>7. /\ k1 \in ClassList /\ k1[cc].loader = ll
      /\ \A d \in Classes : /\ k1[d].probes = ci[d].probes
                            /\ d # cc => k1[d].loader = ci[d].loader
    BY <1>1, <1>5, <1>6 DEF ClassList
<1> HIDE DEF c, l, cl
<1>8. ci' = k1 /\ <<cc, ll>> \in defined /\ <<cc, ll>> \in Pairs
    BY <1>1, <1>2, <1>3, <1>5, <1>6
<1>9. AllDefined(k1)
    BY <1>7, <1>8 DEF KnownDefined, AllDefined, VersionOf
<1>10. KnownDefined'
    BY <1>2, <1>8, <1>9 DEF KnownDefined, AllDefined
<1>11. \/ /\ ListOf(ci', cc) = {} /\ code' = code
       \/ ~Settled(cc)' /\ code' = code
       \/ code' = [code EXCEPT ![<<cc, ll>>] = ListOf(ci', cc)]
    <2>1. CASE ci[cc].probes = <<>> /\ code' = code
        BY <1>7, <1>8, <2>1 DEF ListOf, Elems
    <2>2. ASSUME NEW o \in Apply(code, k1, cc), code' = o.code,
                 cur' = [phase |-> IF o.ok THEN "deferred" ELSE "cleanup", cls |-> cc]
          PROVE  \/ ~Settled(cc)' /\ code' = code
                 \/ code' = [code EXCEPT ![<<cc, ll>>] = ListOf(ci', cc)]
        <3>1. Rewrote(code, k1, cc, o)
            BY <1>1, <1>7, <1>9, ApplyRewrites
        <3> QED
            BY <1>7, <1>8, <2>2, <3>1 DEF Rewrote, VersionOf, Settled
    <2> QED
        BY <1>4, <1>5, <1>6, <2>1, <2>2
<1>12. Running'
    <2> SUFFICES ASSUME NEW j \in Ids, Ready(j), NEW k \in Sides(mi[j]),
                        Settled(SideClass(mi[j], k))'
                 PROVE  \E p \in code'[VersionOf(ci', SideClass(mi[j], k))] : p.iid = j /\ p.kind = k
        BY <1>2 DEF Running, Ready, Present
    <2>1. PICK d \in Classes : d = SideClass(mi[j], k)
        BY ReadyKnown
    <2>2. Known(d)
        BY <2>1, ReadyKnown
    <2>3. PICK p \in ListOf(ci, d) : p.iid = j /\ p.kind = k
        BY <2>1 DEF Tables, ListsComplete
    <2>4. p \in ListOf(ci', d)
        BY <1>7, <1>8, <2>3 DEF ListOf
    <2>5. Settled(d)' /\ Settled(d)
        BY <1>1, <1>2, <2>1 DEF Settled, Idle
    <2>6. CASE d = cc
        <3>1. code' = [code EXCEPT ![<<cc, ll>>] = ListOf(ci', cc)]
            BY <1>11, <2>4, <2>5, <2>6
        <3>2. code'[<<cc, ll>>] = ListOf(ci', cc)
            BY <1>1, <1>8, <3>1
        <3> QED
            BY <1>7, <1>8, <2>1, <2>3, <2>4, <2>6, <3>2 DEF VersionOf
    <2>7. CASE d # cc
        <3>1. VersionOf(ci', d) = VersionOf(ci, d) /\ VersionOf(ci, d) # <<cc, ll>>
            BY <1>7, <1>8, <2>7 DEF VersionOf
        <3>2. VersionOf(ci, d) \in Pairs
            <4>1. ci[d].loader \in Loaders
                BY <2>2 DEF Known, IInv, TypeOK, ClassList
            <4> QED
                BY <4>1 DEF VersionOf, Pairs
        <3>3. code'[VersionOf(ci, d)] = code[VersionOf(ci, d)]
            BY <1>1, <1>11, <3>1, <3>2
        <3>4. \E q \in code[VersionOf(ci, d)] : q.iid = j /\ q.kind = k
            BY <2>1, <2>5 DEF Running
        <3> QED
            BY <2>1, <3>1, <3>3, <3>4
    <2> QED
        BY <2>6, <2>7
<1> QED
    BY <1>10, <1>12

\* One iteration of the clean-up: the other class of a line is rewritten from
\* its list, which no longer has the line.
LEMMA CleanupRuns ==
    ASSUME ~Faults, IInv, IInv', Tables', KnownDefined, Running, CleanupStep
    PROVE  KnownDefined' /\ Running'
<1> DEFINE c     == cur.cls
           p     == Head(ci[c].probes)
           e     == mi[p.iid]
           rest  == [ci EXCEPT ![c].probes = Tail(@)]
           other == IF p.kind = "enter" THEN e.xcls ELSE e.cls
           osite == IF p.kind = "enter" THEN e.xsite ELSE e.site
           cl    == DropSite(rest, other, osite)
<1>1. /\ cur.phase = "cleanup" /\ cur \in [phase : {"cleanup", "deferred"}, cls : Classes]
      /\ ci \in ClassList /\ code \in [Pairs -> SUBSET Probe] /\ defined \subseteq Pairs
      /\ mi \in [Ids -> Entry \cup {NoEntry}]
    <2>1. cur.phase = "cleanup"
        BY DEF CleanupStep
    <2> QED
        BY <2>1 DEF IInv, TypeOK, Idle
<1>2. c \in Classes /\ ci[c].probes \in Seq(Probe) /\ ci[c].probes # <<>>
    <2>1. ci[c].probes # <<>>
        BY DEF CleanupStep
    <2> QED
        BY <1>1, <2>1 DEF ClassList
<1>3. /\ UNCHANGED defined
      /\ mi' = mi \/ mi' = [mi EXCEPT ![p.iid] = NoEntry]
      /\ \/ ci' = rest /\ code' = code
         \/ /\ e # NoEntry
            /\ ci' = cl
            /\ \E o \in Apply(code, cl, other) : code' = o.code
      /\ cur' = IF ci'[c].probes = <<>> THEN [cur EXCEPT !.phase = "deferred"] ELSE cur
    <2> USE DEF CleanupStep
    <2>1. UNCHANGED defined /\ (mi' = mi \/ mi' = [mi EXCEPT ![p.iid] = NoEntry])
        OBVIOUS
    <2>2. \/ ci' = rest /\ code' = code
          \/ /\ e # NoEntry
             /\ ci' = cl
             /\ \E o \in Apply(code, cl, other) : code' = o.code
        OBVIOUS
    <2>3. cur' = IF ci'[c].probes = <<>> THEN [cur EXCEPT !.phase = "deferred"] ELSE cur
        OBVIOUS
    <2> QED
        BY <2>1, <2>2, <2>3
<1>4. p.iid \in Ids
    <2>1. p \in Probe
        BY <1>2
    <2> QED
        BY <2>1 DEF Probe
<1>5. rest \in ClassList /\ \A d \in Classes : rest[d].loader = ci[d].loader
    <2>1. Tail(ci[c].probes) \in Seq(Probe)
        BY <1>2
    <2> QED
        BY <1>1, <1>2, <2>1, ZenonT(40) DEF ClassList
<1>6. PICK cc \in Classes : cc = c
    BY <1>2
<1> HIDE DEF rest, p, c, other, osite
<1>7. /\ \A d \in Classes : ci'[d].loader = ci[d].loader
      /\ \A v \in Pairs : \/ code'[v] = code[v]
                          \/ \E d \in Classes : v = VersionOf(ci, d) /\ RunsList(d)'
    <2>1. CASE ci' = rest /\ code' = code
        BY <1>5, <2>1
    <2>2. CASE e # NoEntry /\ ci' = cl /\ \E o \in Apply(code, cl, other) : code' = o.code
        <3>1. other \in Classes
            BY <1>1, <1>4, <2>2 DEF other, Entry
        <3>2. cl \in ClassList /\ \A d \in Classes : cl[d].loader = ci[d].loader
            BY <1>5, <3>1, DropSiteOK
        <3> HIDE DEF cl
        <3>3. AllDefined(cl)
            BY <3>2 DEF KnownDefined, AllDefined, VersionOf
        <3>4. PICK o \in Apply(code, cl, other) : code' = o.code
            BY <2>2
        <3>5. Rewrote(code, cl, other, o)
            BY <1>1, <3>1, <3>2, <3>3, ApplyRewrites
        <3>6. CASE o.code = code
            BY <2>2, <3>2, <3>4, <3>6
        <3>7. CASE /\ cl[other].loader # NoLoader
                   /\ o.code = [code EXCEPT ![VersionOf(cl, other)] = ListOf(cl, other)]
            <4>1. VersionOf(cl, other) \in Pairs /\ VersionOf(cl, other) = VersionOf(ci, other)
                BY <1>1, <3>1, <3>2, <3>3, <3>7 DEF AllDefined, VersionOf
            <4>2. code'[VersionOf(ci, other)] = ListOf(ci', other)
                BY <1>1, <2>2, <3>4, <3>7, <4>1
            <4>3. VersionOf(ci', other) = VersionOf(ci, other)
                BY <2>2, <3>1, <3>2 DEF VersionOf
            <4>4. PICK oo \in Classes : oo = other
                BY <3>1
            <4>5. RunsList(oo)'
                BY <4>2, <4>3, <4>4 DEF RunsList
            <4>6. \A v \in Pairs : v # VersionOf(ci, other) => code'[v] = code[v]
                BY <1>1, <3>4, <3>7, <4>1
            <4> QED
                BY <2>2, <3>2, <4>4, <4>5, <4>6
        <3> QED
            BY <3>5, <3>6, <3>7 DEF Rewrote
    <2> QED
        BY <1>3, <2>1, <2>2
<1>8. KnownDefined'
    BY <1>3, <1>7 DEF KnownDefined, AllDefined, VersionOf
<1>9. \A j \in Ids : Ready(j)' => mi'[j] = mi[j]
    BY <1>1, <1>3, <1>4 DEF Ready, Present
<1>10. \A d \in Classes : Settled(d)' => Settled(d) \/ ListOf(ci', d) = {}
    <2>1. CASE ci'[cc].probes = <<>>
        <3>1. ListOf(ci', cc) = {}
            BY <2>1 DEF ListOf, Elems
        <3> QED
            BY <1>6, <3>1 DEF Settled, c
    <2>2. CASE ci'[cc].probes # <<>>
        BY <1>3, <1>6, <2>2 DEF Settled
    <2> QED
        BY <2>1, <2>2
<1> QED
    BY <1>7, <1>8, <1>9, <1>10, RunsOn

\* A queued side gets its turn.
LEMMA DeferredRuns ==
    ASSUME ~Faults, IInv, IInv', Tables', KnownDefined, Running, NEW q \in queue, DeferredStep(q)
    PROVE  KnownDefined' /\ Running'
<1> DEFINE id == q.iid
           e  == [mi[id] EXCEPT !.deferred = @ \ {q.kind}]
<1>1. /\ TypeOK /\ q \in Queued /\ id \in Ids /\ q.slot \in Slots
      /\ mi \in [Ids -> Entry \cup {NoEntry}]
    BY DEF IInv, TypeOK, Queued
<1>2. Present(id)
    BY DEF IInv, QueueMatchesMaster
<1>3. mi[id] \in Entry
    BY <1>1, <1>2, EntryFields
<1>4. e \in Entry
    BY <1>3 DEF Entry
<1>5. cur.phase = "deferred" /\ UNCHANGED cur /\ UNCHANGED defined
    BY DEF DeferredStep
<1>6. \/ /\ e.deferred # {}
         /\ mi' = [mi EXCEPT ![id] = e]
         /\ UNCHANGED <<ci, code>>
      \/ Install(id, e, q.slot)
    BY DEF DeferredStep
<1> HIDE DEF id, e
<1>7. \A c \in Classes : Settled(c)
    BY <1>5 DEF Settled
<1>8. CASE e.deferred # {} /\ mi' = [mi EXCEPT ![id] = e] /\ UNCHANGED <<ci, code>>
    <2>1. \A j \in Ids : Ready(j)' => mi'[j] = mi[j]
        BY <1>1, <1>8 DEF Ready
    <2> QED
        BY <1>5, <1>7, <1>8, <2>1, RunsStill
<1>9. CASE Install(id, e, q.slot)
    BY <1>1, <1>4, <1>5, <1>7, <1>9, InstallRuns
<1> QED
    BY <1>6, <1>8, <1>9

\* Every step keeps what runs.
LEMMA NextRuns ==
    ASSUME ~Faults, IInv, IInv', Tables, Tables', KnownDefined, Running, [Next]_vars, early' = {}
    PROVE  KnownDefined' /\ Running'
<1>1. CASE Request
    BY <1>1, RequestRuns
<1>2. CASE HandleClassLoaded
    <2>1. Head(evq) \in defined
        BY <1>2 DEF HandleClassLoaded
    <2> QED
        BY <1>2, <2>1, HandleClassLoadedRuns
<1>3. CASE CleanupStep
    BY <1>3, CleanupRuns
<1>4. CASE \E q \in queue : DeferredStep(q)
    BY <1>4, DeferredRuns
<1>5. CASE DeferredDone
    <2>1. UNCHANGED <<ci, code>> /\ UNCHANGED mi /\ UNCHANGED defined /\ cur.phase = "deferred"
        BY <1>5 DEF DeferredDone
    <2>2. \A d \in Classes : Settled(d)
        BY <2>1 DEF Settled
    <2> QED
        BY <2>1, <2>2, RunsStill
<1>6. CASE JVM \/ UNCHANGED vars
    <2>1. UNCHANGED <<ci, code>> /\ UNCHANGED mi /\ UNCHANGED cur /\ defined \subseteq defined'
        BY <1>6 DEF JVM, LoadHook, Define, vars
    <2>2. \A d \in Classes : Settled(d)' => Settled(d)
        BY <2>1 DEF Settled
    <2> QED
        BY <2>1, <2>2, RunsStill
<1> QED
    BY <1>1, <1>2, <1>3, <1>4, <1>5, <1>6 DEF Next, ClassEvent, ForgetClass

\* A version handled before it was defined is remembered.
LEMMA EarlyStays ==
    ASSUME [Next]_vars, early' = {}
    PROVE  early = {}
<1>1. CASE Request
    BY <1>1 DEF Request, InstrumentMethod, InstrumentLine, Instrument, Deinstrument
<1>2. CASE ClassEvent
    BY <1>2 DEF ClassEvent, HandleClassLoaded, ForgetClass, CleanupStep, DeferredStep, DeferredDone
<1>3. CASE JVM \/ UNCHANGED vars
    BY <1>3 DEF JVM, LoadHook, Define, vars
<1> QED
    BY <1>1, <1>2, <1>3 DEF Next

\* As long as no class was handled too early, the known versions are defined
\* and run what is applied.
Runs == NoneEarly => KnownDefined /\ Running

\* Every step keeps it so.
LEMMA NextKeepsRuns ==
    ASSUME ~Faults, IInv, IInv', Tables, Tables', Runs, [Next]_vars
    PROVE  Runs'
BY EarlyStays, NextRuns DEF Runs, NoneEarly

\* An applied instrument really runs, in the version of its class that the
\* server means, whatever bytecode later versions have, when no two lines are
\* shared, no call fails and no class-loaded message overtakes the definition
\* of its class.
THEOREM AppliedIsRunningHolds ==
    ASSUME ~SharedLines, ~Faults
    PROVE  Spec => []AppliedIsRunning
<1>1. Init => Runs
    BY InitRuns DEF Runs
<1>2. IInv /\ IInv' /\ Tables /\ Tables' /\ Runs /\ [Next]_vars => Runs'
    BY NextKeepsRuns
<1>3. Runs => AppliedIsRunning
    BY DEF Runs, Running, AppliedIsRunning, Settled, VersionOf
<1> QED
    BY IInvHolds, TablesHold, <1>1, <1>2, <1>3, PTL DEF Spec

-----------------------------------------------------------------------------
(* The environment in which nothing fails: no call does, and every version   *)
(* of every class has every site.                                           *)

NothingFails == ~Faults /\ Complete

\* Then every rewrite of a class whose known version is defined succeeds.
LEMMA AlwaysApplies ==
    ASSUME NothingFails, NEW cd, NEW cl \in ClassList, NEW c \in Classes,
           cl[c].loader # NoLoader, VersionOf(cl, c) \in defined, NEW o \in Apply(cd, cl, c)
    PROVE  o.ok = TRUE /\ o.built = TRUE
<1>1. cl[c].loader \in Loaders /\ <<c, cl[c].loader>> \in Pairs /\ cl[c].probes \in Seq(Probe)
    BY DEF ClassList, Pairs
<1>2. Matches(cl, c)
    <2>1. \A p \in Elems(cl[c].probes) : p.site \in Sites
        <3>1. \A p \in Elems(cl[c].probes) : p \in Probe
            BY <1>1 DEF Elems
        <3> QED
            BY <3>1 DEF Probe
    <2> QED
        BY <1>1, <2>1 DEF Matches, NothingFails, Complete
<1>3. Targets(c, cl[c].loader) # {}
    BY DEF VersionOf, Targets
<1>4. \/ \E b \in {x \in BOOLEAN : IF x THEN Matches(cl, c) /\ (Faults \/ Targets(c, cl[c].loader) = {})
                                        ELSE Faults \/ ~Matches(cl, c)} :
             o = [built |-> b, ok |-> FALSE, code |-> cd]
      \/ \E d \in Targets(c, cl[c].loader) :
             o = [built |-> TRUE, ok |-> TRUE, code |-> [cd EXCEPT ![d] = Elems(cl[c].probes)]]
      \/ \E d \in Targets(c, cl[c].loader) :
             o = [built |-> TRUE, ok |-> TRUE, code |-> [cd EXCEPT ![d] = {}]]
    BY Zenon DEF Apply
<1>5. ~Faults
    BY DEF NothingFails
<1>6. CASE \E d \in Targets(c, cl[c].loader) :
             o = [built |-> TRUE, ok |-> TRUE, code |-> [cd EXCEPT ![d] = Elems(cl[c].probes)]]
    BY <1>6
<1>7. CASE \E d \in Targets(c, cl[c].loader) :
             o = [built |-> TRUE, ok |-> TRUE, code |-> [cd EXCEPT ![d] = {}]]
    BY <1>7
<1> QED
    BY <1>2, <1>3, <1>4, <1>5, <1>6, <1>7, SMTT(20)

\* And so do the rewrites of an instrument's two classes; removing a line goes
\* through the same two.
LEMMA AlwaysPerforms ==
    ASSUME NothingFails, NEW cd \in [Pairs -> SUBSET Probe], NEW cl \in ClassList,
           NEW e \in Entry, cl[e.cls].loader # NoLoader, cl[e.xcls].loader # NoLoader,
           VersionOf(cl, e.cls) \in defined, VersionOf(cl, e.xcls) \in defined,
           NEW o \in Perform(cd, cl, e) \cup Strip(cd, cl, e)
    PROVE  o.ok = TRUE /\ o \in Perform(cd, cl, e)
<1>1. e.cls \in Classes /\ e.xcls \in Classes
    BY DEF Entry
<1>2. \A o1 \in Apply(cd, cl, e.cls) : o1.ok = TRUE /\ o1.built = TRUE
    BY <1>1, AlwaysApplies
<1>3. Strip(cd, cl, e) = Perform(cd, cl, e)
    BY <1>2, Zenon DEF Strip, Perform
<1>4. PICK o1 \in Apply(cd, cl, e.cls) : o = o1 \/ o \in Apply(o1.code, cl, e.xcls)
    BY <1>3 DEF Perform
<1>5. o.ok = TRUE
    <2>1. CASE o = o1
        BY <1>2, <2>1
    <2>2. CASE o \in Apply(o1.code, cl, e.xcls)
        BY <1>1, <2>2, AlwaysApplies
    <2> QED
        BY <1>4, <2>1, <2>2
<1> QED
    BY <1>3, <1>5

\* So both classes run their lists, when every known version is defined.
LEMMA AlwaysRewrites ==
    ASSUME NothingFails, NEW cd \in [Pairs -> SUBSET Probe], NEW cl \in ClassList, AllDefined(cl),
           NEW e \in Entry, cl[e.cls].loader # NoLoader, cl[e.xcls].loader # NoLoader,
           defined \subseteq Pairs,
           NEW o \in Perform(cd, cl, e) \cup Strip(cd, cl, e)
    PROVE  /\ o.ok = TRUE
           /\ RewrittenFor(cd, cl, e, o.code)
           /\ BothRun(cl, e, o.code)
<1>1. e.cls \in Classes /\ e.xcls \in Classes
    BY DEF Entry
<1>2. VersionOf(cl, e.cls) \in defined /\ VersionOf(cl, e.xcls) \in defined
    BY <1>1 DEF AllDefined
<1>3. o.ok = TRUE /\ o \in Perform(cd, cl, e)
    BY <1>2, AlwaysPerforms
<1>4. ~Faults
    BY DEF NothingFails
<1> QED
    BY <1>3, <1>4, PerformRewrites

\* Classes an entry does not name keep their lists when it is listed.
LEMMA ListedElsewhere ==
    ASSUME NEW cl \in ClassList, NEW id \in Ids, NEW e \in Entry, NEW s \in Slots,
           NEW d \in Classes, d # e.cls, d # e.xcls
    PROVE  ListOf(Populate(cl, id, e, s), d) = ListOf(cl, d)
<1>1. /\ ListOf(cl, d) \subseteq ListOf(Populate(cl, id, e, s), d)
      /\ \A p \in ListOf(Populate(cl, id, e, s), d) :
            \/ p \in ListOf(cl, d)
            \/ \E k \in Sides(e) : SideClass(e, k) = d /\ p = ProbeOf(id, e, s, k)
    BY PopulateLists
<1>2. \A k : SideClass(e, k) # d
    BY DEF SideClass
<1> QED
    BY <1>1, <1>2

\* The same when it is taken out of the lists.
LEMMA DroppedElsewhere ==
    ASSUME NEW cl \in ClassList, NEW e \in Entry, NEW d \in Classes, d # e.cls, d # e.xcls
    PROVE  ListOf(Depopulate(cl, e), d) = ListOf(cl, d)
<1> DEFINE mid == DropSite(cl, e.cls, e.site)
           new == DropSite(mid, e.xcls, e.xsite)
<1>1. e.cls \in Classes /\ e.xcls \in Classes
    BY DEF Entry
<1>2. mid \in ClassList /\ mid[d].probes = cl[d].probes
    BY <1>1, DropSiteLists DEF DifferAt
<1>3. Depopulate(cl, e) = mid \/ Depopulate(cl, e) = new
    BY DEF Depopulate
<1> HIDE DEF mid
<1>4. new[d].probes = mid[d].probes
    BY <1>1, <1>2, DropSiteLists DEF DifferAt
<1> QED
    BY <1>2, <1>3, <1>4 DEF ListOf

\* The class-loaded message of a version has not been handled.
Pending(p) == p \notin hooked \/ \E i \in DOMAIN evq : evq[i] = p

\* A class version is announced once.
EventsApart ==
    /\ \A i, j \in DOMAIN evq : evq[i] = evq[j] => i = j
    /\ \A i \in DOMAIN evq : evq[i] \in hooked

\* The version of a class that the server means runs the class's list, no more
\* and no less, and a version it has not heard of runs no probe.
Exact ==
    /\ cur.phase # "cleanup"
    /\ EventsApart
    /\ \A p \in Pairs : Pending(p) => code[p] = {}
    /\ \A c \in Classes : Known(c) => /\ ~Pending(VersionOf(ci, c))
                                      /\ code[VersionOf(ci, c)] = ListOf(ci, c)

\* No class is known and no bytecode instrumented at first.
LEMMA InitExact == Init => Exact
BY DEF Init, Exact, EventsApart, Known, Idle

\* A step after which every known version runs its list.
LEMMA ExactOn ==
    ASSUME Exact,
           \A d \in Classes : ci'[d].loader = ci[d].loader,
           \A p \in Pairs : \/ code'[p] = code[p]
                            \/ \E d \in Classes : Known(d) /\ p = VersionOf(ci, d),
           \A d \in Classes : Known(d) => code'[VersionOf(ci, d)] = ListOf(ci', d),
           UNCHANGED <<evq, hooked>>,
           cur'.phase # "cleanup"
    PROVE  Exact'
<1>1. \A p : Pending(p)' <=> Pending(p)
    BY DEF Pending
<1>2. EventsApart'
    BY DEF Exact, EventsApart
<1>3. \A p \in Pairs : Pending(p) => code'[p] = {}
    BY DEF Exact
<1>4. \A c \in Classes : Known(c)' => /\ ~Pending(VersionOf(ci', c))
                                      /\ code'[VersionOf(ci', c)] = ListOf(ci', c)
    <2> SUFFICES ASSUME NEW c \in Classes, Known(c)'
                 PROVE  /\ ~Pending(VersionOf(ci', c))
                        /\ code'[VersionOf(ci', c)] = ListOf(ci', c)
        OBVIOUS
    <2>1. Known(c) /\ VersionOf(ci', c) = VersionOf(ci, c)
        BY DEF Known, VersionOf
    <2> QED
        BY <2>1 DEF Exact
<1>5. \A c \in Classes : Known(c)' => /\ ~Pending(VersionOf(ci, c))'
                                      /\ code'[VersionOf(ci', c)] = ListOf(ci', c)
    <2> SUFFICES ASSUME NEW c \in Classes, Known(c)' PROVE ~Pending(VersionOf(ci, c))'
        BY <1>4
    <2>1. PICK v : v = VersionOf(ci', c)
        OBVIOUS
    <2>2. ~Pending(v)'
        BY <1>1, <1>4, <2>1
    <2> QED
        BY <2>1, <2>2 DEF Pending
<1> QED
    BY <1>1, <1>2, <1>3, <1>5 DEF Exact

\* Installing an instrument of known classes: it is kept, and runs.
LEMMA InstallExact ==
    ASSUME NothingFails, IInv, KnownDefined, Exact,
           NEW id \in Ids, NEW e \in Entry, NEW s \in Slots,
           Known(e.cls), Known(e.xcls),
           UNCHANGED <<evq, hooked>>, cur'.phase # "cleanup",
           Install(id, e, s)
    PROVE  Exact'
<1>1. /\ mi \in [Ids -> Entry \cup {NoEntry}] /\ ci \in ClassList
      /\ code \in [Pairs -> SUBSET Probe] /\ defined \subseteq Pairs
      /\ e.cls \in Classes /\ e.xcls \in Classes
    BY DEF IInv, TypeOK, Entry
<1> DEFINE pop == Populate(ci, id, e, s)
<1>2. PICK o \in Perform(code, pop, e) :
          /\ code' = o.code
          /\ ci' = IF o.ok THEN pop ELSE Depopulate(pop, e)
          /\ mi' = [mi EXCEPT ![id] = IF o.ok THEN [e EXCEPT !.deferred = {}] ELSE NoEntry]
    BY DEF Install
<1>3. pop \in ClassList /\ \A d \in Classes : pop[d].loader = ci[d].loader
    BY <1>1, PopulateOK
<1>4. \A d \in Classes : d # e.cls /\ d # e.xcls => ListOf(pop, d) = ListOf(ci, d)
    BY <1>1, ListedElsewhere
<1> HIDE DEF pop
<1>5. AllDefined(pop) /\ pop[e.cls].loader # NoLoader /\ pop[e.xcls].loader # NoLoader
    BY <1>1, <1>3 DEF KnownDefined, AllDefined, VersionOf, Known
<1>6. o.ok = TRUE /\ RewrittenFor(code, pop, e, code') /\ BothRun(pop, e, code')
    BY <1>1, <1>2, <1>3, <1>5, AlwaysRewrites
<1>7. ci' = pop
    BY <1>2, <1>6
<1>9. \A d \in Classes : VersionOf(pop, d) = VersionOf(ci, d)
    BY <1>3 DEF VersionOf
<1>10. \A p \in Pairs : \/ code'[p] = code[p]
                        \/ \E d \in Classes : Known(d) /\ p = VersionOf(ci, d)
    BY <1>1, <1>3, <1>6, <1>9 DEF RewrittenFor, Known
<1>11. \A d \in Classes : Known(d) => code'[VersionOf(ci, d)] = ListOf(ci', d)
    <2> SUFFICES ASSUME NEW d \in Classes, Known(d)
                 PROVE  code'[VersionOf(ci, d)] = ListOf(pop, d)
        BY <1>7
    <2>1. CASE d = e.cls \/ d = e.xcls
        BY <1>1, <1>6, <1>9, <2>1 DEF BothRun
    <2>2. CASE d # e.cls /\ d # e.xcls
        <3>1. VersionOf(ci, d) \in Pairs
            BY <1>1 DEF KnownDefined, AllDefined, Known
        <3>2. code'[VersionOf(ci, d)] = code[VersionOf(ci, d)]
            BY <1>6, <1>9, <2>2, <3>1 DEF RewrittenFor, VersionOf
        <3> QED
            BY <1>4, <2>2, <3>2 DEF Exact
    <2> QED
        BY <2>1, <2>2
<1>12. \A d \in Classes : ci'[d].loader = ci[d].loader
    BY <1>3, <1>7
<1> QED
    BY <1>10, <1>11, <1>12, ExactOn

\* A step that changes no list and no bytecode.
LEMMA ExactStill ==
    ASSUME Exact, UNCHANGED <<ci, code>>, UNCHANGED <<evq, hooked>>, cur'.phase # "cleanup"
    PROVE  Exact'
<1>1. \A d \in Classes : Known(d) => code'[VersionOf(ci, d)] = ListOf(ci', d)
    BY DEF Exact
<1> QED
    BY <1>1, ExactOn

\* A request: what is installed runs, what is removed no longer does.
LEMMA RequestExact ==
    ASSUME NothingFails, IInv, KnownDefined, Exact, Request
    PROVE  Exact'
<1>1. /\ mi \in [Ids -> Entry \cup {NoEntry}] /\ ci \in ClassList
      /\ code \in [Pairs -> SUBSET Probe] /\ defined \subseteq Pairs
    BY DEF IInv, TypeOK
<1>2. ASSUME NEW e \in Entry, Instrument(e)
      PROVE  Exact'
    <2>1. /\ cur = Idle /\ nextId \in Ids /\ UNCHANGED cur /\ UNCHANGED <<evq, hooked>>
          /\ cur'.phase # "cleanup"
        BY <1>2 DEF Instrument, Idle
    <2>3. CASE InstrumentRefused
        <3>1. UNCHANGED <<ci, code>>
            BY <2>3 DEF InstrumentRefused
        <3> QED
            BY <2>1, <3>1, ExactStill
    <2>4. ASSUME NEW s \in Slots, InstrumentNow(e, s)
          PROVE  Exact'
        <3>1. Install(nextId, e, s) /\ Known(e.cls) /\ Known(e.xcls)
            BY <2>4 DEF InstrumentNow
        <3> QED
            BY <2>1, <3>1, InstallExact
    <2>5. ASSUME NEW s \in Slots, InstrumentLater(e, s)
          PROVE  Exact'
        <3>1. UNCHANGED <<ci, code>>
            BY <2>5 DEF InstrumentLater
        <3> QED
            BY <2>1, <3>1, ExactStill
    <2> QED
        BY <1>2, <2>3, <2>4, <2>5 DEF Instrument
<1>3. ASSUME NEW id \in Ids, Deinstrument(id)
      PROVE  Exact'
    <2>1. /\ cur = Idle /\ UNCHANGED cur /\ UNCHANGED <<evq, hooked>> /\ Present(id)
          /\ cur'.phase # "cleanup"
          /\ DeinstrumentDeferred(id) \/ DeinstrumentApplied(id)
        BY <1>3 DEF Deinstrument, Idle, Present
    <2>4. CASE DeinstrumentDeferred(id)
        <3>1. UNCHANGED <<ci, code>>
            BY <2>4 DEF DeinstrumentDeferred
        <3> QED
            BY <2>1, <3>1, ExactStill
    <2>5. CASE DeinstrumentApplied(id)
        <3> DEFINE e == mi[id]
                   cl == Depopulate(ci, e)
        <3>1. PICK o \in Strip(code, cl, e) : code' = o.code
            BY <2>5 DEF DeinstrumentApplied
        <3>2. ci' = cl /\ e.deferred = {}
            BY <2>5 DEF DeinstrumentApplied
        <3>3. e \in Entry /\ e.cls \in Classes /\ e.xcls \in Classes
            BY <2>1, EntryFields DEF IInv
        <3>4. Known(e.cls) /\ Known(e.xcls)
            <4>1. Ready(id)
                BY <2>1, <3>2 DEF Ready
            <4>2. Known(SideClass(e, "enter")) /\ Known(SideClass(e, "exit"))
                BY <4>1, ReadyKnown
            <4> QED
                BY <4>2 DEF SideClass
        <3> HIDE DEF e
        <3>5. cl \in ClassList /\ \A d \in Classes : cl[d].loader = ci[d].loader
            BY <1>1, <3>3, DepopulateOK
        <3>6. \A d \in Classes : d # e.cls /\ d # e.xcls => ListOf(cl, d) = ListOf(ci, d)
            BY <1>1, <3>3, DroppedElsewhere
        <3> HIDE DEF cl
        <3>7. AllDefined(cl) /\ cl[e.cls].loader # NoLoader /\ cl[e.xcls].loader # NoLoader
            BY <3>3, <3>4, <3>5 DEF KnownDefined, AllDefined, VersionOf, Known
        <3>8. RewrittenFor(code, cl, e, code') /\ BothRun(cl, e, code')
            BY <1>1, <3>1, <3>3, <3>5, <3>7, AlwaysRewrites
        <3>9. \A d \in Classes : VersionOf(cl, d) = VersionOf(ci, d)
            BY <3>5 DEF VersionOf
        <3>10. \A p \in Pairs : \/ code'[p] = code[p]
                                \/ \E d \in Classes : Known(d) /\ p = VersionOf(ci, d)
            BY <3>3, <3>5, <3>8, <3>9 DEF RewrittenFor, Known
        <3>11. \A d \in Classes : Known(d) => code'[VersionOf(ci, d)] = ListOf(ci', d)
            <4> SUFFICES ASSUME NEW d \in Classes, Known(d)
                         PROVE  code'[VersionOf(ci, d)] = ListOf(cl, d)
                BY <3>2
            <4>1. CASE d = e.cls \/ d = e.xcls
                BY <3>3, <3>8, <3>9, <4>1 DEF BothRun
            <4>2. CASE d # e.cls /\ d # e.xcls
                <5>1. VersionOf(ci, d) \in Pairs
                    BY <1>1 DEF KnownDefined, AllDefined, Known
                <5>2. code'[VersionOf(ci, d)] = code[VersionOf(ci, d)]
                    BY <3>8, <3>9, <4>2, <5>1 DEF RewrittenFor, VersionOf
                <5> QED
                    BY <3>6, <4>2, <5>2 DEF Exact
            <4> QED
                BY <4>1, <4>2
        <3>12. \A d \in Classes : ci'[d].loader = ci[d].loader
            BY <3>2, <3>5
        <3> QED
            BY <2>1, <3>10, <3>11, <3>12, ExactOn
    <2> QED
        BY <2>1, <2>4, <2>5
<1>4. ASSUME NEW c \in Classes, NEW m \in Methods, InstrumentMethod(c, m)
      PROVE  Exact'
    <2>1. MethodEntry(c, m) \in Entry
        BY DEF MethodEntry, Entry, Sites, Kinds
    <2> QED
        BY <1>2, <1>4, <2>1 DEF InstrumentMethod
<1>5. ASSUME NEW c \in Classes, NEW x \in Classes, NEW n \in Lines, NEW k \in Lines,
             InstrumentLine(c, n, x, k)
      PROVE  Exact'
    <2>1. LineEntry(c, n, x, k) \in Entry
        BY DEF LineEntry, Entry, Sites, Kinds
    <2> QED
        BY <1>2, <1>5, <2>1 DEF InstrumentLine
<1>6. CASE \E id \in Ids : Deinstrument(id)
    BY <1>3, <1>6
<1>7. CASE \E c \in Classes, m \in Methods : InstrumentMethod(c, m)
    BY <1>4, <1>7
<1>8. CASE \E c, x \in Classes, n, k \in Lines : InstrumentLine(c, n, x, k)
    BY <1>5, <1>8
<1> QED
    BY <1>6, <1>7, <1>8 DEF Request

\* A class is loaded: its new version runs no probe before, and its list after.
LEMMA HandleClassLoadedExact ==
    ASSUME NothingFails, IInv, KnownDefined, Exact, HandleClassLoaded, Head(evq) \in defined
    PROVE  Exact'
<1> DEFINE c  == Head(evq)[1]
           l  == Head(evq)[2]
           cl == [ci EXCEPT ![c].loader = l]
<1>1. /\ ci \in ClassList /\ code \in [Pairs -> SUBSET Probe]
      /\ defined \subseteq Pairs /\ evq \in Seq(Pairs) /\ evq # <<>>
    BY DEF IInv, TypeOK, HandleClassLoaded
<1>2. /\ ci' = cl /\ evq' = Tail(evq)
      /\ UNCHANGED hooked
    BY DEF HandleClassLoaded
<1>3. c \in Classes /\ l \in Loaders /\ Head(evq) = <<c, l>>
    BY <1>1, <1>2 DEF Pairs
<1>4. \/ /\ ci[c].probes = <<>>
         /\ code' = code
         /\ cur' = [phase |-> "deferred", cls |-> c]
      \/ \E o \in Apply(code, cl, c) :
            /\ code' = o.code
            /\ cur' = [phase |-> IF o.ok THEN "deferred" ELSE "cleanup", cls |-> c]
    BY DEF HandleClassLoaded
<1>5. PICK cc \in Classes, ll \in Loaders : cc = c /\ ll = l
    BY <1>3
<1>6. PICK k1 : k1 = cl
    OBVIOUS
<1>7. /\ k1 \in ClassList /\ k1[cc].loader = ll
      /\ \A d \in Classes : /\ k1[d].probes = ci[d].probes
                            /\ d # cc => k1[d].loader = ci[d].loader
    BY <1>1, <1>5, <1>6 DEF ClassList
<1> HIDE DEF c, l, cl
<1>8. ci' = k1 /\ <<cc, ll>> \in defined /\ <<cc, ll>> \in Pairs /\ ll # NoLoader
    BY <1>1, <1>2, <1>3, <1>5, <1>6, NoLoaderOK
<1>9. AllDefined(k1)
    BY <1>7, <1>8 DEF KnownDefined, AllDefined, VersionOf
<1>10. /\ DOMAIN evq = 1..Len(evq) /\ Len(evq) \in Nat /\ Len(evq) > 0 /\ evq[1] = <<cc, ll>>
       /\ DOMAIN evq' = 1..(Len(evq) - 1)
       /\ \A i \in 1..(Len(evq) - 1) : evq'[i] = evq[i + 1]
    BY <1>1, <1>2, <1>3, <1>5
<1>11. EventsApart'
    BY <1>2, <1>10 DEF Exact, EventsApart
<1>12. Pending(<<cc, ll>>) /\ ~Pending(<<cc, ll>>)'
    <2>1. Pending(<<cc, ll>>)
        BY <1>10 DEF Pending
    <2>2. \A i \in DOMAIN evq' : evq'[i] # <<cc, ll>>
        BY <1>10 DEF Exact, EventsApart
    <2>3. <<cc, ll>> \in hooked'
        BY <1>2, <1>10, SMTT(30) DEF Exact, EventsApart
    <2> QED
        BY <2>1, <2>2, <2>3 DEF Pending
<1>13. \A p : Pending(p)' => Pending(p)
    BY <1>2, <1>10 DEF Pending
<1>14. /\ cur'.phase # "cleanup"
       /\ code'[<<cc, ll>>] = ListOf(ci', cc)
       /\ \A p \in Pairs : p # <<cc, ll>> => code'[p] = code[p]
    <2>1. CASE ci[cc].probes = <<>> /\ code' = code /\ cur' = [phase |-> "deferred", cls |-> cc]
        <3>1. ListOf(ci', cc) = {}
            BY <1>7, <1>8, <2>1 DEF ListOf, Elems
        <3>2. code[<<cc, ll>>] = {}
            BY <1>8, <1>12 DEF Exact
        <3> QED
            BY <2>1, <3>1, <3>2
    <2>2. ASSUME NEW o \in Apply(code, k1, cc), code' = o.code,
                 cur' = [phase |-> IF o.ok THEN "deferred" ELSE "cleanup", cls |-> cc]
          PROVE  /\ cur'.phase # "cleanup"
                 /\ code'[<<cc, ll>>] = ListOf(ci', cc)
                 /\ \A p \in Pairs : p # <<cc, ll>> => code'[p] = code[p]
        <3>1. Rewrote(code, k1, cc, o)
            BY <1>1, <1>7, <1>9, ApplyRewrites DEF NothingFails
        <3>2. o.ok = TRUE
            BY <1>7, <1>8, AlwaysApplies DEF VersionOf
        <3>3. code' = [code EXCEPT ![<<cc, ll>>] = ListOf(ci', cc)]
            BY <1>7, <1>8, <2>2, <3>1, <3>2 DEF Rewrote, VersionOf
        <3> QED
            BY <1>1, <1>8, <2>2, <3>2, <3>3
    <2> QED
        BY <1>4, <1>5, <1>6, <2>1, <2>2
<1>15. \A p \in Pairs : Pending(p)' => code'[p] = {}
    <2> SUFFICES ASSUME NEW p \in Pairs, Pending(p)' PROVE code'[p] = {}
        OBVIOUS
    <2>1. p # <<cc, ll>>
        BY <1>12
    <2>2. Pending(p)
        BY <1>13
    <2> QED
        BY <1>14, <2>1, <2>2 DEF Exact
<1>16. \A d \in Classes : Known(d)' => /\ ~Pending(VersionOf(ci, d))'
                                       /\ code'[VersionOf(ci', d)] = ListOf(ci', d)
    <2> SUFFICES ASSUME NEW d \in Classes, Known(d)'
                 PROVE  /\ ~Pending(VersionOf(ci, d))'
                        /\ code'[VersionOf(ci', d)] = ListOf(ci', d)
        OBVIOUS
    <2>1. CASE d = cc
        <3>1. VersionOf(ci', d) = <<cc, ll>>
            BY <1>7, <1>8, <2>1 DEF VersionOf
        <3>2. ~Pending(VersionOf(ci, d))'
            BY <1>12, <3>1 DEF Pending
        <3> QED
            BY <1>14, <2>1, <3>1, <3>2
    <2>2. CASE d # cc
        <3>1. PICK v : v = VersionOf(ci, d)
            OBVIOUS
        <3>2. /\ Known(d) /\ VersionOf(ci', d) = v /\ v # <<cc, ll>>
              /\ ListOf(ci', d) = ListOf(ci, d)
            BY <1>7, <1>8, <2>2, <3>1 DEF Known, VersionOf, ListOf
        <3>3. ~Pending(v) /\ code[v] = ListOf(ci, d)
            BY <3>1, <3>2 DEF Exact
        <3>4. ~Pending(v)'
            BY <1>13, <3>3
        <3>5. ~Pending(VersionOf(ci, d))'
            BY <3>2, <3>4 DEF Pending
        <3>6. v \in Pairs
            BY <1>1, <3>1, <3>2 DEF KnownDefined, AllDefined, Known
        <3> QED
            BY <1>14, <3>2, <3>3, <3>5, <3>6
    <2> QED
        BY <2>1, <2>2
<1> QED
    BY <1>11, <1>14, <1>15, <1>16 DEF Exact

\* When the last deferred side of an instrument gets its turn, both its classes
\* are known.
LEMMA LastSideKnown ==
    ASSUME IInv, NEW q \in queue, cur # Idle, q.cls = cur.cls, mi[q.iid].deferred \ {q.kind} = {}
    PROVE  Known(mi[q.iid].cls) /\ Known(mi[q.iid].xcls)
<1>1. PICK e : e = mi[q.iid]
    OBVIOUS
<1>2. q.iid \in Ids /\ Present(q.iid) /\ q.cls = SideClass(e, q.kind)
    BY <1>1 DEF IInv, TypeOK, Queued, QueueMatchesMaster
<1>3. Known(q.cls)
    BY DEF IInv, CurIsKnown
<1>4. /\ e.deferred \cap {"method", "enter"} = {} => Known(e.cls)
      /\ "exit" \notin e.deferred /\ e.xcls # e.cls => Known(e.xcls)
    BY <1>1, <1>2 DEF IInv, DeferredSides
<1>5. \A k \in e.deferred : k = q.kind
    BY <1>1
<1>6. CASE q.kind = "exit"
    <2>1. Known(e.xcls)
        BY <1>2, <1>3, <1>6 DEF SideClass
    <2> QED
        BY <1>1, <1>4, <1>5, <1>6, <2>1
<1>7. CASE q.kind # "exit"
    <2>1. Known(e.cls)
        BY <1>2, <1>3, <1>7 DEF SideClass
    <2>2. CASE e.xcls = e.cls
        BY <1>1, <2>1, <2>2
    <2>3. CASE e.xcls # e.cls
        BY <1>1, <1>4, <1>5, <1>7, <2>1, <2>3
    <2> QED
        BY <2>2, <2>3
<1> QED
    BY <1>6, <1>7

\* A queued side gets its turn; if it was the last one missing, the instrument
\* is applied.
LEMMA DeferredExact ==
    ASSUME NothingFails, IInv, KnownDefined, Exact, NEW q \in queue, DeferredStep(q)
    PROVE  Exact'
<1> DEFINE id == q.iid
           e  == [mi[id] EXCEPT !.deferred = @ \ {q.kind}]
<1>1. /\ TypeOK /\ q \in Queued /\ id \in Ids /\ q.slot \in Slots
      /\ mi \in [Ids -> Entry \cup {NoEntry}]
    BY DEF IInv, TypeOK, Queued
<1>2. Present(id) /\ q.cls = SideClass(mi[id], q.kind)
    BY DEF IInv, QueueMatchesMaster
<1>3. mi[id] \in Entry
    BY <1>1, <1>2, EntryFields
<1>4. /\ e \in Entry /\ e.cls = mi[id].cls /\ e.xcls = mi[id].xcls
      /\ e.deferred = mi[id].deferred \ {q.kind}
    BY <1>3 DEF Entry
<1>5. /\ cur.phase = "deferred" /\ q.cls = cur.cls /\ UNCHANGED <<evq, hooked>>
      /\ cur'.phase # "cleanup"
    BY DEF DeferredStep
<1>6. \/ /\ e.deferred # {}
         /\ mi' = [mi EXCEPT ![id] = e]
         /\ UNCHANGED <<ci, code>>
      \/ e.deferred = {} /\ Install(id, e, q.slot)
    BY DEF DeferredStep
<1> HIDE DEF id, e
<1>7. CASE e.deferred # {} /\ mi' = [mi EXCEPT ![id] = e] /\ UNCHANGED <<ci, code>>
    BY <1>5, <1>7, ExactStill
<1>8. CASE e.deferred = {} /\ Install(id, e, q.slot)
    <2>1. cur # Idle /\ mi[id].deferred \ {q.kind} = {}
        BY <1>4, <1>5, <1>8 DEF Idle
    <2>2. Known(e.cls) /\ Known(e.xcls)
        BY <1>4, <1>5, <2>1, LastSideKnown DEF id
    <2> QED
        BY <1>1, <1>4, <1>5, <1>8, <2>2, InstallExact
<1> QED
    BY <1>6, <1>7, <1>8

\* Every step keeps the bytecode exact.
LEMMA NextExact ==
    ASSUME NothingFails, IInv, KnownDefined, Exact, [Next]_vars, early' = {}
    PROVE  Exact'
<1>1. CASE Request
    BY <1>1, RequestExact
<1>2. CASE HandleClassLoaded
    <2>1. Head(evq) \in defined
        BY <1>2 DEF HandleClassLoaded
    <2> QED
        BY <1>2, <2>1, HandleClassLoadedExact
<1>3. CASE CleanupStep
    BY <1>3 DEF CleanupStep, Exact
<1>4. CASE \E q \in queue : DeferredStep(q)
    BY <1>4, DeferredExact
<1>5. CASE DeferredDone
    <2>1. UNCHANGED <<ci, code>> /\ UNCHANGED <<evq, hooked>> /\ cur'.phase # "cleanup"
        BY <1>5 DEF DeferredDone, Idle
    <2> QED
        BY <2>1, ExactStill
<1>6. ASSUME NEW c \in Classes, NEW l \in Loaders, LoadHook(c, l)
      PROVE  Exact'
    <2>1. /\ <<c, l>> \notin hooked /\ hooked' = hooked \cup {<<c, l>>}
          /\ evq' = Append(evq, <<c, l>>)
          /\ UNCHANGED <<ci, code, cur>>
        BY <1>6 DEF LoadHook, NothingFails
    <2>2. evq \in Seq(Pairs)
        BY DEF IInv, TypeOK
    <2>3. /\ DOMAIN evq = 1..Len(evq) /\ Len(evq) \in Nat
          /\ DOMAIN evq' = 1..(Len(evq) + 1)
          /\ evq'[Len(evq) + 1] = <<c, l>>
          /\ \A i \in 1..Len(evq) : evq'[i] = evq[i]
        BY <2>1, <2>2
    <2>4. EventsApart'
        BY <2>1, <2>3 DEF Exact, EventsApart
    <2>5. \A p : Pending(p)' <=> Pending(p)
        BY <2>1, <2>3 DEF Pending
    <2>6. \A d \in Classes : VersionOf(ci', d) = VersionOf(ci, d) /\ (Known(d)' <=> Known(d))
        BY <2>1 DEF VersionOf, Known
    <2>7. \A d \in Classes : Pending(VersionOf(ci, d))' <=> Pending(VersionOf(ci, d))
        <3> TAKE d \in Classes
        <3>1. PICK v : v = VersionOf(ci, d)
            OBVIOUS
        <3>2. Pending(v)' <=> Pending(v)
            BY <2>5
        <3> QED
            BY <2>6, <3>1, <3>2 DEF Pending
    <2>8. \A d \in Classes : ListOf(ci', d) = ListOf(ci, d)
        BY <2>1
    <2> QED
        BY <2>1, <2>4, <2>5, <2>6, <2>7, <2>8 DEF Exact
<1>7. CASE (\E c \in Classes, l \in Loaders : Define(c, l)) \/ UNCHANGED vars
    <2>1. UNCHANGED <<ci, code>> /\ UNCHANGED <<evq, hooked>> /\ UNCHANGED cur
        BY <1>7 DEF Define, vars
    <2>2. cur'.phase # "cleanup"
        BY <2>1 DEF Exact
    <2> QED
        BY <2>1, <2>2, ExactStill
<1>8. CASE \E c \in Classes, l \in Loaders : LoadHook(c, l)
    BY <1>6, <1>8
<1>9. ~ForgetClass
    BY DEF ForgetClass, NothingFails
<1> QED
    BY <1>1, <1>2, <1>3, <1>4, <1>5, <1>7, <1>8, <1>9 DEF Next, ClassEvent, JVM

\* The bytecode is exact as long as no class was handled too early.
ExactUnlessEarly == NoneEarly => KnownDefined /\ Exact

\* Every step keeps it so.
LEMMA NextKeepsExact ==
    ASSUME NothingFails, IInv, Runs, Runs', ExactUnlessEarly, [Next]_vars
    PROVE  ExactUnlessEarly'
<1> SUFFICES ASSUME early' = {} PROVE KnownDefined' /\ Exact'
    BY DEF ExactUnlessEarly, NoneEarly
<1>1. early = {}
    BY EarlyStays
<1>2. KnownDefined /\ Exact
    BY <1>1 DEF ExactUnlessEarly, NoneEarly
<1>3. KnownDefined'
    BY DEF Runs, NoneEarly
<1>4. Exact'
    BY <1>2, NextExact
<1> QED
    BY <1>3, <1>4

\* Where nothing fails and no two lines are shared, the bytecode stays exact
\* until a class-loaded message overtakes the definition of its class.
THEOREM ExactHolds ==
    ASSUME ~SharedLines, NothingFails
    PROVE  Spec => []ExactUnlessEarly
<1>1. Init => Runs /\ ExactUnlessEarly
    BY InitRuns, InitExact DEF Runs, ExactUnlessEarly
<1>2. IInv /\ IInv' /\ Tables /\ Tables' /\ Runs /\ [Next]_vars => Runs'
    BY NextKeepsRuns DEF NothingFails
<1>3. IInv /\ Runs /\ Runs' /\ ExactUnlessEarly /\ [Next]_vars => ExactUnlessEarly'
    BY NextKeepsExact
<1> QED
    BY IInvHolds, TablesHold, <1>1, <1>2, <1>3, PTL DEF Spec

\* Everything else runs at full speed: there, no version of a class that the
\* server rewrites runs a probe without an instrument.
THEOREM NoOrphanProbesHolds ==
    ASSUME ~SharedLines, NothingFails
    PROVE  Spec => []NoOrphanProbes
<1>1. Tables /\ ExactUnlessEarly => NoOrphanProbes
    <2> SUFFICES ASSUME Tables, Exact, NEW c \in Classes, NEW p \in Woven(c)
                 PROVE  Present(p.iid)
        BY DEF NoOrphanProbes, ExactUnlessEarly
    <2>1. p \in ListOf(ci, c)
        BY DEF Woven, Exact, VersionOf
    <2>2. Settled(c)
        BY DEF Exact, Settled
    <2> QED
        BY <2>1, <2>2 DEF Tables, ListsSound, Listed, Ready
<1> QED
    BY TablesHold, ExactHolds, <1>1, PTL

-----------------------------------------------------------------------------
(* Deferred instruments that are given up.                                  *)

\* An instrument whose classes the server knows, in versions that are defined,
\* is installed.
LEMMA InstallSucceeds ==
    ASSUME NothingFails, IInv, NEW id \in Ids, NEW e \in Entry, NEW s \in Slots,
           Known(e.cls), VersionOf(ci, e.cls) \in defined,
           Known(e.xcls), VersionOf(ci, e.xcls) \in defined,
           Install(id, e, s)
    PROVE  mi'[id] # NoEntry
<1>1. /\ mi \in [Ids -> Entry \cup {NoEntry}] /\ ci \in ClassList
      /\ code \in [Pairs -> SUBSET Probe]
      /\ e.cls \in Classes /\ e.xcls \in Classes
    BY DEF IInv, TypeOK, Entry
<1> DEFINE pop == Populate(ci, id, e, s)
<1>2. PICK o \in Perform(code, pop, e) :
          mi' = [mi EXCEPT ![id] = IF o.ok THEN [e EXCEPT !.deferred = {}] ELSE NoEntry]
    BY DEF Install
<1>3. pop \in ClassList /\ \A d \in Classes : pop[d].loader = ci[d].loader
    BY <1>1, PopulateOK
<1> HIDE DEF pop
<1>4. /\ pop[e.cls].loader # NoLoader /\ VersionOf(pop, e.cls) \in defined
      /\ pop[e.xcls].loader # NoLoader /\ VersionOf(pop, e.xcls) \in defined
    BY <1>1, <1>3 DEF VersionOf, Known
<1>5. o.ok = TRUE
    BY <1>1, <1>2, <1>3, <1>4, AlwaysPerforms
<1>6. [e EXCEPT !.deferred = {}] \in Entry
    BY DEF Entry
<1> QED
    BY <1>1, <1>2, <1>5, <1>6, NoEntryOK

\* A class of the instrument is known in a version that is not defined yet.
KnownEarly(id) ==
    \E c \in {mi[id].cls, mi[id].xcls} : Known(c) /\ <<c, ci[c].loader>> \notin defined

\* What gives up a deferred instrument.
LEMMA GivenUp ==
    ASSUME NothingFails, IInv, [Next]_vars, NEW id \in Ids, Present(id), ~Ready(id),
           mi'[id] = NoEntry
    PROVE  told'[id] = "removed" \/ KnownEarly(id)
<1>1. /\ mi \in [Ids -> Entry \cup {NoEntry}]
      /\ told \in [Ids -> {"none", "ok", "deferred", "error", "removed", "fail"}]
      /\ mi[id] # NoEntry /\ mi[id].deferred # {}
    BY DEF IInv, TypeOK, Present, Ready
<1>2. ASSUME NEW e, Instrument(e)
      PROVE  FALSE
    <2>1. nextId \in Ids /\ ~Present(nextId)
        BY <1>2 DEF Instrument, IInv, FreshIds, Ids
    <2>2. mi' = mi \/ \E f : mi' = [mi EXCEPT ![nextId] = f]
        BY <1>2 DEF Instrument, InstrumentNow, InstrumentLater, InstrumentRefused, Install
    <2> QED
        BY <1>1, <2>1, <2>2 DEF Present
<1>3. ASSUME NEW j \in Ids, Deinstrument(j)
      PROVE  told'[id] = "removed"
    <2>1. mi' = [mi EXCEPT ![j] = NoEntry]
        BY <1>3 DEF Deinstrument, DeinstrumentDeferred, DeinstrumentApplied
    <2>2. j = id
        BY <1>1, <2>1
    <2>3. ~DeinstrumentApplied(j)
        BY <1>1, <2>2 DEF DeinstrumentApplied
    <2>4. told' = [told EXCEPT ![id] = "removed"]
        BY <1>3, <2>2, <2>3 DEF Deinstrument, DeinstrumentDeferred
    <2> QED
        BY <1>1, <2>4
<1>4. CASE Request
    BY <1>2, <1>3, <1>4 DEF Request, InstrumentMethod, InstrumentLine
<1>5. CASE CleanupStep
    <2> DEFINE p == Head(ci[cur.cls].probes)
    <2>1. cur.phase = "cleanup" /\ ci[cur.cls].probes # <<>>
          /\ (mi' = mi \/ mi' = [mi EXCEPT ![p.iid] = NoEntry])
        BY <1>5 DEF CleanupStep
    <2>2. cur.cls \in Classes /\ ci[cur.cls].probes \in Seq(Probe)
        BY <2>1 DEF IInv, TypeOK, ClassList, Idle
    <2>3. p \in Elems(ci[cur.cls].probes)
        BY <2>1, <2>2 DEF Elems
    <2>4. Present(p.iid) => Ready(p.iid)
        BY <2>2, <2>3 DEF IInv, ListedIsReady
    <2>5. p.iid # id
        BY <2>4
    <2> HIDE DEF p
    <2> QED
        BY <1>1, <2>1, <2>5
<1>6. ASSUME NEW q \in queue, DeferredStep(q)
      PROVE  KnownEarly(id)
    <2> DEFINE e == [mi[q.iid] EXCEPT !.deferred = @ \ {q.kind}]
    <2>1. \/ e.deferred # {} /\ mi' = [mi EXCEPT ![q.iid] = e]
          \/ e.deferred = {} /\ Install(q.iid, e, q.slot)
        BY <1>6 DEF DeferredStep
    <2>2. /\ q.iid \in Ids /\ q.slot \in Slots /\ Present(q.iid)
          /\ cur.phase = "deferred" /\ q.cls = cur.cls
        BY <1>6 DEF IInv, TypeOK, Queued, QueueMatchesMaster, DeferredStep
    <2>3. mi[q.iid] \in Entry
        BY <2>2, EntryFields DEF IInv
    <2>4. /\ e \in Entry /\ e.cls = mi[q.iid].cls /\ e.xcls = mi[q.iid].xcls
          /\ e.deferred = mi[q.iid].deferred \ {q.kind}
        BY <2>3 DEF Entry
    <2>5. q.iid = id
        <3>1. \E f : mi' = [mi EXCEPT ![q.iid] = f]
            BY <2>1 DEF Install
        <3> QED
            BY <1>1, <3>1
    <2> HIDE DEF e
    <2>6. e.deferred = {} /\ Install(id, e, q.slot)
        BY <1>1, <2>1, <2>4, <2>5, NoEntryOK
    <2>7. Known(e.cls) /\ Known(e.xcls)
        <3>1. cur # Idle /\ mi[q.iid].deferred \ {q.kind} = {}
            BY <2>2, <2>4, <2>6 DEF Idle
        <3> QED
            BY <2>2, <2>4, <3>1, LastSideKnown
    <2>8. ~(VersionOf(ci, e.cls) \in defined /\ VersionOf(ci, e.xcls) \in defined)
        BY <2>2, <2>4, <2>6, <2>7, InstallSucceeds
    <2> QED
        BY <2>4, <2>5, <2>7, <2>8 DEF KnownEarly, VersionOf
<1>7. CASE HandleClassLoaded \/ ForgetClass \/ DeferredDone \/ JVM \/ UNCHANGED vars
    <2>1. UNCHANGED mi
        BY <1>7 DEF HandleClassLoaded, ForgetClass, DeferredDone, JVM, LoadHook, Define, vars
    <2> QED
        BY <1>1, <2>1
<1> QED
    BY <1>4, <1>5, <1>6, <1>7 DEF Next, ClassEvent

\* When no call fails, a deferred instrument whose sites are there is given up
\* in two ways only: its client removes it, or the class-loaded message of a
\* class of it overtakes the definition of the class.
THEOREM FailsOnlyWhenEarlyHolds ==
    ASSUME ~Faults
    PROVE  Spec => FailsOnlyWhenEarly
<1> DEFINE Kept == \A id \in Ids : Complete /\ Present(id) /\ ~Ready(id) /\ mi'[id] = NoEntry =>
               \/ told'[id] = "removed"
               \/ \E c \in {mi[id].cls, mi[id].xcls} : Known(c) /\ <<c, ci[c].loader>> \notin defined
<1>1. IInv /\ [Next]_vars => [Kept]_vars
    BY GivenUp DEF NothingFails, KnownEarly
<1>2. FailsOnlyWhenEarly <=> [][Kept]_vars
    BY DEF FailsOnlyWhenEarly
<1> HIDE DEF Kept
<1> QED
    BY IInvHolds, <1>1, <1>2, PTL DEF Spec
=============================================================================
