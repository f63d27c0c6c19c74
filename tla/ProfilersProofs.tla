-------------------------- MODULE ProfilersProofs --------------------------
(***************************************************************************)
(* Proofs about the profilers, for any number of threads, instruments,     *)
(* slots, ticks and calls and for rings of any size.                       *)
(***************************************************************************)
EXTENDS Profilers, FiniteSetTheorems, TLAPS

-----------------------------------------------------------------------------
(* The inductive invariant: the rings.                                     *)

Index == 0..(Ring - 1)

\* Where the snapshot is that has k younger ones, if the next one goes to h.
Back(h, k) == IF k < h THEN h - 1 - k ELSE h - 1 - k + Ring

\* The ring b has n snapshots: they are of the n ticks up to last.
Filled(b, h, n, last) ==
    \A k \in Index :
        IF k < n THEN b[Back(h, k)] \in Snapshot /\ b[Back(h, k)].time = last - k
                 ELSE b[Back(h, k)] = NoSnapshot

\* Their counts never go down, nor over what the counters are.
Cumulative(b, h, n, c, m) ==
    \A j, k \in Index : j <= k /\ k < n =>
        /\ b[Back(h, k)].calls <= b[Back(h, j)].calls /\ b[Back(h, j)].calls <= c
        /\ b[Back(h, k)].nanos <= b[Back(h, j)].nanos /\ b[Back(h, j)].nanos <= m
        /\ b[Back(h, k)].calls <= b[Back(h, k)].nanos

Collecting == collector \in {"visit", "ending"}

Read(i) == reading # <<>> /\ reading[1] = i

\* The last tick that a profiler in use has a snapshot of.
LastTick(i) == IF Collecting /\ i \notin todo THEN tick ELSE tick - 1

\* What callCount was at least when the collector read it.
CallsRead(i) == IF Read(i) THEN reading[2] ELSE calls[i]

Ordered(i) ==
    \E n \in 0..Ring, last \in Int :
        /\ Filled(buffer[i], head[i], n, last)
        /\ Cumulative(buffer[i], head[i], n, CallsRead(i), nanos[i])
        /\ i \in active \/ Read(i) => n = 0 \/ last = LastTick(i)

\* The tick under way is one there is, and what was read may be stored.
OnTime ==
    /\ Collecting => tick <= MaxTick
    /\ reading # <<>> =>
        /\ Collecting /\ reading[1] \in todo
        /\ reading[2] <= calls[reading[1]] /\ reading[2] <= nanos[reading[1]]

-----------------------------------------------------------------------------
(* The inductive invariant: the registry and the counters.                 *)

\* An active profiler is in the slot that was given to it, and one that was not
\* created yet has nothing.
Registered ==
    /\ \A s \in Slot : entries[s] # 0 => given[entries[s]] = s
    /\ \A i \in active : given[i] \in Slot /\ entries[given[i]] = i
    /\ \A i \in Ids : given[i] = -1 =>
        /\ i \notin todo
        /\ \A k \in Index : buffer[i][k] = NoSnapshot
        /\ \A t \in Threads : depth[t][i] = 0

\* A call is in the total before it is counted.
CountingOf(i) == {t \in Threads : counting[t] = i}

Balanced ==
    \A i \in Ids :
        /\ IsFiniteSet(CountingOf(i))
        /\ calls[i] + Cardinality(CountingOf(i)) = nanos[i]

\* If code is left before its profiler is removed, every frame reports to the
\* profiler of its own instrument.
OwnSlot ==
    \A t \in Threads : \A k \in DOMAIN stack[t] :
        stack[t][k].iid \in active /\ stack[t][k].slot = given[stack[t][k].iid]

OwnFrame == \A t \in Threads : counting[t] # 0 => stack[t] # <<>> /\ Top(t).iid = counting[t]

Attributed == OwnSlot /\ OwnFrame /\ DepthIsReentry

IInv ==
    /\ TypeOK /\ Registered /\ Balanced /\ OnTime
    /\ \A i \in Ids : Ordered(i)
    /\ Quiet => Attributed

-----------------------------------------------------------------------------
(* Positions in a ring.                                                    *)

\* An index that ran over the end of a ring by less than a whole turn.
LEMMA WrapAround ==
    ASSUME NEW x \in 0..(2 * Ring - 1)
    PROVE  x % Ring = IF x < Ring THEN x ELSE x - Ring
<1>1. Ring \in Nat /\ Ring > 0 /\ x \in Nat
    BY RingAssumption
<1>2. CASE x < Ring
    BY <1>1, <1>2
<1>3. CASE x >= Ring
    <2>1. x = 1 * Ring + (x - Ring) /\ x - Ring \in 0..(Ring - 1)
        BY <1>1, <1>3
    <2> QED
        BY <1>1, <1>3, <2>1
<1> QED
    BY <1>1, <1>2, <1>3

\* The position after h, and the one before it.
LEMMA NextIndex ==
    ASSUME NEW h \in Index
    PROVE  /\ (h + 1) % Ring \in Index
           /\ (h + 1) % Ring = IF h + 1 < Ring THEN h + 1 ELSE 0
           /\ (h + Ring - 1) % Ring = Back(h, 0)
<1>1. Ring \in Nat /\ Ring > 0 /\ h \in 0..(Ring - 1)
    BY RingAssumption DEF Index
<1>2. ASSUME NEW x \in {h + 1, h + Ring - 1}
      PROVE  x % Ring = IF x < Ring THEN x ELSE x - Ring
    <2>1. x \in 0..(2 * Ring - 1)
        BY <1>1
    <2> QED
        BY <2>1, WrapAround
<1>3. /\ (h + 1) % Ring = IF h + 1 < Ring THEN h + 1 ELSE h + 1 - Ring
      /\ (h + Ring - 1) % Ring = IF h + Ring - 1 < Ring THEN h + Ring - 1 ELSE h + Ring - 1 - Ring
    BY <1>1, <1>2
<1> QED
    BY <1>1, <1>3 DEF Index, Back

\* Going back from h every position is met once, h itself last.
LEMMA BackIsOnto ==
    ASSUME NEW h \in Index
    PROVE  /\ \A k \in Index : Back(h, k) \in Index
           /\ \A x \in Index : \E k \in Index : Back(h, k) = x
           /\ \A k \in Index : Back(h, k) = h <=> k = Ring - 1
<1>1. Ring \in Nat /\ Ring > 0 /\ h \in 0..(Ring - 1)
    BY RingAssumption DEF Index
<1>2. \A k \in Index : Back(h, k) \in Index /\ (Back(h, k) = h <=> k = Ring - 1)
    BY <1>1 DEF Index, Back
<1>3. ASSUME NEW x \in Index
      PROVE  \E k \in Index : Back(h, k) = x
    <2>1. CASE x < h
        <3>1. h - 1 - x \in Index /\ Back(h, h - 1 - x) = x
            BY <1>1, <2>1 DEF Index, Back
        <3> QED
            BY <3>1
    <2>2. CASE x >= h
        <3>1. h - 1 - x + Ring \in Index /\ Back(h, h - 1 - x + Ring) = x
            BY <1>1, <2>2 DEF Index, Back
        <3> QED
            BY <3>1
    <2> QED
        BY <1>1, <2>1, <2>2 DEF Index
<1> QED
    BY <1>2, <1>3

\* After the next one is stored, every snapshot has one more that is younger.
LEMMA BackShifts ==
    ASSUME NEW h \in Index, NEW g, g = (h + 1) % Ring
    PROVE  /\ g \in Index /\ Back(g, 0) = h
           /\ \A k \in Index : k # 0 => /\ k - 1 \in Index /\ Back(g, k) = Back(h, k - 1)
                                        /\ Back(g, k) \in Index /\ Back(g, k) # h
<1>1. Ring \in Nat /\ Ring > 0 /\ h \in 0..(Ring - 1)
    BY RingAssumption DEF Index
<1>2. g = IF h + 1 < Ring THEN h + 1 ELSE 0
    BY NextIndex
<1> QED
    BY <1>1, <1>2 DEF Index, Back

\* Larger bounds do no harm.
LEMMA CumulativeUpTo ==
    ASSUME NEW b, NEW h, NEW n \in 0..Ring, NEW last \in Int,
           NEW c \in Nat, NEW m \in Nat, NEW d \in Nat, NEW p \in Nat,
           Filled(b, h, n, last), Cumulative(b, h, n, c, m), c <= d, m <= p
    PROVE  Cumulative(b, h, n, d, p)
<1> SUFFICES ASSUME NEW j \in Index, NEW k \in Index, j <= k, k < n
             PROVE  b[Back(h, j)].calls <= d /\ b[Back(h, j)].nanos <= p
    BY DEF Cumulative
<1>1. j < n
    BY RingAssumption DEF Index
<1>2. b[Back(h, j)] \in Snapshot
    BY <1>1 DEF Filled
<1>3. b[Back(h, j)].calls \in Nat /\ b[Back(h, j)].nanos \in Nat
    BY <1>2, BoundsAssumption DEF Snapshot
<1>4. b[Back(h, j)].calls <= c /\ b[Back(h, j)].nanos <= m
    BY DEF Cumulative
<1> QED
    BY <1>3, <1>4

\* A snapshot of the tick after the last one keeps the history.
LEMMA StoreKeepsHistory ==
    ASSUME NEW b \in [Index -> Snapshot \cup {NoSnapshot}], NEW h \in Index,
           NEW n \in 0..Ring, NEW last \in Int, NEW s \in Snapshot,
           Filled(b, h, n, last), n = 0 \/ s.time = last + 1,
           Cumulative(b, h, n, s.calls, s.nanos), s.calls <= s.nanos
    PROVE  \E q \in 0..Ring :
             /\ Filled([b EXCEPT ![h] = s], (h + 1) % Ring, q, s.time)
             /\ Cumulative([b EXCEPT ![h] = s], (h + 1) % Ring, q, s.calls, s.nanos)
<1> DEFINE a == [b EXCEPT ![h] = s]
           g == (h + 1) % Ring
           q == IF n = Ring THEN Ring ELSE n + 1
<1>1. /\ Ring \in Nat /\ Ring > 0 /\ MaxTick \in Nat /\ MaxCalls \in Nat
      /\ q \in 0..Ring /\ q > 0
    BY RingAssumption, BoundsAssumption
<1>2. /\ g \in Index /\ Back(g, 0) = h /\ 0 \in Index
      /\ \A k \in Index : k # 0 => /\ k - 1 \in Index /\ Back(g, k) = Back(h, k - 1)
                                   /\ Back(g, k) \in Index /\ Back(g, k) # h
    <2>1. g = (h + 1) % Ring
        OBVIOUS
    <2> HIDE DEF g
    <2>2. 0 \in Index
        BY <1>1 DEF Index
    <2> QED
        BY <2>1, <2>2, BackShifts
<1>3. a[h] = s /\ \A k \in Index : k # 0 => a[Back(g, k)] = b[Back(h, k - 1)]
    BY <1>2
<1>4. \A k \in Index : k \in Int /\ (k # 0 => (k < q <=> k - 1 < n))
    BY <1>1 DEF Index
<1>5. s.time \in Int /\ s.calls \in Nat /\ s.nanos \in Nat
    BY <1>1 DEF Snapshot
<1> HIDE DEF a, g
<1>6. Filled(a, g, q, s.time)
    <2> SUFFICES ASSUME NEW k \in Index
                 PROVE  IF k < q
                        THEN a[Back(g, k)] \in Snapshot /\ a[Back(g, k)].time = s.time - k
                        ELSE a[Back(g, k)] = NoSnapshot
        BY DEF Filled
    <2>1. CASE k = 0
        BY <1>1, <1>2, <1>3, <1>5, <2>1
    <2>2. CASE k # 0
        <3>1. IF k - 1 < n
              THEN b[Back(h, k - 1)] \in Snapshot /\ b[Back(h, k - 1)].time = last - (k - 1)
              ELSE b[Back(h, k - 1)] = NoSnapshot
            BY <1>2, <2>2 DEF Filled
        <3>2. k - 1 < n => s.time = last + 1
            BY <1>4, <2>2 DEF Index
        <3>3. k - 1 < n => last - (k - 1) = s.time - k
            BY <1>4, <1>5, <3>2
        <3> QED
            BY <1>3, <1>4, <2>2, <3>1, <3>3
    <2> QED
        BY <2>1, <2>2
<1>7. Cumulative(a, g, q, s.calls, s.nanos)
    <2> SUFFICES ASSUME NEW j \in Index, NEW k \in Index, j <= k, k < q
                 PROVE  /\ a[Back(g, k)].calls <= a[Back(g, j)].calls /\ a[Back(g, j)].calls <= s.calls
                        /\ a[Back(g, k)].nanos <= a[Back(g, j)].nanos /\ a[Back(g, j)].nanos <= s.nanos
                        /\ a[Back(g, k)].calls <= a[Back(g, k)].nanos
        BY DEF Cumulative
    <2>1. CASE k = 0
        <3>1. j = 0
            BY <2>1 DEF Index
        <3> QED
            BY <1>2, <1>3, <1>5, <2>1, <3>1
    <2>2. CASE k # 0
        <3>1. k - 1 \in Index /\ k - 1 < n /\ a[Back(g, k)] = b[Back(h, k - 1)]
            BY <1>2, <1>3, <1>4, <2>2
        <3>2. CASE j = 0
            <4>1. /\ b[Back(h, k - 1)].calls <= s.calls /\ b[Back(h, k - 1)].nanos <= s.nanos
                  /\ b[Back(h, k - 1)].calls <= b[Back(h, k - 1)].nanos
                <5>1. k - 1 <= k - 1
                    BY <1>4
                <5> QED
                    BY <3>1, <5>1 DEF Cumulative
            <4> QED
                BY <1>2, <1>3, <1>5, <3>1, <3>2, <4>1
        <3>3. CASE j # 0
            <4>1. j - 1 \in Index /\ j - 1 <= k - 1 /\ a[Back(g, j)] = b[Back(h, j - 1)]
                BY <1>2, <1>3, <1>4, <3>3
            <4> QED
                BY <3>1, <4>1 DEF Cumulative
        <3> QED
            BY <3>2, <3>3
    <2> QED
        BY <2>1, <2>2
<1> QED
    BY <1>1, <1>6, <1>7 DEF a, g

-----------------------------------------------------------------------------
(* What the steps below rest on.                                           *)

\* The types by name.
LEMMA Types ==
    ASSUME TypeOK
    PROVE  /\ MaxCalls \in Nat /\ MaxTick \in Nat /\ Ring \in Nat /\ Ring > 0
           /\ Ids \subseteq Nat \ {0} /\ Slot \subseteq Nat /\ active \subseteq Ids /\ woven \subseteq active
           /\ calls \in [Ids -> Nat] /\ nanos \in [Ids -> Nat]
           /\ \A i \in Ids : calls[i] \in Nat /\ nanos[i] \in Nat /\ nanos[i] <= MaxCalls
           /\ counting \in [Threads -> Ids \cup {0}]
           /\ depth \in [Threads -> [Ids -> Int]] /\ stack \in [Threads -> Seq(Frame)]
           /\ buffer \in [Ids -> [Index -> Snapshot \cup {NoSnapshot}]] /\ head \in [Ids -> Index]
           /\ tick \in Nat /\ tick > 0
           /\ reading # <<>> => /\ reading[1] \in Ids /\ reading[2] \in Nat /\ reading[3] \in Nat
                                /\ reading[2] <= MaxCalls
<1>1. MaxCalls \in Nat /\ MaxTick \in Nat /\ Ring \in Nat /\ Ring > 0
    BY BoundsAssumption, RingAssumption
<1>2. MaxId \in Nat /\ MaxSlots \in Nat
    BY BoundsAssumption
<1>3. Ids \subseteq Nat \ {0} /\ Slot \subseteq Nat
    BY <1>2 DEF Ids, Slot
<1>4. 0..MaxCalls \subseteq Nat
    BY <1>1
<1>5. calls \in [Ids -> Nat] /\ nanos \in [Ids -> Nat]
    BY <1>4 DEF TypeOK
<1>6. \A i \in Ids : calls[i] \in Nat /\ nanos[i] \in Nat /\ nanos[i] <= MaxCalls
    BY <1>1 DEF TypeOK
<1>7. tick \in Nat /\ tick > 0
    BY <1>1 DEF TypeOK
<1>8. reading # <<>> => /\ reading[1] \in Ids /\ reading[2] \in Nat /\ reading[3] \in Nat
                        /\ reading[2] <= MaxCalls
    BY <1>1 DEF TypeOK
<1> QED
    BY <1>1, <1>3, <1>5, <1>6, <1>7, <1>8 DEF TypeOK, Index

\* One depth is set.
LEMMA DepthSet ==
    ASSUME depth \in [Threads -> [Ids -> Int]], NEW t \in Threads, NEW i \in Ids, NEW v \in Int,
           NEW d, d = [depth EXCEPT ![t][i] = v]
    PROVE  /\ d \in [Threads -> [Ids -> Int]] /\ d[t][i] = v
           /\ \A u \in Threads, j \in Ids : u # t \/ j # i => d[u][j] = depth[u][j]
<1>1. d = [depth EXCEPT ![t] = [depth[t] EXCEPT ![i] = v]]
    OBVIOUS
<1>2. d[t] = [depth[t] EXCEPT ![i] = v] /\ \A u \in Threads : u # t => d[u] = depth[u]
    BY <1>1
<1>3. depth[t] \in [Ids -> Int]
    OBVIOUS
<1> QED
    BY <1>1, <1>2, <1>3

\* A history that nobody touches remains in order while the counters go up.
LEMMA OrderedKept ==
    ASSUME IInv, NEW i \in Ids,
           buffer'[i] = buffer[i], head'[i] = head[i],
           CallsRead(i) \in Nat, CallsRead(i)' \in Nat, CallsRead(i) <= CallsRead(i)',
           nanos'[i] \in Nat, nanos[i] <= nanos'[i],
           (i \in active \/ Read(i))' => (i \in active \/ Read(i)) /\ LastTick(i)' = LastTick(i)
    PROVE  Ordered(i)'
<1>1. PICK n \in 0..Ring, last \in Int :
        /\ Filled(buffer[i], head[i], n, last)
        /\ Cumulative(buffer[i], head[i], n, CallsRead(i), nanos[i])
        /\ i \in active \/ Read(i) => n = 0 \/ last = LastTick(i)
    BY DEF IInv, Ordered
<1>2. nanos[i] \in Nat
    BY Types DEF IInv
<1>3. Cumulative(buffer[i], head[i], n, CallsRead(i)', nanos'[i])
    BY <1>1, <1>2, CumulativeUpTo
<1>4. Filled(buffer'[i], head'[i], n, last)
    BY <1>1
<1>5. Cumulative(buffer'[i], head'[i], n, CallsRead(i)', nanos'[i])
    BY <1>3
<1>6. (i \in active \/ Read(i))' => n = 0 \/ last = LastTick(i)'
    BY <1>1
<1> QED
    BY <1>4, <1>5, <1>6 DEF Ordered

\* Steps that leave the collector and the registry alone.
LEMMA RingsKept ==
    ASSUME IInv, UNCHANGED <<registry, rings>>,
           \A i \in Ids : /\ calls'[i] \in Nat /\ calls[i] <= calls'[i]
                          /\ nanos'[i] \in Nat /\ nanos[i] <= nanos'[i]
    PROVE  OnTime' /\ \A i \in Ids : Ordered(i)'
<1>1. UNCHANGED <<active, buffer, head, tick, todo, reading, collector>>
    BY DEF registry, rings
<1>2. /\ \A i \in Ids : calls[i] \in Nat /\ nanos[i] \in Nat
      /\ reading # <<>> => reading[1] \in Ids /\ reading[2] \in Nat
    BY Types DEF IInv
<1>3. OnTime'
    BY <1>1, <1>2 DEF IInv, OnTime, Collecting
<1>4. ASSUME NEW i \in Ids PROVE Ordered(i)'
    <2>1. Read(i)' = Read(i) /\ LastTick(i)' = LastTick(i)
        BY <1>1 DEF Read, LastTick, Collecting
    <2>2. CallsRead(i) \in Nat /\ CallsRead(i)' \in Nat /\ CallsRead(i) <= CallsRead(i)'
        BY <1>1, <1>2 DEF CallsRead, Read
    <2> QED
        BY <1>1, <2>1, <2>2, OrderedKept
<1> QED
    BY <1>3, <1>4

-----------------------------------------------------------------------------
(* Frames.                                                                 *)

FramesIn(q, i) == {k \in DOMAIN q : q[k].iid = i}

\* A stack has finitely many frames of an instrument.
LEMMA FramesFinite ==
    ASSUME NEW q \in Seq(Frame), NEW i
    PROVE  IsFiniteSet(FramesIn(q, i)) /\ Cardinality(FramesIn(q, i)) \in Nat
<1>1. Len(q) \in Nat /\ DOMAIN q = 1..Len(q)
    OBVIOUS
<1>2. IsFiniteSet(1..Len(q))
    BY <1>1, FS_Interval
<1>3. FramesIn(q, i) \in SUBSET (1..Len(q))
    BY <1>1 DEF FramesIn
<1>4. IsFiniteSet(FramesIn(q, i))
    BY <1>2, <1>3, FS_Subset
<1> QED
    BY <1>4, FS_CardinalityType

\* A call adds one of the instrument that is called.
LEMMA FramesPushed ==
    ASSUME NEW q \in Seq(Frame), NEW f \in Frame, NEW i
    PROVE  Cardinality(FramesIn(Append(q, f), i)) =
             Cardinality(FramesIn(q, i)) + (IF f.iid = i THEN 1 ELSE 0)
<1>1. /\ Len(q) \in Nat /\ DOMAIN q = 1..Len(q)
      /\ DOMAIN Append(q, f) = 1..(Len(q) + 1)
      /\ \A k \in 1..Len(q) : Append(q, f)[k] = q[k]
      /\ Append(q, f)[Len(q) + 1] = f
    OBVIOUS
<1>2. IsFiniteSet(FramesIn(q, i)) /\ Cardinality(FramesIn(q, i)) \in Nat
    BY FramesFinite
<1>3. CASE f.iid = i
    <2>1. FramesIn(Append(q, f), i) = FramesIn(q, i) \cup {Len(q) + 1}
        BY <1>1, <1>3 DEF FramesIn
    <2>2. Len(q) + 1 \notin FramesIn(q, i)
        BY <1>1 DEF FramesIn
    <2> QED
        BY <1>2, <1>3, <2>1, <2>2, FS_AddElement, ZenonT(40)
<1>4. CASE f.iid # i
    <2>1. FramesIn(Append(q, f), i) = FramesIn(q, i)
        BY <1>1, <1>4 DEF FramesIn
    <2> QED
        BY <1>2, <1>4, <2>1
<1> QED
    BY <1>3, <1>4

Popped(q) == SubSeq(q, 1, Len(q) - 1)

\* A return takes the one on top.
LEMMA FramesPopped ==
    ASSUME NEW q \in Seq(Frame), q # <<>>, NEW i
    PROVE  /\ Popped(q) \in Seq(Frame)
           /\ \A k \in DOMAIN Popped(q) : k \in DOMAIN q /\ Popped(q)[k] = q[k]
           /\ Cardinality(FramesIn(Popped(q), i)) =
                Cardinality(FramesIn(q, i)) - (IF q[Len(q)].iid = i THEN 1 ELSE 0)
<1>1. /\ Len(q) \in Nat /\ Len(q) > 0 /\ DOMAIN q = 1..Len(q)
      /\ Popped(q) \in Seq(Frame) /\ DOMAIN Popped(q) = 1..(Len(q) - 1)
      /\ \A k \in 1..(Len(q) - 1) : Popped(q)[k] = q[k]
    BY DEF Popped
<1>2. IsFiniteSet(FramesIn(q, i)) /\ Cardinality(FramesIn(q, i)) \in Nat
    BY FramesFinite
<1>3. FramesIn(Popped(q), i) = FramesIn(q, i) \ {Len(q)}
    BY <1>1 DEF FramesIn
<1>4. Len(q) \in FramesIn(q, i) <=> q[Len(q)].iid = i
    BY <1>1 DEF FramesIn
<1>5. Cardinality(FramesIn(q, i) \ {Len(q)}) =
        IF Len(q) \in FramesIn(q, i) THEN Cardinality(FramesIn(q, i)) - 1
                                     ELSE Cardinality(FramesIn(q, i))
    BY <1>2, FS_RemoveElement
<1>6. \A k \in DOMAIN Popped(q) : k \in DOMAIN q /\ Popped(q)[k] = q[k]
    BY <1>1
<1> QED
    BY <1>1, <1>2, <1>3, <1>4, <1>5, <1>6

-----------------------------------------------------------------------------
(* Calls and their counts.                                                 *)

\* One more thread has added the time of a call and is about to count it.
LEMMA BalancedByExit ==
    ASSUME IInv, NEW t \in Threads, NEW p \in Ids, counting[t] = 0,
           nanos' = [nanos EXCEPT ![p] = @ + 1], counting' = [counting EXCEPT ![t] = p],
           calls' = calls
    PROVE  Balanced'
<1>1. /\ calls \in [Ids -> Nat] /\ nanos \in [Ids -> Nat]
      /\ counting \in [Threads -> Ids \cup {0}] /\ 0 \notin Ids
    BY Types DEF IInv
<1> SUFFICES ASSUME NEW i \in Ids
             PROVE  /\ IsFiniteSet(CountingOf(i)')
                    /\ calls'[i] + Cardinality(CountingOf(i)') = nanos'[i]
    BY DEF Balanced
<1>2. /\ IsFiniteSet(CountingOf(i)) /\ calls[i] + Cardinality(CountingOf(i)) = nanos[i]
      /\ Cardinality(CountingOf(i)) \in Nat
    BY FS_CardinalityType DEF IInv, Balanced
<1>3. CASE i = p
    <2>1. CountingOf(i)' = CountingOf(i) \cup {t} /\ t \notin CountingOf(i)
        BY <1>1, <1>3 DEF CountingOf
    <2>2. /\ IsFiniteSet(CountingOf(i)')
          /\ Cardinality(CountingOf(i)') = Cardinality(CountingOf(i)) + 1
        BY <1>2, <2>1, FS_AddElement
    <2> QED
        BY <1>1, <1>2, <1>3, <2>2
<1>4. CASE i # p
    <2>1. CountingOf(i)' = CountingOf(i)
        BY <1>1, <1>4 DEF CountingOf
    <2> QED
        BY <1>1, <1>2, <1>4, <2>1
<1> QED
    BY <1>3, <1>4

\* It counts the call.
LEMMA BalancedByCount ==
    ASSUME IInv, NEW t \in Threads, counting[t] # 0,
           calls' = [calls EXCEPT ![counting[t]] = @ + 1],
           counting' = [counting EXCEPT ![t] = 0], nanos' = nanos
    PROVE  /\ Balanced' /\ calls' \in [Ids -> 0..MaxCalls]
           /\ \A i \in Ids : calls[i] <= calls'[i]
<1> DEFINE p == counting[t]
<1>1. /\ calls \in [Ids -> Nat] /\ nanos \in [Ids -> Nat]
      /\ counting \in [Threads -> Ids \cup {0}] /\ 0 \notin Ids /\ p \in Ids
      /\ \A i \in Ids : nanos[i] <= MaxCalls
      /\ MaxCalls \in Nat
    BY Types DEF IInv
<1>2. ASSUME NEW i \in Ids
      PROVE  /\ IsFiniteSet(CountingOf(i)')
             /\ calls'[i] + Cardinality(CountingOf(i)') = nanos'[i]
             /\ calls'[i] \in 0..MaxCalls /\ calls[i] <= calls'[i]
    <2>1. /\ IsFiniteSet(CountingOf(i)) /\ calls[i] + Cardinality(CountingOf(i)) = nanos[i]
          /\ Cardinality(CountingOf(i)) \in Nat
        BY FS_CardinalityType DEF IInv, Balanced
    <2>2. CASE i = p
        <3>1. CountingOf(i)' = CountingOf(i) \ {t} /\ t \in CountingOf(i)
            BY <1>1, <2>2 DEF CountingOf
        <3>2. /\ IsFiniteSet(CountingOf(i)')
              /\ Cardinality(CountingOf(i)') = Cardinality(CountingOf(i)) - 1
            BY <2>1, <3>1, FS_RemoveElement
        <3>3. Cardinality(CountingOf(i)') \in Nat
            BY <3>2, FS_CardinalityType
        <3> QED
            BY <1>1, <2>1, <2>2, <3>2, <3>3
    <2>3. CASE i # p
        <3>1. CountingOf(i)' = CountingOf(i)
            BY <1>1, <2>3 DEF CountingOf
        <3>2. calls'[i] = calls[i]
            BY <1>1, <2>3
        <3> QED
            BY <1>1, <2>1, <2>3, <3>1, <3>2
    <2> QED
        BY <2>2, <2>3
<1>3. calls' \in [Ids -> Nat]
    BY <1>1
<1> QED
    BY <1>2, <1>3 DEF Balanced

\* A frame in which no profiler is replaced reports to its own instrument.
LEMMA OwnProfiler ==
    ASSUME IInv, Quiet, NEW t \in Threads, stack[t] # <<>>
    PROVE  Profiler(t) = {Top(t).iid}
<1>1. stack[t] \in Seq(Frame)
    BY Types DEF IInv
<1>2. Len(stack[t]) \in DOMAIN stack[t]
    BY <1>1
<1>3. Top(t).iid \in active /\ Top(t).slot = given[Top(t).iid]
    BY <1>2 DEF IInv, Attributed, OwnSlot, Top
<1>4. entries[Top(t).slot] = Top(t).iid
    BY <1>3 DEF IInv, Registered
<1> QED
    BY <1>3, <1>4 DEF Profiler

\* A thread on its own keeps its frames and depths right.
LEMMA AttributedByThread ==
    ASSUME IInv, Quiet, NEW t \in Threads, UNCHANGED registry,
           \A u \in Threads : u # t =>
             stack'[u] = stack[u] /\ counting'[u] = counting[u] /\ depth'[u] = depth[u],
           \A k \in DOMAIN stack'[t] :
             stack'[t][k].iid \in active /\ stack'[t][k].slot = given[stack'[t][k].iid],
           counting'[t] # 0 =>
             stack'[t] # <<>> /\ stack'[t][Len(stack'[t])].iid = counting'[t],
           \A j \in active \ LineIds :
             depth'[t][j] + (IF counting'[t] = j THEN 1 ELSE 0) = Cardinality(FramesIn(stack'[t], j))
    PROVE  Attributed'
<1>1. active' = active /\ given' = given
    BY DEF registry
<1>2. Attributed
    BY DEF IInv
<1>3. OwnSlot'
    BY <1>1, <1>2 DEF Attributed, OwnSlot
<1>4. OwnFrame'
    BY <1>2 DEF Attributed, OwnFrame, Top
<1>5. DepthIsReentry'
    <2> SUFFICES ASSUME NEW u \in Threads, NEW j \in active \ LineIds
                 PROVE  depth'[u][j] + (IF counting'[u] = j THEN 1 ELSE 0)
                          = Cardinality(FramesIn(stack'[u], j))
        BY <1>1 DEF DepthIsReentry, FramesIn
    <2>1. CASE u # t
        BY <1>2, <2>1 DEF Attributed, DepthIsReentry, FramesIn
    <2>2. CASE u = t
        BY <2>2
    <2> QED
        BY <2>1, <2>2
<1> QED
    BY <1>3, <1>4, <1>5 DEF Attributed

-----------------------------------------------------------------------------
(* The steps of the application.                                           *)

\* What holds of every one of them whose counters are in order.
LEMMA ApplicationStep ==
    ASSUME IInv, UNCHANGED <<registry, rings>>,
           stack' \in [Threads -> Seq(Frame)], depth' \in [Threads -> [Ids -> Int]],
           counting' \in [Threads -> Ids \cup {0}],
           calls' \in [Ids -> 0..MaxCalls], nanos' \in [Ids -> 0..MaxCalls],
           \A i \in Ids : calls[i] <= calls'[i] /\ nanos[i] <= nanos'[i],
           \A i \in Ids, t \in Threads : given[i] = -1 => depth'[t][i] = depth[t][i],
           Balanced', Quiet => Attributed'
    PROVE  IInv'
<1>1. UNCHANGED <<entries, given, active, woven, buffer, head, tick, todo, reading, collector>>
    BY DEF registry, rings
<1>2. TypeOK'
    BY <1>1 DEF IInv, TypeOK
<1>3. Registered'
    BY <1>1 DEF IInv, Registered
<1>4. MaxCalls \in Nat
    BY BoundsAssumption
<1>5. \A i \in Ids : calls'[i] \in Nat /\ nanos'[i] \in Nat
    BY <1>4
<1>6. OnTime' /\ \A i \in Ids : Ordered(i)'
    BY <1>5, RingsKept
<1> QED
    BY <1>2, <1>3, <1>6 DEF IInv

\* The counters that a step leaves as they are are in order.
LEMMA CountersKept ==
    ASSUME IInv, UNCHANGED <<counting, calls, nanos>>
    PROVE  /\ Balanced' /\ counting' \in [Threads -> Ids \cup {0}]
           /\ calls' \in [Ids -> 0..MaxCalls] /\ nanos' \in [Ids -> 0..MaxCalls]
           /\ \A i \in Ids : calls[i] <= calls'[i] /\ nanos[i] <= nanos'[i]
<1>1. \A i \in Ids : calls[i] \in Nat /\ nanos[i] \in Nat
    BY Types DEF IInv
<1>2. \A i \in Ids : calls[i] <= calls'[i] /\ nanos[i] <= nanos'[i]
    BY <1>1
<1> QED
    BY <1>2 DEF IInv, TypeOK, Balanced, CountingOf

\* enter: the frame is put on top, with the slot that was given.
LEMMA CallStep ==
    ASSUME IInv, NEW t \in Threads, NEW i \in Ids, Call(t, i)
    PROVE  IInv'
<1> DEFINE f == [iid |-> i, slot |-> given[i]]
<1>1. /\ i \in woven /\ counting[t] = 0 /\ stack' = [stack EXCEPT ![t] = Append(@, f)]
      /\ depth' = IF i \in LineIds THEN depth ELSE [depth EXCEPT ![t][i] = @ + 1]
      /\ UNCHANGED <<registry, counting, calls, nanos, rings>>
    BY DEF Call
<1>2. /\ stack \in [Threads -> Seq(Frame)] /\ depth \in [Threads -> [Ids -> Int]]
      /\ counting \in [Threads -> Ids \cup {0}] /\ 0 \notin Ids
      /\ active \subseteq Ids /\ i \in active
    BY <1>1, Types DEF IInv
<1>3. f \in Frame /\ given[i] # -1 /\ f.iid = i /\ f.slot = given[i]
    <2>1. given[i] \in Slot
        BY <1>2 DEF IInv, Registered
    <2>2. -1 \notin Slot
        BY Types DEF IInv
    <2> QED
        BY <2>1, <2>2 DEF Frame
<1> HIDE DEF f
<1>4. /\ stack' \in [Threads -> Seq(Frame)] /\ stack'[t] = Append(stack[t], f)
      /\ \A u \in Threads : u # t => stack'[u] = stack[u]
    BY <1>1, <1>2, <1>3
<1>5. /\ depth' \in [Threads -> [Ids -> Int]]
      /\ i \notin LineIds => depth'[t][i] = depth[t][i] + 1
      /\ \A u \in Threads, j \in Ids : u # t \/ j # i => depth'[u][j] = depth[u][j]
    <2>1. depth[t][i] + 1 \in Int
        BY <1>2
    <2>2. i \notin LineIds => depth' = [depth EXCEPT ![t][i] = depth[t][i] + 1]
        BY <1>1
    <2> QED
        BY <1>1, <1>2, <2>1, <2>2, DepthSet
<1>6. ASSUME Quiet PROVE Attributed'
    <2>1. Attributed /\ stack[t] \in Seq(Frame)
        BY <1>2, <1>6 DEF IInv
    <2>2. \A u \in Threads : u # t =>
             stack'[u] = stack[u] /\ counting'[u] = counting[u] /\ depth'[u] = depth[u]
        <3>1. \A u \in Threads : depth'[u] \in [Ids -> Int] /\ depth[u] \in [Ids -> Int]
            BY <1>2, <1>5
        <3> QED
            BY <1>1, <1>4, <1>5, <3>1
    <2>3. ASSUME NEW k \in DOMAIN stack'[t]
          PROVE  stack'[t][k].iid \in active /\ stack'[t][k].slot = given[stack'[t][k].iid]
        <3>1. /\ DOMAIN stack'[t] = 1..(Len(stack[t]) + 1) /\ DOMAIN stack[t] = 1..Len(stack[t])
              /\ stack'[t][k] = IF k = Len(stack[t]) + 1 THEN f ELSE stack[t][k]
            BY <1>3, <1>4, <2>1
        <3>2. k # Len(stack[t]) + 1 => k \in DOMAIN stack[t]
            BY <2>1, <3>1
        <3> QED
            BY <1>2, <1>3, <2>1, <3>1, <3>2 DEF Attributed, OwnSlot
    <2>4. ASSUME NEW j \in active \ LineIds
          PROVE  depth'[t][j] + (IF counting'[t] = j THEN 1 ELSE 0)
                   = Cardinality(FramesIn(stack'[t], j))
        <3>1. depth[t][j] = Cardinality(FramesIn(stack[t], j)) /\ counting'[t] # j
            <4>1. counting[t] # j
                BY <1>1, <1>2
            <4>2. depth[t][j] + 0 = Cardinality(FramesIn(stack[t], j))
                BY <2>1, <4>1 DEF Attributed, DepthIsReentry, FramesIn
            <4> QED
                BY <1>1, <1>2, <4>1, <4>2
        <3>2. Cardinality(FramesIn(stack'[t], j)) =
                Cardinality(FramesIn(stack[t], j)) + (IF i = j THEN 1 ELSE 0)
            BY <1>3, <1>4, <2>1, FramesPushed
        <3>3. depth'[t][j] = depth[t][j] + (IF i = j THEN 1 ELSE 0)
            BY <1>2, <1>5
        <3>4. depth'[t][j] \in Int
            BY <1>2, <1>5
        <3> QED
            BY <3>1, <3>2, <3>3, <3>4
    <2> QED
        BY <1>1, <1>6, <2>2, <2>3, <2>4, AttributedByThread
<1>7. \A j \in Ids, u \in Threads : given[j] = -1 => depth'[u][j] = depth[u][j]
    BY <1>3, <1>5
<1> QED
    BY <1>1, <1>4, <1>5, <1>6, <1>7, CountersKept, ApplicationStep

\* The frame on top goes.
LEMMA PopTop ==
    ASSUME IInv, NEW t \in Threads, stack[t] # <<>>, Pop(t)
    PROVE  /\ stack' \in [Threads -> Seq(Frame)] /\ stack'[t] = Popped(stack[t])
           /\ \A u \in Threads : u # t => stack'[u] = stack[u]
           /\ Attributed => \A k \in DOMAIN stack'[t] :
                stack'[t][k].iid \in active /\ stack'[t][k].slot = given[stack'[t][k].iid]
           /\ \A j : Cardinality(FramesIn(stack'[t], j)) =
                       Cardinality(FramesIn(stack[t], j)) - (IF Top(t).iid = j THEN 1 ELSE 0)
<1>1. stack \in [Threads -> Seq(Frame)] /\ stack[t] \in Seq(Frame)
    BY Types DEF IInv
<1>2. stack' = [stack EXCEPT ![t] = Popped(stack[t])]
    BY DEF Pop, Popped
<1>3. /\ Popped(stack[t]) \in Seq(Frame)
      /\ \A k \in DOMAIN Popped(stack[t]) : /\ k \in DOMAIN stack[t]
                                            /\ Popped(stack[t])[k] = stack[t][k]
      /\ \A j : Cardinality(FramesIn(Popped(stack[t]), j)) =
                  Cardinality(FramesIn(stack[t], j)) - (IF stack[t][Len(stack[t])].iid = j THEN 1 ELSE 0)
    BY <1>1, FramesPopped
<1>4. stack'[t] = Popped(stack[t])
    BY <1>1, <1>2
<1>5. Attributed => \A k \in DOMAIN stack[t] :
        stack[t][k].iid \in active /\ stack[t][k].slot = given[stack[t][k].iid]
    BY DEF Attributed, OwnSlot
<1> QED
    BY <1>1, <1>2, <1>3, <1>4, <1>5 DEF Top

\* A profiler that a frame reports to is active.
LEMMA ProfilerIsActive ==
    ASSUME IInv, NEW t \in Threads, NEW p \in Profiler(t)
    PROVE  p \in active /\ p \in Ids /\ given[p] # -1
<1>1. p \in active /\ active \subseteq Ids /\ -1 \notin Slot
    BY Types DEF IInv, Profiler
<1> QED
    BY <1>1 DEF IInv, Registered

\* The call of a method that is in no other call of it is over: its time is added.
LEMMA ReturnFromOutermost ==
    ASSUME IInv, NEW t \in Threads, Busy(t), Top(t).iid \notin LineIds,
           NEW p \in Profiler(t), depth[t][p] = 1, nanos[p] < MaxCalls,
           depth' = [depth EXCEPT ![t][p] = @ - 1],
           nanos' = [nanos EXCEPT ![p] = @ + 1], counting' = [counting EXCEPT ![t] = p],
           UNCHANGED <<stack, registry, calls, rings>>
    PROVE  IInv'
<1>1. /\ stack \in [Threads -> Seq(Frame)] /\ depth \in [Threads -> [Ids -> Int]]
      /\ nanos \in [Ids -> Nat] /\ counting \in [Threads -> Ids \cup {0}] /\ 0 \notin Ids
      /\ active \subseteq Ids /\ MaxCalls \in Nat
      /\ \A i \in Ids : calls[i] \in Nat /\ nanos[i] \in Nat
    BY Types DEF IInv
<1>2. p \in active /\ p \in Ids /\ given[p] # -1 /\ stack[t] # <<>> /\ counting[t] = 0
    BY ProfilerIsActive DEF Busy
<1>3. /\ depth' \in [Threads -> [Ids -> Int]] /\ depth'[t][p] = 0
      /\ \A u \in Threads, j \in Ids : u # t \/ j # p => depth'[u][j] = depth[u][j]
    <2>1. depth' = [depth EXCEPT ![t][p] = 0]
        <3>1. depth[t][p] - 1 = 0
            OBVIOUS
        <3>2. depth' = [depth EXCEPT ![t][p] = depth[t][p] - 1]
            OBVIOUS
        <3> QED
            BY <3>1, <3>2
    <2> QED
        BY <1>1, <1>2, <2>1, DepthSet
<1>4. /\ counting' \in [Threads -> Ids \cup {0}] /\ counting'[t] = p
      /\ \A u \in Threads : u # t => counting'[u] = counting[u]
    BY <1>1, <1>2
<1>5. nanos' \in [Ids -> 0..MaxCalls] /\ \A i \in Ids : nanos[i] <= nanos'[i]
    <2>1. nanos \in [Ids -> 0..MaxCalls] /\ nanos[p] + 1 \in 0..MaxCalls
        BY <1>1, <1>2 DEF IInv, TypeOK
    <2> QED
        BY <1>1, <1>2, <2>1
<1>6. Balanced'
    BY <1>2, BalancedByExit
<1>7. calls' \in [Ids -> 0..MaxCalls] /\ \A i \in Ids : calls[i] <= calls'[i]
    BY <1>1 DEF IInv, TypeOK
<1>8. ASSUME Quiet PROVE Attributed'
    <2>1. Attributed /\ Top(t).iid = p
        BY <1>2, <1>8, OwnProfiler DEF IInv
    <2>2. \A u \in Threads : u # t =>
             stack'[u] = stack[u] /\ counting'[u] = counting[u] /\ depth'[u] = depth[u]
        <3>1. \A u \in Threads : depth'[u] \in [Ids -> Int] /\ depth[u] \in [Ids -> Int]
            BY <1>1, <1>3
        <3> QED
            BY <1>3, <1>4, <3>1
    <2>3. \A k \in DOMAIN stack'[t] :
            stack'[t][k].iid \in active /\ stack'[t][k].slot = given[stack'[t][k].iid]
        BY <2>1 DEF Attributed, OwnSlot
    <2>4. ASSUME NEW j \in active \ LineIds
          PROVE  depth'[t][j] + (IF counting'[t] = j THEN 1 ELSE 0)
                   = Cardinality(FramesIn(stack'[t], j))
        <3>1. depth[t][j] + (IF counting[t] = j THEN 1 ELSE 0) = Cardinality(FramesIn(stack[t], j))
            BY <2>1 DEF Attributed, DepthIsReentry, FramesIn
        <3>2. counting[t] # j /\ depth[t][j] \in Int
            BY <1>1, <1>2
        <3>3. stack' = stack
            OBVIOUS
        <3> QED
            BY <1>1, <1>3, <1>4, <3>1, <3>2, <3>3
    <2>5. counting'[t] # 0 => stack'[t] # <<>> /\ stack'[t][Len(stack'[t])].iid = counting'[t]
        BY <1>2, <1>4, <2>1 DEF Top
    <2> QED
        BY <1>8, <2>2, <2>3, <2>4, <2>5, AttributedByThread
<1>9. \A j \in Ids, u \in Threads : given[j] = -1 => depth'[u][j] = depth[u][j]
    BY <1>2, <1>3
<1> QED
    BY <1>1, <1>3, <1>4, <1>5, <1>6, <1>7, <1>8, <1>9, ApplicationStep

\* A recursive call is over: the frame goes and nothing is counted.
LEMMA ReturnFromInner ==
    ASSUME IInv, NEW t \in Threads, Busy(t), Pop(t), Top(t).iid \notin LineIds,
           NEW p \in Profiler(t), depth' = [depth EXCEPT ![t][p] = @ - 1],
           UNCHANGED <<registry, counting, calls, nanos, rings>>
    PROVE  IInv'
<1>1. /\ depth \in [Threads -> [Ids -> Int]] /\ 0 \notin Ids /\ active \subseteq Ids
    BY Types DEF IInv
<1>2. p \in active /\ p \in Ids /\ given[p] # -1 /\ stack[t] # <<>> /\ counting[t] = 0
    BY ProfilerIsActive DEF Busy
<1>3. /\ depth' \in [Threads -> [Ids -> Int]] /\ depth'[t][p] = depth[t][p] - 1
      /\ \A u \in Threads, j \in Ids : u # t \/ j # p => depth'[u][j] = depth[u][j]
    <2>1. depth[t][p] - 1 \in Int /\ depth' = [depth EXCEPT ![t][p] = depth[t][p] - 1]
        BY <1>1, <1>2
    <2> QED
        BY <1>1, <1>2, <2>1, DepthSet
<1>4. /\ stack' \in [Threads -> Seq(Frame)]
      /\ \A u \in Threads : u # t => stack'[u] = stack[u]
      /\ Attributed => \A k \in DOMAIN stack'[t] :
            stack'[t][k].iid \in active /\ stack'[t][k].slot = given[stack'[t][k].iid]
      /\ \A j : Cardinality(FramesIn(stack'[t], j)) =
                  Cardinality(FramesIn(stack[t], j)) - (IF Top(t).iid = j THEN 1 ELSE 0)
    BY <1>2, PopTop
<1>5. ASSUME Quiet PROVE Attributed'
    <2>1. Attributed /\ Top(t).iid = p
        BY <1>2, <1>5, OwnProfiler DEF IInv
    <2>2. \A u \in Threads : u # t =>
             stack'[u] = stack[u] /\ counting'[u] = counting[u] /\ depth'[u] = depth[u]
        <3>1. \A u \in Threads : depth'[u] \in [Ids -> Int] /\ depth[u] \in [Ids -> Int]
            BY <1>1, <1>3
        <3> QED
            BY <1>3, <1>4, <3>1
    <2>3. ASSUME NEW j \in active \ LineIds
          PROVE  depth'[t][j] + (IF counting'[t] = j THEN 1 ELSE 0)
                   = Cardinality(FramesIn(stack'[t], j))
        <3>1. depth[t][j] + (IF counting[t] = j THEN 1 ELSE 0) = Cardinality(FramesIn(stack[t], j))
            BY <2>1 DEF Attributed, DepthIsReentry, FramesIn
        <3>2. counting[t] # j /\ depth[t][j] \in Int /\ counting'[t] # j
            BY <1>1, <1>2
        <3>3. depth'[t][j] = depth[t][j] - (IF p = j THEN 1 ELSE 0)
            BY <1>1, <1>3
        <3>4. Cardinality(FramesIn(stack'[t], j)) =
                  Cardinality(FramesIn(stack[t], j)) - (IF p = j THEN 1 ELSE 0)
            BY <1>4, <2>1
        <3> QED
            BY <3>1, <3>2, <3>3, <3>4
    <2> QED
        BY <1>2, <1>4, <1>5, <2>1, <2>2, <2>3, AttributedByThread
<1>6. \A j \in Ids, u \in Threads : given[j] = -1 => depth'[u][j] = depth[u][j]
    BY <1>2, <1>3
<1> QED
    BY <1>3, <1>4, <1>5, <1>6, CountersKept, ApplicationStep

\* exit, or a frame whose profiler is gone.
LEMMA ReturnStep ==
    ASSUME IInv, NEW t \in Threads, Return(t)
    PROVE  IInv'
<1>1. Busy(t) /\ Top(t).iid \notin LineIds /\ UNCHANGED <<registry, calls, rings>>
    BY DEF Return
<1>2. CASE Profiler(t) = {} /\ Pop(t) /\ UNCHANGED <<depth, counting, nanos>>
    <2>1. ~Quiet
        BY <1>1, <1>2, OwnProfiler DEF Busy
    <2>2. stack' \in [Threads -> Seq(Frame)] /\ depth' \in [Threads -> [Ids -> Int]]
        BY <1>1, <1>2, PopTop, Types DEF Busy, IInv
    <2> QED
        BY <1>1, <1>2, <2>1, <2>2, CountersKept, ApplicationStep
<1>3. ASSUME NEW p \in Profiler(t), depth[t][p] = 1, nanos[p] < MaxCalls,
             depth' = [depth EXCEPT ![t][p] = @ - 1],
             nanos' = [nanos EXCEPT ![p] = @ + 1], counting' = [counting EXCEPT ![t] = p],
             UNCHANGED stack
      PROVE  IInv'
    BY <1>1, <1>3, ReturnFromOutermost
<1>4. ASSUME NEW p \in Profiler(t), depth' = [depth EXCEPT ![t][p] = @ - 1],
             Pop(t), UNCHANGED <<counting, nanos>>
      PROVE  IInv'
    BY <1>1, <1>4, ReturnFromInner
<1> QED
    BY <1>2, <1>3, <1>4 DEF Return

\* Code with the probes of a line is left: no depth is kept for it.
LEMMA ReturnLineStep ==
    ASSUME IInv, NEW t \in Threads, ReturnLine(t)
    PROVE  IInv'
<1>1. /\ Pop(t) /\ Top(t).iid \in LineIds /\ stack[t] # <<>> /\ counting[t] = 0
      /\ UNCHANGED <<registry, counters, rings>>
    BY DEF ReturnLine, Busy
<1>2. UNCHANGED <<depth, counting, calls, nanos>>
    BY <1>1 DEF counters
<1>3. /\ stack' \in [Threads -> Seq(Frame)]
      /\ \A u \in Threads : u # t => stack'[u] = stack[u]
      /\ Attributed => \A k \in DOMAIN stack'[t] :
            stack'[t][k].iid \in active /\ stack'[t][k].slot = given[stack'[t][k].iid]
      /\ \A j : Cardinality(FramesIn(stack'[t], j)) =
                  Cardinality(FramesIn(stack[t], j)) - (IF Top(t).iid = j THEN 1 ELSE 0)
    BY <1>1, PopTop
<1>4. depth \in [Threads -> [Ids -> Int]] /\ stack \in [Threads -> Seq(Frame)]
    BY Types DEF IInv
<1>5. ASSUME Quiet PROVE Attributed'
    <2>1. Attributed
        BY <1>5 DEF IInv
    <2>2. ASSUME NEW j \in active \ LineIds
          PROVE  depth'[t][j] + (IF counting'[t] = j THEN 1 ELSE 0)
                   = Cardinality(FramesIn(stack'[t], j))
        <3>1. depth[t][j] + (IF counting[t] = j THEN 1 ELSE 0) = Cardinality(FramesIn(stack[t], j))
            BY <2>1 DEF Attributed, DepthIsReentry, FramesIn
        <3>2. Cardinality(FramesIn(stack'[t], j)) = Cardinality(FramesIn(stack[t], j)) - 0
            BY <1>1, <1>3
        <3>3. Cardinality(FramesIn(stack[t], j)) \in Nat
            BY <1>4, FramesFinite
        <3> QED
            BY <1>2, <3>1, <3>2, <3>3
    <2> QED
        BY <1>1, <1>2, <1>3, <1>5, <2>1, <2>2, AttributedByThread
<1> QED
    BY <1>1, <1>2, <1>3, <1>4, <1>5, CountersKept, ApplicationStep

\* What a line instrument notes has nothing to do with the depths of methods.
LEMMA AttributedInLine ==
    ASSUME IInv, Quiet, NEW t \in Threads, Busy(t), Top(t).iid \in LineIds,
           NEW p \in Profiler(t), NEW v \in Int, depth' = [depth EXCEPT ![t][p] = v],
           counting' = counting \/ counting' = [counting EXCEPT ![t] = p],
           UNCHANGED <<stack, registry>>
    PROVE  Attributed'
<1>1. /\ depth \in [Threads -> [Ids -> Int]] /\ counting \in [Threads -> Ids \cup {0}]
      /\ 0 \notin Ids /\ active \subseteq Ids
    BY Types DEF IInv
<1>2. /\ p \in Ids /\ p = Top(t).iid /\ p \in LineIds
      /\ stack[t] # <<>> /\ counting[t] = 0 /\ Attributed
    BY ProfilerIsActive, OwnProfiler DEF Busy, IInv
<1>3. /\ depth' \in [Threads -> [Ids -> Int]]
      /\ \A u \in Threads, j \in Ids : u # t \/ j # p => depth'[u][j] = depth[u][j]
    BY <1>1, <1>2, DepthSet
<1>4. /\ \A u \in Threads : u # t => counting'[u] = counting[u]
      /\ counting'[t] \in {0, p}
    BY <1>1, <1>2
<1>5. \A u \in Threads : u # t =>
         stack'[u] = stack[u] /\ counting'[u] = counting[u] /\ depth'[u] = depth[u]
    <2>1. \A u \in Threads : depth'[u] \in [Ids -> Int] /\ depth[u] \in [Ids -> Int]
        BY <1>1, <1>3
    <2> QED
        BY <1>3, <1>4, <2>1
<1>6. \A k \in DOMAIN stack'[t] :
        stack'[t][k].iid \in active /\ stack'[t][k].slot = given[stack'[t][k].iid]
    BY <1>2 DEF Attributed, OwnSlot
<1>7. counting'[t] # 0 => stack'[t] # <<>> /\ stack'[t][Len(stack'[t])].iid = counting'[t]
    BY <1>2, <1>4 DEF Top
<1>8. ASSUME NEW j \in active \ LineIds
      PROVE  depth'[t][j] + (IF counting'[t] = j THEN 1 ELSE 0)
               = Cardinality(FramesIn(stack'[t], j))
    <2>1. depth[t][j] + (IF counting[t] = j THEN 1 ELSE 0) = Cardinality(FramesIn(stack[t], j))
        BY <1>2 DEF Attributed, DepthIsReentry, FramesIn
    <2>2. counting[t] # j /\ counting'[t] # j
        BY <1>1, <1>2, <1>4
    <2>3. depth'[t][j] = depth[t][j]
        BY <1>1, <1>2, <1>3
    <2> QED
        BY <2>1, <2>2, <2>3
<1> QED
    BY <1>5, <1>6, <1>7, <1>8, AttributedByThread

\* enterLine.
LEMMA EnterLineStep ==
    ASSUME IInv, NEW t \in Threads, EnterLine(t)
    PROVE  IInv'
<1>1. PICK p \in Profiler(t) : depth' = [depth EXCEPT ![t][p] = 1]
    BY DEF EnterLine
<1>2. /\ Busy(t) /\ Top(t).iid \in LineIds
      /\ UNCHANGED <<stack, registry, counting, calls, nanos, rings>>
    BY DEF EnterLine
<1>3. depth \in [Threads -> [Ids -> Int]] /\ stack \in [Threads -> Seq(Frame)] /\ 1 \in Int
    BY Types DEF IInv
<1>4. p \in Ids /\ given[p] # -1
    BY ProfilerIsActive
<1>5. /\ depth' \in [Threads -> [Ids -> Int]]
      /\ \A j \in Ids, u \in Threads : given[j] = -1 => depth'[u][j] = depth[u][j]
    BY <1>1, <1>3, <1>4, DepthSet
<1>6. Quiet => Attributed'
    BY <1>1, <1>2, <1>3, AttributedInLine
<1> QED
    BY <1>2, <1>3, <1>5, <1>6, CountersKept, ApplicationStep

\* exitLine, as far as the total.
LEMMA ExitLineStep ==
    ASSUME IInv, NEW t \in Threads, ExitLine(t)
    PROVE  IInv'
<1>1. PICK p \in Profiler(t) :
        /\ depth[t][p] = 1 /\ nanos[p] < MaxCalls
        /\ nanos' = [nanos EXCEPT ![p] = @ + 1]
        /\ depth' = [depth EXCEPT ![t][p] = 0]
        /\ counting' = [counting EXCEPT ![t] = p]
    BY DEF ExitLine
<1>2. /\ Busy(t) /\ Top(t).iid \in LineIds /\ counting[t] = 0
      /\ UNCHANGED <<stack, registry, calls, rings>>
    BY DEF ExitLine, Busy
<1>3. /\ depth \in [Threads -> [Ids -> Int]] /\ stack \in [Threads -> Seq(Frame)] /\ 0 \in Int
      /\ counting \in [Threads -> Ids \cup {0}] /\ MaxCalls \in Nat
      /\ nanos \in [Ids -> 0..MaxCalls]
      /\ \A i \in Ids : calls[i] \in Nat /\ nanos[i] \in Nat
    BY Types, SMTT(30) DEF IInv, TypeOK
<1>4. p \in Ids /\ given[p] # -1
    BY ProfilerIsActive
<1>5. /\ depth' \in [Threads -> [Ids -> Int]]
      /\ \A j \in Ids, u \in Threads : given[j] = -1 => depth'[u][j] = depth[u][j]
    BY <1>1, <1>3, <1>4, DepthSet
<1>6. Quiet => Attributed'
    BY <1>1, <1>2, <1>3, AttributedInLine
<1>7. nanos' \in [Ids -> 0..MaxCalls] /\ \A i \in Ids : nanos[i] <= nanos'[i]
    <2>1. nanos[p] + 1 \in 0..MaxCalls
        BY <1>1, <1>3, <1>4
    <2> QED
        BY <1>1, <1>3, <1>4, <2>1
<1>8. Balanced' /\ counting' \in [Threads -> Ids \cup {0}]
    BY <1>1, <1>2, <1>3, <1>4, BalancedByExit
<1>9. calls' \in [Ids -> 0..MaxCalls] /\ \A i \in Ids : calls[i] <= calls'[i]
    BY <1>2, <1>3 DEF IInv, TypeOK
<1> QED
    BY <1>2, <1>3, <1>5, <1>6, <1>7, <1>8, <1>9, ApplicationStep

\* The call is counted, and a method is left.
LEMMA CountStep ==
    ASSUME IInv, NEW t \in Threads, Count(t)
    PROVE  IInv'
<1>1. /\ counting[t] # 0
      /\ calls' = [calls EXCEPT ![counting[t]] = @ + 1]
      /\ counting' = [counting EXCEPT ![t] = 0]
      /\ UNCHANGED <<registry, depth, nanos, rings>>
      /\ IF Top(t).iid \in LineIds THEN UNCHANGED stack ELSE Pop(t)
    BY DEF Count
<1>2. /\ stack \in [Threads -> Seq(Frame)] /\ depth \in [Threads -> [Ids -> Int]]
      /\ counting \in [Threads -> Ids \cup {0}] /\ 0 \notin Ids /\ active \subseteq Ids
      /\ \A i \in Ids : nanos[i] \in Nat
    BY Types DEF IInv
<1>3. /\ Balanced' /\ calls' \in [Ids -> 0..MaxCalls]
      /\ \A i \in Ids : calls[i] <= calls'[i]
    BY <1>1, BalancedByCount
<1>4. stack' \in [Threads -> Seq(Frame)]
    <2>1. SubSeq(stack[t], 1, Len(stack[t]) - 1) \in Seq(Frame)
        <3>1. stack[t] \in Seq(Frame)
            BY <1>2
        <3> QED
            BY <3>1
    <2> QED
        BY <1>1, <1>2, <2>1 DEF Pop
<1>5. /\ counting' \in [Threads -> Ids \cup {0}] /\ counting'[t] = 0
      /\ \A u \in Threads : u # t => counting'[u] = counting[u]
    BY <1>1, <1>2
<1>6. ASSUME Quiet PROVE Attributed'
    <2>1. Attributed /\ stack[t] # <<>> /\ Top(t).iid = counting[t]
        BY <1>1, <1>6 DEF IInv, Attributed, OwnFrame
    <2>2. /\ \A u \in Threads : u # t => stack'[u] = stack[u]
          /\ \A k \in DOMAIN stack'[t] :
               stack'[t][k].iid \in active /\ stack'[t][k].slot = given[stack'[t][k].iid]
        <3>1. CASE Top(t).iid \in LineIds
            BY <1>1, <2>1, <3>1 DEF Attributed, OwnSlot
        <3>2. CASE Top(t).iid \notin LineIds
            BY <1>1, <2>1, <3>2, PopTop
        <3> QED
            BY <3>1, <3>2
    <2>3. ASSUME NEW j \in active \ LineIds
          PROVE  depth'[t][j] + (IF counting'[t] = j THEN 1 ELSE 0)
                   = Cardinality(FramesIn(stack'[t], j))
        <3>1. depth[t][j] + (IF counting[t] = j THEN 1 ELSE 0) = Cardinality(FramesIn(stack[t], j))
            BY <2>1 DEF Attributed, DepthIsReentry, FramesIn
        <3>2. /\ depth[t][j] \in Int /\ Cardinality(FramesIn(stack[t], j)) \in Nat
              /\ counting'[t] # j
            BY <1>2, <1>5, FramesFinite
        <3>3. CASE Top(t).iid \in LineIds
            <4>1. counting[t] # j /\ stack' = stack
                BY <1>1, <2>1, <3>3
            <4> QED
                BY <1>1, <3>1, <3>2, <4>1
        <3>4. CASE Top(t).iid \notin LineIds
            <4>1. Cardinality(FramesIn(stack'[t], j)) =
                    Cardinality(FramesIn(stack[t], j)) - (IF counting[t] = j THEN 1 ELSE 0)
                <5>1. Cardinality(FramesIn(stack'[t], j)) =
                        Cardinality(FramesIn(stack[t], j)) - (IF Top(t).iid = j THEN 1 ELSE 0)
                    <6>1. Pop(t)
                        BY <1>1, <3>4
                    <6> QED
                        BY <2>1, <6>1, PopTop
                <5> QED
                    BY <2>1, <5>1
            <4> QED
                BY <1>1, <3>1, <3>2, <4>1
        <3> QED
            BY <3>3, <3>4
    <2> QED
        BY <1>1, <1>5, <1>6, <2>2, <2>3, AttributedByThread
<1>7. /\ nanos' \in [Ids -> 0..MaxCalls] /\ \A i \in Ids : nanos[i] <= nanos'[i]
      /\ depth' \in [Threads -> [Ids -> Int]]
    BY <1>1, <1>2 DEF IInv, TypeOK
<1>8. \A j \in Ids, u \in Threads : given[j] = -1 => depth'[u][j] = depth[u][j]
    BY <1>1
<1> QED
    BY <1>1, <1>3, <1>4, <1>5, <1>6, <1>7, <1>8, ApplicationStep

-----------------------------------------------------------------------------
(* The steps of the event loop.                                            *)

\* A new profiler has no frames, no calls and no history.
LEMMA CreateStep ==
    ASSUME IInv, NEW i \in Ids, Create(i)
    PROVE  IInv'
<1>1. PICK s \in Slot :
        /\ FirstFree(s)
        /\ entries' = [entries EXCEPT ![s] = i]
        /\ given' = [given EXCEPT ![i] = s]
    BY DEF Create
<1>2. /\ given[i] = -1 /\ active' = active \cup {i}
      /\ UNCHANGED <<woven, stack, counters, rings>>
    BY DEF Create
<1>3. UNCHANGED <<depth, counting, calls, nanos, buffer, head, tick, todo, reading, collector>>
    BY <1>2 DEF counters, rings
<1>4. /\ 0 \notin Ids /\ -1 \notin Slot /\ active \subseteq Ids /\ Index \subseteq Int
      /\ entries \in [Slot -> Ids \cup {0}] /\ given \in [Ids -> Slot \cup {-1}]
      /\ stack \in [Threads -> Seq(Frame)] /\ Ring \in Nat /\ head \in [Ids -> Index]
      /\ \A j \in Ids : calls[j] \in Nat /\ nanos[j] \in Nat
      /\ reading # <<>> => reading[1] \in Ids /\ reading[2] \in Nat
    <2>1. 0 \notin Ids /\ -1 \notin Slot
        BY Types DEF IInv
    <2>2. Ring \in Nat /\ Index \subseteq Int
        BY RingAssumption DEF Index
    <2> QED
        BY <2>1, <2>2, Types DEF IInv, TypeOK
<1>5. Registered /\ entries[s] \notin active /\ i \notin active
    BY <1>1, <1>2, <1>4 DEF IInv, Registered, FirstFree, Free
<1>6. TypeOK'
    BY <1>1, <1>2, <1>3, <1>4 DEF IInv, TypeOK
<1>7. Registered'
    <2>1. ASSUME NEW r \in Slot, entries'[r] # 0
          PROVE  given'[entries'[r]] = r
        <3>1. CASE r = s
            BY <1>1, <1>4, <3>1
        <3>2. CASE r # s
            <4>1. entries'[r] = entries[r] /\ given[entries[r]] = r
                BY <1>1, <1>4, <1>5, <2>1, <3>2 DEF Registered
            <4>2. entries[r] # i /\ entries[r] \in Ids
                BY <1>2, <1>4, <2>1, <4>1
            <4> QED
                BY <1>1, <1>4, <4>1, <4>2
        <3> QED
            BY <3>1, <3>2
    <2>2. ASSUME NEW j \in active'
          PROVE  given'[j] \in Slot /\ entries'[given'[j]] = j
        <3>1. CASE j = i
            BY <1>1, <1>4, <3>1
        <3>2. CASE j # i
            <4>1. j \in active /\ given[j] \in Slot /\ entries[given[j]] = j
                BY <1>2, <1>5, <3>2 DEF Registered
            <4>2. given'[j] = given[j] /\ given[j] # s
                BY <1>1, <1>4, <1>5, <3>2, <4>1
            <4> QED
                BY <1>1, <1>4, <4>1, <4>2
        <3> QED
            BY <3>1, <3>2
    <2>3. ASSUME NEW j \in Ids, given'[j] = -1
          PROVE  given[j] = -1
        BY <1>1, <1>4, <2>3
    <2> QED
        BY <1>3, <1>5, <2>1, <2>2, <2>3 DEF Registered
<1>8. Balanced' /\ OnTime'
    BY <1>3 DEF IInv, Balanced, CountingOf, OnTime, Collecting
<1>9. ASSUME NEW j \in Ids PROVE Ordered(j)'
    <2>1. CASE j = i
        <3>1. \A k \in Index : buffer'[i][k] = NoSnapshot
            BY <1>2, <1>3, <1>5 DEF Registered
        <3>2. \A k \in Index : Back(head'[i], k) \in Index
            BY <1>3, <1>4, BackIsOnto
        <3>3. Filled(buffer'[i], head'[i], 0, 0)
            BY <1>4, <3>1, <3>2, SMTT(30) DEF Filled, Index
        <3>4. Cumulative(buffer'[i], head'[i], 0, CallsRead(i)', nanos'[i])
            BY <1>4 DEF Cumulative, Index
        <3>5. 0 \in 0..Ring /\ 0 \in Int
            BY <1>4
        <3> QED
            BY <2>1, <3>3, <3>4, <3>5 DEF Ordered
    <2>2. CASE j # i
        <3>1. Read(j)' = Read(j) /\ LastTick(j)' = LastTick(j) /\ CallsRead(j)' = CallsRead(j)
            BY <1>3 DEF Read, LastTick, Collecting, CallsRead
        <3>2. CallsRead(j) \in Nat
            BY <1>4 DEF CallsRead, Read
        <3>3. CallsRead(j) <= CallsRead(j)' /\ nanos'[j] \in Nat /\ nanos[j] <= nanos'[j]
            BY <1>3, <1>4, <3>1, <3>2
        <3>4. j \in active' => j \in active
            BY <1>2, <2>2
        <3> QED
            BY <1>3, <3>1, <3>2, <3>3, <3>4, OrderedKept
    <2> QED
        BY <2>1, <2>2
<1>10. ASSUME Quiet PROVE Attributed'
    <2>1. Attributed
        BY <1>10 DEF IInv
    <2>2. ASSUME NEW t \in Threads, NEW k \in DOMAIN stack[t]
          PROVE  /\ stack[t][k].iid \in active /\ stack[t][k].iid # i
                 /\ stack[t][k].slot = given'[stack[t][k].iid]
        <3>1. stack[t][k].iid \in active /\ stack[t][k].slot = given[stack[t][k].iid]
            BY <2>1 DEF Attributed, OwnSlot
        <3> QED
            BY <1>1, <1>4, <1>5, <3>1
    <2>3. OwnSlot'
        BY <1>2, <2>2 DEF OwnSlot
    <2>4. OwnFrame'
        BY <1>2, <1>3, <2>1 DEF Attributed, OwnFrame, Top
    <2>5. ASSUME NEW t \in Threads
          PROVE  depth[t][i] + (IF counting[t] = i THEN 1 ELSE 0) = Cardinality(FramesIn(stack[t], i))
        <3>1. FramesIn(stack[t], i) = {}
            BY <2>2 DEF FramesIn
        <3>2. counting[t] # i
            <4>1. ASSUME counting[t] = i PROVE FALSE
                <5>1. stack[t] # <<>> /\ Top(t).iid = i
                    BY <1>4, <2>1, <4>1 DEF Attributed, OwnFrame
                <5>2. Len(stack[t]) \in DOMAIN stack[t]
                    BY <1>4, <5>1
                <5> QED
                    BY <2>2, <5>1, <5>2 DEF Top
            <4> QED
                BY <4>1
        <3>3. depth[t][i] = 0
            BY <1>2, <1>5 DEF Registered
        <3> QED
            BY <3>1, <3>2, <3>3, FS_EmptySet
    <2>6. ASSUME NEW t \in Threads, NEW j \in active' \ LineIds
          PROVE  depth[t][j] + (IF counting[t] = j THEN 1 ELSE 0) = Cardinality(FramesIn(stack[t], j))
        <3>1. CASE j = i
            BY <2>5, <3>1
        <3>2. CASE j # i
            <4>1. j \in active \ LineIds
                BY <1>2, <3>2
            <4> QED
                BY <2>1, <4>1 DEF Attributed, DepthIsReentry, FramesIn
        <3> QED
            BY <3>1, <3>2
    <2>7. DepthIsReentry'
        BY <1>2, <1>3, <2>6 DEF DepthIsReentry, FramesIn
    <2> QED
        BY <2>3, <2>4, <2>7 DEF Attributed
<1> QED
    BY <1>6, <1>7, <1>8, <1>9, <1>10 DEF IInv

\* Probes are woven in and out, and a profiler is removed.
LEMMA WeaveStep ==
    ASSUME IInv, NEW i \in Ids, Weave(i) \/ Remove(i)
    PROVE  IInv'
<1>1. /\ woven' \subseteq active' /\ active' \subseteq active
      /\ UNCHANGED <<entries, given, stack, counters, rings>>
      /\ \A j \in active : j \notin active' => (Quiet => Inside(j) = {})
    BY Types DEF IInv, Weave, Remove
<1>2. UNCHANGED <<depth, counting, calls, nanos, buffer, head, tick, todo, reading, collector>>
    BY <1>1 DEF counters, rings
<1>3. /\ active \subseteq Ids /\ stack \in [Threads -> Seq(Frame)]
      /\ \A j \in Ids : calls[j] \in Nat /\ nanos[j] \in Nat
      /\ reading # <<>> => reading[1] \in Ids /\ reading[2] \in Nat
    BY Types DEF IInv
<1>4. TypeOK'
    BY <1>1, <1>2 DEF IInv, TypeOK
<1>5. Registered'
    BY <1>1, <1>2 DEF IInv, Registered
<1>6. Balanced' /\ OnTime'
    BY <1>2 DEF IInv, Balanced, CountingOf, OnTime, Collecting
<1>7. ASSUME NEW j \in Ids PROVE Ordered(j)'
    <2>1. Read(j)' = Read(j) /\ LastTick(j)' = LastTick(j) /\ CallsRead(j)' = CallsRead(j)
        BY <1>2 DEF Read, LastTick, Collecting, CallsRead
    <2>2. CallsRead(j) \in Nat
        BY <1>3 DEF CallsRead, Read
    <2>3. CallsRead(j) <= CallsRead(j)' /\ nanos'[j] \in Nat /\ nanos[j] <= nanos'[j]
        BY <1>2, <1>3, <2>1, <2>2
    <2>4. j \in active' => j \in active
        BY <1>1
    <2> QED
        BY <1>2, <2>1, <2>2, <2>3, <2>4, OrderedKept
<1>8. ASSUME Quiet PROVE Attributed'
    <2>1. Attributed
        BY <1>8 DEF IInv
    <2>2. ASSUME NEW t \in Threads, NEW k \in DOMAIN stack[t]
          PROVE  stack[t][k].iid \in active' /\ stack[t][k].slot = given'[stack[t][k].iid]
        <3>1. stack[t][k].iid \in active /\ stack[t][k].slot = given[stack[t][k].iid]
            BY <2>1 DEF Attributed, OwnSlot
        <3>2. t \in Inside(stack[t][k].iid)
            BY DEF Inside
        <3> QED
            BY <1>1, <1>8, <3>1, <3>2
    <2>3. OwnSlot'
        BY <1>1, <2>2 DEF OwnSlot
    <2>4. OwnFrame'
        BY <1>1, <1>2, <2>1 DEF Attributed, OwnFrame, Top
    <2>5. DepthIsReentry'
        BY <1>1, <1>2, <2>1 DEF Attributed, DepthIsReentry
    <2> QED
        BY <2>3, <2>4, <2>5 DEF Attributed
<1> QED
    BY <1>4, <1>5, <1>6, <1>7, <1>8 DEF IInv

-----------------------------------------------------------------------------
(* The steps of the collector.                                             *)

\* What holds of every one of them that keeps the rings in order.
LEMMA CollectorStep ==
    ASSUME IInv, UNCHANGED <<stack, registry, counters>>,
           buffer' \in [Ids -> [Index -> Snapshot \cup {NoSnapshot}]], head' \in [Ids -> Index],
           tick' \in 1..(MaxTick + 1), todo' \subseteq Ids,
           reading' \in {<<>>} \cup (Ids \X (0..MaxCalls) \X (0..MaxCalls)),
           collector' \in {"sleep", "visit", "ending", "stopped"},
           \A i \in Ids : given[i] = -1 => i \notin todo' /\ buffer'[i] = buffer[i],
           OnTime', \A i \in Ids : Ordered(i)'
    PROVE  IInv'
<1>1. UNCHANGED <<entries, given, active, woven, depth, counting, calls, nanos>>
    BY DEF registry, counters
<1>2. TypeOK'
    BY <1>1 DEF IInv, TypeOK, Index
<1>3. Registered'
    BY <1>1 DEF IInv, Registered
<1>4. Balanced'
    BY <1>1 DEF IInv, Balanced, CountingOf
<1>5. Quiet => Attributed'
    BY <1>1 DEF IInv, Attributed, OwnSlot, OwnFrame, Top, DepthIsReentry
<1> QED
    BY <1>2, <1>3, <1>4, <1>5 DEF IInv

\* The rings are as before, and so is what is expected of them.
LEMMA RingsUntouched ==
    ASSUME IInv, UNCHANGED <<active, calls, nanos, buffer, head>>, NEW i \in Ids,
           CallsRead(i)' = CallsRead(i), Read(i)' => i \in active \/ Read(i),
           i \in active \/ Read(i) => LastTick(i)' = LastTick(i)
    PROVE  Ordered(i)'
<1>1. CallsRead(i) \in Nat /\ nanos[i] \in Nat
    BY Types DEF IInv, CallsRead, Read
<1> QED
    BY <1>1, OrderedKept

\* The types of what a step leaves alone.
LEMMA RingTypes ==
    ASSUME IInv
    PROVE  /\ buffer \in [Ids -> [Index -> Snapshot \cup {NoSnapshot}]] /\ head \in [Ids -> Index]
           /\ tick \in 1..(MaxTick + 1) /\ tick \in Nat /\ todo \subseteq Ids
           /\ reading \in {<<>>} \cup (Ids \X (0..MaxCalls) \X (0..MaxCalls))
           /\ collector \in {"sleep", "visit", "ending", "stopped"}
           /\ \A i \in Ids : given[i] = -1 => i \notin todo
           /\ \A i \in active : i \in Ids /\ \E s \in Slot : entries[s] = i
           /\ active \subseteq Ids
<1>1. tick \in Nat /\ active \subseteq Ids
    BY Types DEF IInv
<1> QED
    BY <1>1 DEF IInv, TypeOK, Registered, Index

\* A tick begins: every active profiler is due.
LEMMA WakeStep ==
    ASSUME IInv, Wake
    PROVE  IInv'
<1>1. /\ collector = "sleep" /\ tick <= MaxTick /\ collector' = "visit"
      /\ todo' = {entries[s] : s \in Slot} \ {0}
      /\ UNCHANGED <<stack, registry, counters, buffer, head, tick, reading>>
    BY DEF Wake
<1>2. UNCHANGED <<active, calls, nanos>>
    BY <1>1 DEF registry, counters
<1>3. reading = <<>> /\ ~Collecting
    BY <1>1 DEF IInv, OnTime, Collecting
<1>4. todo' \subseteq Ids /\ \A i \in Ids : given[i] = -1 => i \notin todo'
    <2>1. \A s \in Slot : entries[s] \in Ids \cup {0} /\ s # -1
        BY Types DEF IInv, TypeOK
    <2> QED
        BY <1>1, <2>1 DEF IInv, Registered
<1>5. active \subseteq todo'
    <2>1. 0 \notin active
        BY Types DEF IInv
    <2> QED
        BY <1>1, <2>1, RingTypes
<1>6. OnTime'
    BY <1>1, <1>3 DEF OnTime
<1>7. ASSUME NEW i \in Ids PROVE Ordered(i)'
    <2>1. CallsRead(i)' = CallsRead(i) /\ ~Read(i) /\ ~Read(i)'
        BY <1>1, <1>2, <1>3 DEF CallsRead, Read
    <2>2. i \in active => LastTick(i)' = LastTick(i)
        BY <1>1, <1>3, <1>5 DEF LastTick
    <2> QED
        BY <1>1, <1>2, <2>1, <2>2, RingsUntouched
<1> QED
    BY <1>1, <1>4, <1>6, <1>7, RingTypes, CollectorStep

\* Inactive profilers are skipped.
LEMMA SkipStep ==
    ASSUME IInv, NEW i \in Ids, Skip(i)
    PROVE  IInv'
<1>1. /\ Collecting /\ reading = <<>> /\ i \notin active /\ todo' = todo \ {i}
      /\ UNCHANGED <<stack, registry, counters, buffer, head, tick, reading, collector>>
    BY DEF Skip, Visiting, Collecting
<1>2. UNCHANGED <<active, calls, nanos>>
    BY <1>1 DEF registry, counters
<1>3. OnTime'
    BY <1>1 DEF IInv, OnTime, Collecting
<1>4. ASSUME NEW j \in Ids PROVE Ordered(j)'
    <2>1. CallsRead(j)' = CallsRead(j) /\ ~Read(j) /\ ~Read(j)'
        BY <1>1, <1>2 DEF CallsRead, Read
    <2>2. j \in active => LastTick(j)' = LastTick(j)
        BY <1>1 DEF LastTick, Collecting
    <2> QED
        BY <1>1, <1>2, <2>1, <2>2, RingsUntouched
<1> QED
    BY <1>1, <1>3, <1>4, RingTypes, CollectorStep

\* What is read of callCount is in the total by then.
LEMMA ReadCallsStep ==
    ASSUME IInv, NEW i \in Ids, ReadCalls(i)
    PROVE  IInv'
<1>1. /\ Collecting /\ reading = <<>> /\ i \in active /\ i \in todo
      /\ reading' = <<i, calls[i], nanos[i]>>
      /\ UNCHANGED <<stack, registry, counters, buffer, head, tick, todo, collector>>
    BY DEF ReadCalls, Visiting, Collecting
<1>2. UNCHANGED <<active, calls, nanos>>
    BY <1>1 DEF registry, counters
<1>3. calls[i] \in Nat /\ nanos[i] \in Nat /\ calls[i] \in 0..MaxCalls /\ nanos[i] \in 0..MaxCalls
    BY Types DEF IInv, TypeOK
<1>4. calls[i] <= nanos[i]
    <2>1. Cardinality(CountingOf(i)) \in Nat /\ calls[i] + Cardinality(CountingOf(i)) = nanos[i]
        BY FS_CardinalityType DEF IInv, Balanced
    <2> QED
        BY <1>3, <2>1
<1>5. reading'[1] = i /\ reading'[2] = calls[i] /\ reading' \in Ids \X (0..MaxCalls) \X (0..MaxCalls)
    BY <1>1, <1>3
<1>6. OnTime'
    BY <1>1, <1>2, <1>3, <1>4, <1>5 DEF IInv, OnTime, Collecting
<1>7. ASSUME NEW j \in Ids PROVE Ordered(j)'
    <2>1. CallsRead(j)' = CallsRead(j) /\ (Read(j)' => j \in active)
        BY <1>1, <1>2, <1>5 DEF CallsRead, Read
    <2>2. LastTick(j)' = LastTick(j)
        BY <1>1 DEF LastTick, Collecting
    <2> QED
        BY <1>1, <1>2, <2>1, <2>2, RingsUntouched
<1> QED
    BY <1>1, <1>5, <1>6, <1>7, RingTypes, CollectorStep

\* The end of a tick: what was due is there.
LEMMA SleepStep ==
    ASSUME IInv, Sleep \/ StopCollector
    PROVE  IInv'
<1>1. UNCHANGED <<stack, registry, counters, buffer, head, todo, reading>>
    BY DEF Sleep, StopCollector
<1>2. UNCHANGED <<active, calls, nanos>>
    BY <1>1 DEF registry, counters
<1>3. tick \in Nat /\ MaxTick \in Nat
    BY Types DEF IInv
<1>4. /\ tick' \in 1..(MaxTick + 1)
      /\ collector' \in {"sleep", "visit", "ending", "stopped"}
      /\ OnTime'
      /\ \A i \in Ids : LastTick(i)' = LastTick(i)
    <2>1. CASE Sleep
        <3>1. /\ Collecting /\ reading = <<>> /\ todo = {} /\ tick' = tick + 1
              /\ collector' \in {"sleep", "stopped"}
            BY <2>1 DEF Sleep, Visiting, Collecting, Ended
        <3>2. tick <= MaxTick /\ tick' \in 1..(MaxTick + 1)
            BY <1>3, <3>1 DEF IInv, OnTime
        <3>3. tick' - 1 = tick
            BY <1>3, <3>1
        <3> QED
            BY <1>1, <3>1, <3>2, <3>3 DEF OnTime, LastTick, Collecting
    <2>2. CASE StopCollector
        <3>1. /\ tick' = tick /\ Collecting' = Collecting
              /\ collector' \in {"ending", "stopped"}
            BY <2>2 DEF StopCollector, Collecting
        <3> QED
            BY <1>1, <1>2, <3>1, RingTypes DEF IInv, OnTime, LastTick
    <2> QED
        BY <2>1, <2>2
<1>5. ASSUME NEW j \in Ids PROVE Ordered(j)'
    <2>1. CallsRead(j)' = CallsRead(j) /\ Read(j)' = Read(j)
        BY <1>1, <1>2 DEF CallsRead, Read
    <2> QED
        BY <1>1, <1>2, <1>4, <2>1, RingsUntouched
<1> QED
    BY <1>1, <1>4, <1>5, RingTypes, CollectorStep

\* A snapshot that is stored is the one of the next tick, and its counts are
\* between those before it and the counters.
LEMMA StoredIsOrdered ==
    ASSUME IInv, NEW i \in Ids, NEW s \in Snapshot, NEW n \in 0..Ring, NEW last \in Int,
           Filled(buffer[i], head[i], n, last), n = 0 \/ s.time = last + 1,
           Cumulative(buffer[i], head[i], n, s.calls, s.nanos), s.calls <= s.nanos,
           buffer'[i] = [buffer[i] EXCEPT ![head[i]] = s], head'[i] = (head[i] + 1) % Ring,
           CallsRead(i)' \in Nat, s.calls <= CallsRead(i)',
           nanos'[i] \in Nat, s.nanos <= nanos'[i],
           s.time = LastTick(i)'
    PROVE  Ordered(i)'
<1>1. buffer[i] \in [Index -> Snapshot \cup {NoSnapshot}] /\ head[i] \in Index
    BY RingTypes
<1>2. PICK q \in 0..Ring :
        /\ Filled([buffer[i] EXCEPT ![head[i]] = s], (head[i] + 1) % Ring, q, s.time)
        /\ Cumulative([buffer[i] EXCEPT ![head[i]] = s], (head[i] + 1) % Ring, q, s.calls, s.nanos)
    BY <1>1, StoreKeepsHistory
<1>3. /\ Filled(buffer'[i], head'[i], q, s.time)
      /\ Cumulative(buffer'[i], head'[i], q, s.calls, s.nanos)
    BY <1>2
<1>4. s.time \in Int /\ s.calls \in Nat /\ s.nanos \in Nat
    BY BoundsAssumption DEF Snapshot
<1>5. Cumulative(buffer'[i], head'[i], q, CallsRead(i)', nanos'[i])
    BY <1>3, <1>4, CumulativeUpTo
<1> QED
    BY <1>3, <1>4, <1>5 DEF Ordered

\* record, once both counters are read.
LEMMA RecordStep ==
    ASSUME IInv, Record
    PROVE  IInv'
<1>0. PICK i \in Ids : i = reading[1]
    BY Types DEF IInv, Record
<1> DEFINE s == Sample(i)
<1>1. /\ reading # <<>> /\ reading' = <<>> /\ todo' = todo \ {i}
      /\ buffer' = [buffer EXCEPT ![i][head[i]] = s]
      /\ head' = [head EXCEPT ![i] = (@ + 1) % Ring]
      /\ UNCHANGED <<stack, registry, counters, tick, collector>>
    BY <1>0 DEF Record, Store
<1>2. UNCHANGED <<active, calls, nanos>>
    BY <1>1 DEF registry, counters
<1>3. /\ i \in Ids /\ reading[2] \in Nat /\ reading[2] <= MaxCalls
      /\ Collecting /\ i \in todo /\ reading[2] <= calls[i] /\ reading[2] <= nanos[i]
      /\ tick \in Nat /\ tick > 0 /\ tick <= MaxTick
    BY <1>0, <1>1, Types DEF IInv, OnTime
<1>4. /\ calls \in [Ids -> Nat] /\ nanos \in [Ids -> Nat] /\ nanos[i] <= MaxCalls
      /\ MaxCalls \in Nat /\ MaxTick \in Nat
    BY <1>3, Types DEF IInv
<1>5. s \in Snapshot /\ s.time = tick /\ s.calls = reading[2] /\ s.nanos = nanos[i]
    <2>1. tick \in 1..MaxTick /\ reading[2] \in 0..MaxCalls /\ nanos[i] \in 0..MaxCalls
        BY <1>3, <1>4
    <2> QED
        BY <2>1 DEF Sample, Snapshot
<1> HIDE DEF s
<1>6. /\ buffer \in [Ids -> [Index -> Snapshot \cup {NoSnapshot}]] /\ head \in [Ids -> Index]
      /\ todo \subseteq Ids
    BY RingTypes
<1>7. /\ buffer'[i] = [buffer[i] EXCEPT ![head[i]] = s]
      /\ \A j \in Ids : j # i => buffer'[j] = buffer[j] /\ head'[j] = head[j]
      /\ head'[i] = (head[i] + 1) % Ring
    BY <1>1, <1>3, <1>6
<1>8. buffer' \in [Ids -> [Index -> Snapshot \cup {NoSnapshot}]] /\ head' \in [Ids -> Index]
    <2>1. head[i] \in Index /\ (head[i] + 1) % Ring \in Index
        BY <1>3, <1>6, NextIndex
    <2>2. buffer'[i] \in [Index -> Snapshot \cup {NoSnapshot}]
        BY <1>3, <1>5, <1>6, <1>7, <2>1
    <2>3. buffer' = [buffer EXCEPT ![i] = [buffer[i] EXCEPT ![head[i]] = s]]
        BY <1>1
    <2> QED
        BY <1>1, <1>3, <1>6, <1>7, <2>1, <2>2, <2>3
<1>9. OnTime'
    BY <1>1, <1>3 DEF OnTime, Collecting
<1>10. Ordered(i)'
    <2>1. PICK n \in 0..Ring, last \in Int :
            /\ Filled(buffer[i], head[i], n, last)
            /\ Cumulative(buffer[i], head[i], n, CallsRead(i), nanos[i])
            /\ n = 0 \/ last = LastTick(i)
        BY <1>0, <1>1, <1>3 DEF IInv, Ordered, Read
    <2>2. LastTick(i) = tick - 1 /\ CallsRead(i) = reading[2]
        BY <1>0, <1>1, <1>3 DEF LastTick, CallsRead, Read
    <2>3. n = 0 \/ s.time = last + 1
        BY <1>3, <1>5, <2>1, <2>2
    <2>4. Cumulative(buffer[i], head[i], n, s.calls, s.nanos) /\ s.calls <= s.nanos
        BY <1>3, <1>5, <2>1, <2>2
    <2>5. LastTick(i)' = tick /\ CallsRead(i)' = calls[i] /\ nanos'[i] = nanos[i]
        BY <1>1, <1>2, <1>3 DEF LastTick, Collecting, CallsRead, Read
    <2>6. /\ CallsRead(i)' \in Nat /\ s.calls <= CallsRead(i)'
          /\ nanos'[i] \in Nat /\ s.nanos <= nanos'[i] /\ s.time = LastTick(i)'
        BY <1>3, <1>4, <1>5, <2>5
    <2> QED
        BY <1>3, <1>5, <1>7, <2>1, <2>3, <2>4, <2>6, StoredIsOrdered
<1>11. ASSUME NEW j \in Ids, j # i PROVE Ordered(j)'
    <2>1. /\ CallsRead(j) = calls[j] /\ CallsRead(j)' = calls[j] /\ nanos'[j] = nanos[j]
          /\ ~Read(j) /\ ~Read(j)' /\ LastTick(j)' = LastTick(j)
        BY <1>0, <1>1, <1>2, <1>11 DEF CallsRead, Read, LastTick, Collecting
    <2>2. /\ CallsRead(j) \in Nat /\ CallsRead(j)' \in Nat /\ CallsRead(j) <= CallsRead(j)'
          /\ nanos'[j] \in Nat /\ nanos[j] <= nanos'[j]
        BY <1>4, <2>1
    <2> QED
        BY <1>2, <1>7, <1>11, <2>1, <2>2, OrderedKept
<1>12. \A j \in Ids : given[j] = -1 => j \notin todo' /\ buffer'[j] = buffer[j]
    BY <1>1, <1>3, <1>7, RingTypes
<1> QED
    BY <1>1, <1>6, <1>8, <1>9, <1>10, <1>11, <1>12, RingTypes, CollectorStep

\* recordZero repeats the counts of the last snapshot, if there is one.
LEMMA PreviousIsLast ==
    ASSUME IInv, NEW i \in Ids, NEW n \in 0..Ring, NEW last \in Int, NEW c \in Nat, NEW m \in Nat,
           Filled(buffer[i], head[i], n, last), Cumulative(buffer[i], head[i], n, c, m)
    PROVE  /\ Previous(i).calls \in 0..MaxCalls /\ Previous(i).nanos \in 0..MaxCalls
           /\ Previous(i).calls <= c /\ Previous(i).nanos <= m
           /\ Previous(i).calls <= Previous(i).nanos
           /\ Cumulative(buffer[i], head[i], n, Previous(i).calls, Previous(i).nanos)
<1> DEFINE b == buffer[i]
           h == head[i]
<1>1. h \in Index /\ Ring \in Nat /\ Ring > 0 /\ 0 \in Index /\ MaxCalls \in Nat
    <2>1. Ring \in Nat /\ Ring > 0 /\ MaxCalls \in Nat
        BY RingAssumption, BoundsAssumption
    <2> QED
        BY <2>1, RingTypes DEF Index
<1>2. (h + Ring - 1) % Ring = Back(h, 0)
    BY <1>1, NextIndex
<1>3. CASE n = 0
    <2>1. b[Back(h, 0)] = NoSnapshot
        BY <1>1, <1>3 DEF Filled
    <2>2. Previous(i) = [calls |-> 0, nanos |-> 0]
        BY <1>2, <2>1 DEF Previous
    <2>3. \A k \in Index : ~(k < n)
        BY <1>1, <1>3 DEF Index
    <2> QED
        BY <1>1, <2>2, <2>3 DEF Cumulative
<1>4. CASE n # 0
    <2>1. b[Back(h, 0)] \in Snapshot /\ 0 < n
        BY <1>1, <1>4 DEF Filled
    <2>2. Previous(i) = b[Back(h, 0)]
        BY <1>2, <2>1, NoSnapshotAssumption DEF Previous
    <2>3. /\ b[Back(h, 0)].calls <= c /\ b[Back(h, 0)].nanos <= m
          /\ b[Back(h, 0)].calls <= b[Back(h, 0)].nanos
        BY <1>1, <2>1 DEF Cumulative
    <2>4. ASSUME NEW j \in Index, NEW k \in Index, j <= k, k < n
          PROVE  b[Back(h, j)].calls <= b[Back(h, 0)].calls /\ b[Back(h, j)].nanos <= b[Back(h, 0)].nanos
        <3>1. 0 <= j /\ j < n
            BY <1>1, <2>4 DEF Index
        <3> QED
            BY <1>1, <3>1 DEF Cumulative
    <2>5. Cumulative(b, h, n, b[Back(h, 0)].calls, b[Back(h, 0)].nanos)
        BY <2>4 DEF Cumulative
    <2> QED
        BY <2>1, <2>2, <2>3, <2>5 DEF Snapshot
<1> QED
    BY <1>3, <1>4

\* A tick that was missed is filled in for every active profiler.
LEMMA BackfillStep ==
    ASSUME IInv, Backfill
    PROVE  IInv'
<1> DEFINE visited == {entries[s] : s \in Slot} \cap active
           repeated(i) == [time |-> tick + 1, calls |-> Previous(i).calls, nanos |-> Previous(i).nanos]
<1>1. /\ Collecting /\ reading = <<>> /\ todo = {} /\ tick < MaxTick /\ tick' = tick + 1
      /\ buffer' = [i \in Ids |-> IF i \in visited
                                  THEN [buffer[i] EXCEPT ![head[i]] = repeated(i)]
                                  ELSE buffer[i]]
      /\ head' = [i \in Ids |-> IF i \in visited THEN (head[i] + 1) % Ring ELSE head[i]]
      /\ UNCHANGED <<stack, registry, counters, todo, reading, collector>>
    BY DEF Backfill, Visiting, Collecting
<1>2. UNCHANGED <<active, calls, nanos>>
    BY <1>1 DEF registry, counters
<1>3. visited = active
    BY RingTypes
<1>4. /\ tick \in Nat /\ tick > 0 /\ MaxTick \in Nat /\ MaxCalls \in Nat
      /\ \A i \in Ids : calls[i] \in Nat /\ nanos[i] \in Nat
      /\ active \subseteq Ids
    BY Types DEF IInv
<1>5. /\ buffer \in [Ids -> [Index -> Snapshot \cup {NoSnapshot}]] /\ head \in [Ids -> Index]
    BY RingTypes
<1> HIDE DEF visited, repeated
<1>6. ASSUME NEW i \in Ids
      PROVE  /\ CallsRead(i) = calls[i] /\ CallsRead(i)' = calls[i] /\ nanos'[i] = nanos[i]
             /\ ~Read(i) /\ ~Read(i)' /\ LastTick(i) = tick /\ LastTick(i)' = tick + 1
    BY <1>1, <1>2 DEF CallsRead, Read, LastTick, Collecting
<1>7. ASSUME NEW i \in active
      PROVE  repeated(i) \in Snapshot /\ Ordered(i)'
    <2>1. i \in Ids
        BY <1>4
    <2>2. PICK n \in 0..Ring, last \in Int :
            /\ Filled(buffer[i], head[i], n, last)
            /\ Cumulative(buffer[i], head[i], n, calls[i], nanos[i])
            /\ n = 0 \/ last = tick
        BY <1>6, <2>1 DEF IInv, Ordered
    <2>3. /\ Previous(i).calls \in 0..MaxCalls /\ Previous(i).nanos \in 0..MaxCalls
          /\ Previous(i).calls <= calls[i] /\ Previous(i).nanos <= nanos[i]
          /\ Previous(i).calls <= Previous(i).nanos
          /\ Cumulative(buffer[i], head[i], n, Previous(i).calls, Previous(i).nanos)
        BY <1>4, <2>1, <2>2, PreviousIsLast
    <2>4. repeated(i) \in Snapshot
        <3>1. tick + 1 \in 1..MaxTick
            BY <1>1, <1>4
        <3> QED
            BY <2>3, <3>1 DEF repeated, Snapshot
    <2>5. /\ repeated(i).time = tick + 1 /\ repeated(i).calls = Previous(i).calls
          /\ repeated(i).nanos = Previous(i).nanos
        BY DEF repeated
    <2>6. buffer'[i] = [buffer[i] EXCEPT ![head[i]] = repeated(i)] /\ head'[i] = (head[i] + 1) % Ring
        BY <1>1, <1>3, <2>1
    <2>7. n = 0 \/ repeated(i).time = last + 1
        BY <2>2, <2>5
    <2>8. /\ CallsRead(i)' \in Nat /\ repeated(i).calls <= CallsRead(i)'
          /\ nanos'[i] \in Nat /\ repeated(i).nanos <= nanos'[i]
          /\ repeated(i).time = LastTick(i)'
        BY <1>4, <1>6, <2>1, <2>3, <2>5
    <2>9. Cumulative(buffer[i], head[i], n, repeated(i).calls, repeated(i).nanos)
          /\ repeated(i).calls <= repeated(i).nanos
        BY <2>3, <2>5
    <2> QED
        BY <2>1, <2>2, <2>4, <2>6, <2>7, <2>8, <2>9, StoredIsOrdered
<1>8. ASSUME NEW i \in Ids, i \notin active
      PROVE  Ordered(i)' /\ buffer'[i] = buffer[i]
    <2>1. buffer'[i] = buffer[i] /\ head'[i] = head[i]
        BY <1>1, <1>3, <1>8
    <2>2. /\ CallsRead(i) \in Nat /\ CallsRead(i)' \in Nat /\ CallsRead(i) <= CallsRead(i)'
          /\ nanos'[i] \in Nat /\ nanos[i] <= nanos'[i]
        BY <1>4, <1>6
    <2> QED
        BY <1>2, <1>6, <1>8, <2>1, <2>2, OrderedKept
<1>9. buffer' \in [Ids -> [Index -> Snapshot \cup {NoSnapshot}]] /\ head' \in [Ids -> Index]
    <2>1. \A i \in Ids : (head[i] + 1) % Ring \in Index
        BY <1>5, NextIndex
    <2>2. \A i \in active : [buffer[i] EXCEPT ![head[i]] = repeated(i)] \in [Index -> Snapshot \cup {NoSnapshot}]
        BY <1>4, <1>5, <1>7
    <2> QED
        BY <1>1, <1>3, <1>5, <2>1, <2>2
<1>10. OnTime' /\ tick' \in 1..(MaxTick + 1)
    BY <1>1, <1>4 DEF OnTime
<1>11. \A i \in Ids : given[i] = -1 => i \notin todo' /\ buffer'[i] = buffer[i]
    <2>1. \A i \in Ids : given[i] = -1 => i \notin active
        BY Types DEF IInv, Registered
    <2> QED
        BY <1>1, <1>8, <2>1
<1> QED
    BY <1>1, <1>7, <1>8, <1>9, <1>10, <1>11, RingTypes, CollectorStep

-----------------------------------------------------------------------------
(* The theorems.                                                           *)

\* At first there is no profiler.
LEMMA InitIsOrdered == Init => IInv
<1> SUFFICES ASSUME Init
             PROVE  IInv
    OBVIOUS
<1>1. /\ Ring \in Nat /\ Ring > 0 /\ MaxCalls \in Nat /\ MaxTick \in Nat
      /\ MaxId \in Nat /\ MaxSlots \in Nat
    BY RingAssumption, BoundsAssumption
<1>2. 0 \in Index /\ 0 \in 0..MaxCalls /\ 1 \in 1..(MaxTick + 1) /\ 0 \in 0..Ring /\ 0 \notin Ids
    BY <1>1 DEF Index, Ids
<1>3. TypeOK
    <2>1. /\ calls \in [Ids -> 0..MaxCalls] /\ nanos \in [Ids -> 0..MaxCalls]
          /\ head \in [Ids -> 0..(Ring - 1)] /\ tick \in 1..(MaxTick + 1)
        BY <1>2 DEF Init, Index
    <2>2. stack \in [Threads -> Seq(Frame)]
        BY DEF Init
    <2>3. /\ entries \in [Slot -> Ids \cup {0}] /\ given \in [Ids -> Slot \cup {-1}]
          /\ depth \in [Threads -> [Ids -> Int]] /\ counting \in [Threads -> Ids \cup {0}]
          /\ buffer \in [Ids -> [0..(Ring - 1) -> Snapshot \cup {NoSnapshot}]]
        BY DEF Init
    <2> QED
        BY <2>1, <2>2, <2>3 DEF Init, TypeOK
<1>4. Registered
    BY DEF Init, Registered, Index
<1>5. Balanced
    <2> SUFFICES ASSUME NEW i \in Ids
                 PROVE  /\ IsFiniteSet(CountingOf(i))
                        /\ calls[i] + Cardinality(CountingOf(i)) = nanos[i]
        BY DEF Balanced
    <2>1. CountingOf(i) = {}
        BY <1>2 DEF Init, CountingOf
    <2>2. calls[i] = 0 /\ nanos[i] = 0
        BY DEF Init
    <2> QED
        BY <2>1, <2>2, FS_EmptySet
<1>6. OnTime
    BY DEF Init, OnTime, Collecting
<1>7. ASSUME NEW i \in Ids PROVE Ordered(i)
    <2>1. head[i] = 0 /\ \A k \in Index : Back(0, k) \in Index /\ ~(k < 0)
        BY <1>2, BackIsOnto DEF Init, Index
    <2>2. Filled(buffer[i], head[i], 0, 0)
        BY <2>1 DEF Filled, Init, Index
    <2>3. Cumulative(buffer[i], head[i], 0, CallsRead(i), nanos[i])
        BY <2>1 DEF Cumulative
    <2> QED
        BY <1>2, <2>2, <2>3 DEF Ordered
<1>8. Attributed
    <2>1. OwnSlot /\ OwnFrame /\ DepthIsReentry
        BY DEF Init, OwnSlot, OwnFrame, DepthIsReentry
    <2> QED
        BY <2>1 DEF Attributed
<1> QED
    BY <1>3, <1>4, <1>5, <1>6, <1>7, <1>8 DEF IInv

\* Every step keeps the inductive invariant.
LEMMA StepIsOrdered == IInv /\ [Next]_vars => IInv'
<1> SUFFICES ASSUME IInv, [Next]_vars
             PROVE  IInv'
    OBVIOUS
<1>1. CASE EventLoop
    BY <1>1, CreateStep, WeaveStep DEF EventLoop
<1>2. CASE Application
    BY <1>2, CallStep, ReturnStep, ReturnLineStep, EnterLineStep, ExitLineStep, CountStep
       DEF Application
<1>3. CASE Collector \/ StopCollector
    BY <1>3, WakeStep, RecordStep, SleepStep, BackfillStep, SkipStep, ReadCallsStep
       DEF Collector
<1>4. CASE UNCHANGED vars
    <2>1. UNCHANGED <<stack, registry, counters, buffer, head, tick, todo, reading, collector>>
        BY <1>4 DEF vars, rings
    <2>2. UNCHANGED <<active, calls, nanos>>
        BY <2>1 DEF registry, counters
    <2>3. OnTime'
        BY <2>1, <2>2 DEF IInv, OnTime, Collecting
    <2>4. ASSUME NEW i \in Ids PROVE Ordered(i)'
        <3>1. CallsRead(i)' = CallsRead(i) /\ Read(i)' = Read(i) /\ LastTick(i)' = LastTick(i)
            BY <2>1, <2>2 DEF CallsRead, Read, LastTick, Collecting
        <3> QED
            BY <2>1, <2>2, <3>1, RingsUntouched
    <2> QED
        BY <2>1, <2>3, <2>4, RingTypes, CollectorStep
<1> QED
    BY <1>1, <1>2, <1>3, <1>4 DEF Next

\* The inductive invariant holds, for any number of threads and profilers.
THEOREM IInvHolds == Spec => []IInv
BY InitIsOrdered, StepIsOrdered, PTL DEF Spec

\* Every variable has its type: no counter goes over the calls that were made.
THEOREM TypeOKHolds == Spec => []TypeOK
<1>1. IInv => TypeOK
    BY DEF IInv
<1> QED
    BY <1>1, IInvHolds, PTL

\* The snapshots of a ring are those that Filled and Cumulative speak of.
LEMMA SnapshotIsBack ==
    ASSUME IInv, NEW i \in Ids, NEW n \in 0..Ring, NEW last \in Int,
           Filled(buffer[i], head[i], n, last), NEW s \in Snapshots(i)
    PROVE  \E k \in Index : /\ k < n /\ s = buffer[i][Back(head[i], k)]
                            /\ s \in Snapshot /\ s.time = last - k
<1>1. PICK x \in Index : s = buffer[i][x] /\ s # NoSnapshot
    BY DEF Snapshots, Index
<1>2. head[i] \in Index
    BY RingTypes
<1>3. PICK k \in Index : Back(head[i], k) = x
    BY <1>1, <1>2, BackIsOnto
<1> QED
    BY <1>1, <1>3 DEF Filled

\* Profiler.record: a snapshot never counts a call without its time, although
\* threads finish calls between the two counters are read.
THEOREM TimeIsIncludedHolds == Spec => []TimeIsIncluded
<1>1. IInv => TimeIsIncluded
    <2> SUFFICES ASSUME IInv, NEW i \in Ids, NEW s \in Snapshots(i)
                 PROVE  s.calls <= s.nanos
        BY DEF TimeIsIncluded
    <2>1. PICK n \in 0..Ring, last \in Int :
            /\ Filled(buffer[i], head[i], n, last)
            /\ Cumulative(buffer[i], head[i], n, CallsRead(i), nanos[i])
        BY DEF IInv, Ordered
    <2>2. PICK k \in Index : k < n /\ s = buffer[i][Back(head[i], k)]
        BY <2>1, SnapshotIsBack
    <2>3. k <= k
        BY RingAssumption DEF Index
    <2> QED
        BY <2>1, <2>2, <2>3 DEF Cumulative
<1> QED
    BY <1>1, IInvHolds, PTL

\* The counts of a profiler never go down from one snapshot to a later one, also
\* when a tick was missed and filled in.
THEOREM SnapshotsAreCumulativeHolds == Spec => []SnapshotsAreCumulative
<1>1. IInv => SnapshotsAreCumulative
    <2> SUFFICES ASSUME IInv, NEW i \in Ids, NEW a \in Snapshots(i), NEW b \in Snapshots(i),
                        a.time <= b.time
                 PROVE  a.calls <= b.calls /\ a.nanos <= b.nanos
        BY DEF SnapshotsAreCumulative
    <2>1. PICK n \in 0..Ring, last \in Int :
            /\ Filled(buffer[i], head[i], n, last)
            /\ Cumulative(buffer[i], head[i], n, CallsRead(i), nanos[i])
        BY DEF IInv, Ordered
    <2>2. PICK k \in Index : k < n /\ a = buffer[i][Back(head[i], k)] /\ a.time = last - k
        BY <2>1, SnapshotIsBack
    <2>3. PICK j \in Index : j < n /\ b = buffer[i][Back(head[i], j)] /\ b.time = last - j
        BY <2>1, SnapshotIsBack
    <2>4. j <= k
        BY <2>2, <2>3, RingAssumption DEF Index
    <2> QED
        BY <2>1, <2>2, <2>3, <2>4 DEF Cumulative
<1> QED
    BY <1>1, IInvHolds, PTL

\* A profiler that is active has a snapshot of every tick since its first one,
\* as far back as its ring goes.
THEOREM HistoryHasNoGapsHolds == Spec => []HistoryHasNoGaps
<1>1. IInv => HistoryHasNoGaps
    <2> SUFFICES ASSUME IInv, NEW i \in Ids, NEW a \in Snapshots(i), NEW b \in Snapshots(i)
                 PROVE  /\ b.time - a.time < Ring
                        /\ \A time \in a.time..b.time : \E s \in Snapshots(i) : s.time = time
        BY DEF HistoryHasNoGaps
    <2>1. PICK n \in 0..Ring, last \in Int : Filled(buffer[i], head[i], n, last)
        BY DEF IInv, Ordered
    <2>2. PICK k \in Index : k < n /\ a.time = last - k
        BY <2>1, SnapshotIsBack
    <2>3. PICK j \in Index : j < n /\ b.time = last - j
        BY <2>1, SnapshotIsBack
    <2>4. Ring \in Nat /\ k \in 0..(Ring - 1) /\ j \in 0..(Ring - 1)
        BY RingAssumption DEF Index
    <2>5. b.time - a.time < Ring
        BY <2>2, <2>3, <2>4
    <2>6. ASSUME NEW time \in a.time..b.time
          PROVE  \E s \in Snapshots(i) : s.time = time
        <3> DEFINE x == last - time
        <3>1. x \in Index /\ x < n /\ last - x = time
            BY <2>2, <2>3, <2>4 DEF Index
        <3> HIDE DEF x
        <3>2. buffer[i][Back(head[i], x)] \in Snapshot /\ buffer[i][Back(head[i], x)].time = time
            BY <2>1, <3>1 DEF Filled
        <3>3. Back(head[i], x) \in Index
            BY <3>1, RingTypes, BackIsOnto
        <3>4. buffer[i][Back(head[i], x)] \in Snapshots(i)
            BY <3>2, <3>3, NoSnapshotAssumption DEF Snapshots, Index
        <3> QED
            BY <3>2, <3>4
    <2> QED
        BY <2>5, <2>6
<1> QED
    BY <1>1, IInvHolds, PTL

\* If a profiler is removed only once its code is left, the depth a thread keeps
\* for a method is the number of its frames in it, however slots are used again.
THEOREM DepthIsReentryHolds == Spec => [](Quiet => DepthIsReentry)
<1>1. IInv => (Quiet => DepthIsReentry)
    BY DEF IInv, Attributed
<1> QED
    BY <1>1, IInvHolds, PTL

\* On the same condition a call is counted for the instrument it ran through.
THEOREM CountsOwnCallsHolds == Spec => [](Quiet => CountsOwnCalls)
<1>1. IInv => (Quiet => CountsOwnCalls)
    BY DEF IInv, Attributed, OwnFrame, CountsOwnCalls
<1> QED
    BY <1>1, IInvHolds, PTL
=============================================================================
