-------------------------- MODULE ContainerProofs --------------------------
(***************************************************************************)
(* Proofs about the two containers of the native library: the hash table,  *)
(* for every hash function, capacity and threshold below one, and the ring *)
(* of the error log, for every capacity and every set of messages.         *)
(***************************************************************************)
EXTENDS HashTab, ErrLog, FiniteSetTheorems, WellFoundedInduction, TLAPS

-----------------------------------------------------------------------------
(* Positions modulo the capacity.                                          *)

\* A number is so many turns of n and a rest.
LEMMA Turns ==
    ASSUME NEW n \in Nat \ {0}, NEW q \in Int, NEW r \in 0..(n - 1)
    PROVE  (n * q + r) % n = r
OBVIOUS

\* The rest, and how many turns there are.
LEMMA Rest ==
    ASSUME NEW n \in Nat \ {0}, NEW h \in Nat
    PROVE  h % n \in 0..(n - 1) /\ h \div n \in Int /\ h = n * (h \div n) + (h % n)
OBVIOUS

\* Less than a turn on from where h ends.
LEMMA TurnOn ==
    ASSUME NEW n \in Nat \ {0}, NEW h \in Nat, NEW d \in 0..(n - 1)
    PROVE  (h + d) % n = IF (h % n) + d < n THEN (h % n) + d ELSE (h % n) + d - n
<1>1. PICK r \in 0..(n - 1), q \in Int : r = h % n /\ h = n * q + r
    BY Rest
<1>2. CASE r + d < n
    <2>1. h + d = n * q + (r + d) /\ r + d \in 0..(n - 1)
        BY <1>1, <1>2
    <2> QED
        BY <1>1, <1>2, <2>1, Turns
<1>3. CASE r + d >= n
    <2>1. n * (q + 1) = n * q + n
        BY <1>1
    <2>2. q + 1 \in Int /\ r + d - n \in 0..(n - 1)
        BY <1>1, <1>3
    <2>3. n * (q + 1) \in Int /\ n * q \in Int
        BY <1>1
    <2>4. h + d = n * (q + 1) + (r + d - n)
        BY <1>1, <2>1, <2>2, <2>3
    <2>5. (n * (q + 1) + (r + d - n)) % n = r + d - n
        BY <2>2, Turns
    <2> QED
        BY <1>1, <1>3, <2>4, <2>5
<1> QED
    BY <1>1, <1>2, <1>3

\* A position that ran over the end by less than a turn.
LEMMA WrapOver ==
    ASSUME NEW n \in Nat \ {0}, NEW x \in 0..(2 * n - 1)
    PROVE  x % n = IF x < n THEN x ELSE x - n
<1>1. CASE x < n
    BY <1>1
<1>2. CASE x >= n
    <2>1. x = n * 1 + (x - n) /\ x - n \in 0..(n - 1)
        BY <1>2
    <2> QED
        BY <1>2, <2>1, Turns
<1> QED
    BY <1>1, <1>2

\* Where a key belongs.
Home(t, k) == Hash[k] % t.cap

\* The steps from where a key belongs lead to every position once.
LEMMA Steps ==
    ASSUME NEW t, t.cap \in Nat \ {0}, NEW k \in Keys, NEW d \in Positions(t)
    PROVE  /\ Home(t, k) \in Positions(t) /\ Step(t, k, d) \in Positions(t)
           /\ Step(t, k, d) = IF Home(t, k) + d < t.cap THEN Home(t, k) + d
                                                        ELSE Home(t, k) + d - t.cap
           /\ Away(t, k, Step(t, k, d)) = d
<1>1. PICK n \in Nat \ {0} : n = t.cap
    OBVIOUS
<1>2. PICK h \in Nat : h = Hash[k]
    BY HashAssumption
<1>3. d \in 0..(n - 1)
    BY <1>1 DEF Positions
<1>4. PICK a \in 0..(n - 1) : a = h % n
    BY Rest
<1>5. PICK s \in 0..(n - 1) : s = Step(t, k, d) /\ s = IF a + d < n THEN a + d ELSE a + d - n
    <2>1. (h + d) % n = IF a + d < n THEN a + d ELSE a + d - n
        BY <1>3, <1>4, TurnOn
    <2>2. (IF a + d < n THEN a + d ELSE a + d - n) \in 0..(n - 1)
        BY <1>3, <1>4
    <2>3. Step(t, k, d) = (h + d) % n
        BY <1>1, <1>2 DEF Step
    <2> QED
        BY <2>1, <2>2, <2>3
<1>6. Away(t, k, s) = (s - a + n) % n
    BY <1>1, <1>2, <1>4 DEF Away
<1>7. PICK x \in 0..(2 * n - 1) : x = s - a + n
    BY <1>4, <1>5
<1>8. x % n = IF x < n THEN x ELSE x - n
    BY <1>7, WrapOver
<1>9. Away(t, k, s) = d
    BY <1>3, <1>4, <1>5, <1>6, <1>7, <1>8
<1> QED
    BY <1>1, <1>2, <1>4, <1>5, <1>9 DEF Positions, Home

\* The way to a position, in steps.
LEMMA Aways ==
    ASSUME NEW t, t.cap \in Nat \ {0}, NEW k \in Keys, NEW p \in Positions(t)
    PROVE  /\ Away(t, k, p) \in Positions(t)
           /\ Step(t, k, Away(t, k, p)) = p
<1>1. PICK n \in Nat \ {0} : n = t.cap
    OBVIOUS
<1>2. PICK a \in 0..(n - 1) : a = Home(t, k)
    BY <1>1, Rest, HashAssumption DEF Home
<1>3. p \in 0..(n - 1)
    BY <1>1 DEF Positions
<1>4. PICK x \in 0..(2 * n - 1) : x = p - a + n /\ Away(t, k, p) = x % n
    BY <1>1, <1>2, <1>3 DEF Away, Home
<1>5. x % n = IF x < n THEN x ELSE x - n
    BY <1>4, WrapOver
<1>6. PICK d \in 0..(n - 1) : d = Away(t, k, p) /\ d = IF p >= a THEN p - a ELSE p - a + n
    BY <1>2, <1>3, <1>4, <1>5
<1>7. d \in Positions(t)
    BY <1>1 DEF Positions
<1>8. Step(t, k, d) = IF a + d < n THEN a + d ELSE a + d - n
    BY <1>1, <1>2, <1>7, Steps
<1>9. Step(t, k, d) = p
    BY <1>2, <1>3, <1>6, <1>8
<1> QED
    BY <1>6, <1>7, <1>9

\* What the loop goes over.
LEMMA Aheads ==
    ASSUME NEW t, t.cap \in Nat \ {0}, NEW i \in Positions(t), NEW p \in Positions(t)
    PROVE  /\ Ahead(t, i, p) \in Positions(t)
           /\ Ahead(t, i, p) = IF p >= i THEN p - i ELSE p - i + t.cap
           /\ (i + Ahead(t, i, p)) % t.cap = p
           /\ \A e \in Positions(t) : /\ (i + e) % t.cap \in Positions(t)
                                      /\ (i + e) % t.cap = IF i + e < t.cap THEN i + e
                                                                            ELSE i + e - t.cap
<1>1. PICK n \in Nat \ {0} : n = t.cap
    OBVIOUS
<1>2. i \in 0..(n - 1) /\ p \in 0..(n - 1)
    BY <1>1 DEF Positions
<1>3. \A e \in 0..(n - 1) : (i + e) % n = IF i + e < n THEN i + e ELSE i + e - n
    <2> SUFFICES ASSUME NEW e \in 0..(n - 1)
                 PROVE  (i + e) % n = IF i + e < n THEN i + e ELSE i + e - n
        OBVIOUS
    <2>1. PICK x \in 0..(2 * n - 1) : x = i + e
        BY <1>2
    <2>2. x % n = IF x < n THEN x ELSE x - n
        BY <2>1, WrapOver
    <2> QED
        BY <1>2, <2>1, <2>2
<1>4. PICK x \in 0..(2 * n - 1) : x = p - i + n
    BY <1>2
<1>5. x % n = IF x < n THEN x ELSE x - n
    BY <1>4, WrapOver
<1>6. PICK d \in 0..(n - 1) : d = Ahead(t, i, p) /\ d = IF p >= i THEN p - i ELSE p - i + n
    BY <1>1, <1>2, <1>4, <1>5 DEF Ahead
<1>7. (i + d) % n = p
    BY <1>2, <1>3, <1>6
<1>8. \A e \in 0..(n - 1) : (i + e) % n \in 0..(n - 1)
    BY <1>2, <1>3
<1> QED
    BY <1>1, <1>3, <1>6, <1>7, <1>8 DEF Positions

\* The loop gets one position closer to every other one, over the same positions.
LEMMA NextAhead ==
    ASSUME NEW t, t.cap \in Nat \ {0}, NEW i \in Positions(t), NEW p \in Positions(t),
           p # i, NEW j, j = (i + 1) % t.cap
    PROVE  /\ j \in Positions(t) /\ Ahead(t, i, p) > 0
           /\ Ahead(t, j, p) = Ahead(t, i, p) - 1
           /\ \A e \in 0..Ahead(t, j, p) : (j + e) % t.cap = (i + (e + 1)) % t.cap
<1>1. PICK n \in Nat \ {0} : n = t.cap
    OBVIOUS
<1>2. /\ i \in 0..(n - 1) /\ p \in 0..(n - 1) /\ n > 1
    BY <1>1 DEF Positions
<1>3. 1 \in Positions(t)
    BY <1>1, <1>2 DEF Positions
<1>4. j \in 0..(n - 1) /\ j = IF i + 1 < n THEN i + 1 ELSE i + 1 - n
    BY <1>1, <1>3, Aheads DEF Positions
<1>5. j \in Positions(t)
    BY <1>1, <1>4 DEF Positions
<1>6. PICK d \in 0..(n - 1) : d = Ahead(t, i, p) /\ d = IF p >= i THEN p - i ELSE p - i + n
    <2>1. /\ Ahead(t, i, p) \in Positions(t)
          /\ Ahead(t, i, p) = IF p >= i THEN p - i ELSE p - i + t.cap
        BY Aheads
    <2> QED
        BY <1>1, <2>1 DEF Positions
<1>7. PICK c \in 0..(n - 1) : c = Ahead(t, j, p) /\ c = IF p >= j THEN p - j ELSE p - j + n
    <2>1. /\ Ahead(t, j, p) \in Positions(t)
          /\ Ahead(t, j, p) = IF p >= j THEN p - j ELSE p - j + t.cap
        BY <1>5, Aheads
    <2> QED
        BY <1>1, <2>1 DEF Positions
<1>8. d > 0 /\ c = d - 1
    <2>1. /\ i \in Int /\ p \in Int /\ n \in Int /\ d \in Int /\ c \in Int /\ j \in Int
          /\ 0 <= i /\ i < n /\ 0 <= p /\ p < n /\ p # i
        BY <1>2, <1>4
    <2>2. CASE i + 1 < n
        <3>1. j = i + 1
            BY <1>4, <2>2, Zenon
        <3> QED
            BY <1>6, <1>7, <2>1, <2>2, <3>1
    <2>3. CASE ~ (i + 1 < n)
        <3>1. j = 0 /\ i = n - 1
            BY <1>4, <2>1, <2>3
        <3> QED
            BY <1>6, <1>7, <2>1, <2>3, <3>1
    <2> QED
        BY <2>2, <2>3
<1>9. ASSUME NEW e \in 0..c
      PROVE  (j + e) % n = (i + (e + 1)) % n
    <2>1. e \in Positions(t) /\ e + 1 \in Positions(t)
        BY <1>1, <1>8 DEF Positions
    <2>2. (j + e) % n = IF j + e < n THEN j + e ELSE j + e - n
        BY <1>1, <1>5, <2>1, Aheads
    <2>3. (i + (e + 1)) % n = IF i + (e + 1) < n THEN i + (e + 1) ELSE i + (e + 1) - n
        BY <1>1, <2>1, Aheads
    <2> QED
        BY <1>2, <1>4, <1>8, <2>2, <2>3
<1> QED
    BY <1>1, <1>5, <1>6, <1>7, <1>8, <1>9

-----------------------------------------------------------------------------
(* The search.                                                             *)

\* A set of numbers has a least one.
LEMMA LeastNumber ==
    ASSUME NEW S \in SUBSET Nat, S # {}
    PROVE  \E i \in S : \A j \in S : i <= j
<1>1. PICK i \in S : \A j \in S : ~ (<<j, i>> \in OpToRel(<, Nat))
    BY NatLessThanWellFounded, WFMin
<1>2. \A j \in S : ~ (j < i)
    BY <1>1 DEF OpToRel
<1> QED
    BY <1>2

\* A search ends in one place.
LEMMA SearchedOnce ==
    ASSUME NEW t, t.cap \in Nat \ {0}, NEW k, NEW d \in Searched(t, k)
    PROVE  /\ Searched(t, k) = {d} /\ d \in Positions(t) /\ Ends(t, k, d)
           /\ \A e \in 0..(d - 1) : ~Ends(t, k, e)
<1>1. /\ d \in Positions(t) /\ Ends(t, k, d)
      /\ \A e \in 0..(d - 1) : ~Ends(t, k, e)
    BY DEF Searched
<1>2. ASSUME NEW c \in Searched(t, k)
      PROVE  c = d
    <2>1. /\ c \in Positions(t) /\ Ends(t, k, c)
          /\ \A e \in 0..(c - 1) : ~Ends(t, k, e)
        BY DEF Searched
    <2>2. c \in Nat /\ d \in Nat
        BY <1>1, <2>1 DEF Positions
    <2>3. ~ (c < d) /\ ~ (d < c)
        BY <1>1, <2>1, <2>2
    <2> QED
        BY <2>2, <2>3
<1> QED
    BY <1>1, <1>2

\* It ends when there is an end, and does not go past it.
LEMMA SearchEnds ==
    ASSUME NEW t, t.cap \in Nat \ {0}, NEW k, NEW c \in Positions(t), Ends(t, k, c)
    PROVE  \E d \in Searched(t, k) : d <= c
<1> DEFINE S == {d \in Positions(t) : Ends(t, k, d)}
<1>1. S \in SUBSET Nat /\ c \in S
    BY DEF Positions
<1>2. PICK d \in S : \A e \in S : d <= e
    BY <1>1, LeastNumber
<1>3. \A e \in 0..(d - 1) : ~Ends(t, k, e)
    BY <1>2 DEF Positions
<1> QED
    BY <1>1, <1>2, <1>3 DEF Searched

-----------------------------------------------------------------------------
(* Tables and their lists.                                                 *)

IsTable(t) == \E cap \in Nat \ {0} : t \in Tables(cap)

\* count and list are those of the entries.
Listed(t) ==
    /\ t.count = Len(t.list)
    /\ IsInjective(t.list)
    /\ ToSet(t.list) = {p \in Positions(t) : t.tab[p] # None}

\* The fields of a table.
LEMMA Fields ==
    ASSUME NEW t, IsTable(t)
    PROVE  /\ t.cap \in Nat \ {0} /\ t.count \in Nat
           /\ t.tab \in [Positions(t) -> Entry \cup {None}]
           /\ t.list \in Seq(Positions(t)) /\ t \in Tables(t.cap)
           /\ t = [cap |-> t.cap, tab |-> t.tab, list |-> t.list, count |-> t.count]
BY DEF IsTable, Tables, Positions

\* The elements of a list.
LEMMA Elements ==
    ASSUME NEW U, NEW s \in Seq(U)
    PROVE  /\ ToSet(s) = {s[i] : i \in 1..Len(s)}
           /\ IsInjective(s) <=> \A i, j \in 1..Len(s) : s[i] = s[j] => i = j
BY DEF ToSet, IsInjective

\* A table that is not full has a free entry.
LEMMA FreeEntry ==
    ASSUME NEW t, IsTable(t), Listed(t), t.count < t.cap
    PROVE  \E f \in Positions(t) : t.tab[f] = None
<1> SUFFICES ASSUME \A f \in Positions(t) : t.tab[f] # None
             PROVE  FALSE
    OBVIOUS
<1>1. PICK n \in Nat \ {0}, m \in Nat : n = t.cap /\ m = Len(t.list) /\ m < n
    BY Fields DEF Listed
<1>2. \A p \in Positions(t) : \E i \in 1..m : t.list[i] = p
    BY <1>1, Fields, Elements DEF Listed
<1> DEFINE w == [p \in Positions(t) |-> CHOOSE i \in 1..m : t.list[i] = p]
<1>3. \A p \in Positions(t) : w[p] \in 1..m /\ t.list[w[p]] = p
    BY <1>2
<1>4. w \in [Positions(t) -> 1..m]
    BY <1>3
<1>5. IsFiniteSet(Positions(t)) /\ Cardinality(Positions(t)) = n
    <2>1. 0 \in Int /\ n - 1 \in Int /\ ~ (0 > n - 1) /\ n - 1 - 0 + 1 = n
        BY <1>1
    <2>2. IsFiniteSet(0..(n - 1)) /\ Cardinality(0..(n - 1)) = IF 0 > n - 1 THEN 0 ELSE n - 1 - 0 + 1
        BY <2>1, FS_Interval
    <2> QED
        BY <1>1, <2>1, <2>2 DEF Positions
<1>6. IsFiniteSet(1..m) /\ Cardinality(1..m) = m
    <2>1. 1 \in Int /\ m \in Int /\ m = IF 1 > m THEN 0 ELSE m - 1 + 1
        BY <1>1
    <2>2. IsFiniteSet(1..m) /\ Cardinality(1..m) = IF 1 > m THEN 0 ELSE m - 1 + 1
        BY <2>1, FS_Interval
    <2> QED
        BY <2>1, <2>2
<1> HIDE DEF w
<1>7. PICK p, q \in Positions(t) : p # q /\ w[p] = w[q]
    <2>1. Cardinality(1..m) < Cardinality(Positions(t))
        BY <1>1, <1>5, <1>6
    <2> QED
        BY <1>4, <1>5, <1>6, <2>1, FS_PigeonHole
<1> QED
    BY <1>3, <1>7

\* The elements of one sequence behind another.
LEMMA Joined ==
    ASSUME NEW U, NEW a \in Seq(U), NEW b \in Seq(U)
    PROVE  /\ a \o b \in Seq(U) /\ Len(a \o b) = Len(a) + Len(b)
           /\ \A i \in 1..Len(a) : (a \o b)[i] = a[i]
           /\ \A i \in 1..Len(b) : (a \o b)[Len(a) + i] = b[i]
OBVIOUS

\* A new head.
LEMMA Headed ==
    ASSUME NEW U, NEW s \in Seq(U), NEW p \in U, p \notin ToSet(s), IsInjective(s)
    PROVE  /\ <<p>> \o s \in Seq(U) /\ Len(<<p>> \o s) = Len(s) + 1
           /\ ToSet(<<p>> \o s) = ToSet(s) \cup {p} /\ IsInjective(<<p>> \o s)
<1>1. <<p>> \in Seq(U) /\ Len(<<p>>) = 1 /\ <<p>>[1] = p
    OBVIOUS
<1>2. PICK h : h = <<p>> \o s
    OBVIOUS
<1>3. /\ h \in Seq(U) /\ Len(h) = Len(s) + 1 /\ h[1] = p
      /\ \A i \in 1..Len(s) : h[1 + i] = s[i]
    <2>1. /\ h \in Seq(U) /\ Len(h) = Len(<<p>>) + Len(s)
          /\ \A i \in 1..Len(<<p>>) : h[i] = <<p>>[i]
          /\ \A i \in 1..Len(s) : h[Len(<<p>>) + i] = s[i]
        BY <1>1, <1>2, Joined
    <2> QED
        BY <1>1, <2>1
<1>4. PICK m \in Nat : m = Len(s)
    OBVIOUS
<1>5. \A i \in 1..(m + 1) : i = 1 \/ (i - 1 \in 1..m /\ h[i] = s[i - 1])
    <2> SUFFICES ASSUME NEW i \in 1..(m + 1), i # 1
                 PROVE  i - 1 \in 1..m /\ h[i] = s[i - 1]
        OBVIOUS
    <2>1. PICK j \in 1..m : j = i - 1 /\ 1 + j = i
        BY <1>4
    <2> QED
        BY <1>3, <1>4, <2>1
<1>6. \A i \in 1..m : s[i] # p
    BY <1>4 DEF ToSet
<1>7. ToSet(h) = {h[i] : i \in 1..(m + 1)} /\ ToSet(s) = {s[i] : i \in 1..m}
    BY <1>3, <1>4, Elements
<1>8. ToSet(h) = ToSet(s) \cup {p}
    <2>1. ToSet(h) \subseteq ToSet(s) \cup {p}
        BY <1>3, <1>5, <1>7
    <2>2. p \in ToSet(h)
        BY <1>3, <1>4, <1>7
    <2>3. ASSUME NEW i \in 1..m
          PROVE  s[i] \in ToSet(h)
        <3>1. 1 + i \in 1..(m + 1) /\ h[1 + i] = s[i]
            BY <1>3, <1>4
        <3> QED
            BY <1>7, <3>1
    <2> QED
        BY <1>7, <2>1, <2>2, <2>3
<1>9. IsInjective(h)
    <2>1. \A i, j \in 1..m : s[i] = s[j] => i = j
        BY <1>4, Elements
    <2>2. ASSUME NEW i \in 1..(m + 1), NEW j \in 1..(m + 1), h[i] = h[j]
          PROVE  i = j
        <3>1. CASE i = 1 \/ j = 1
            BY <1>3, <1>5, <1>6, <2>2, <3>1
        <3>2. CASE i # 1 /\ j # 1
            <4>1. i - 1 = j - 1
                BY <1>5, <2>1, <2>2, <3>2
            <4> QED
                BY <4>1
        <3> QED
            BY <3>1, <3>2
    <2> QED
        BY <1>3, <1>4, <2>2, Elements
<1> QED
    BY <1>2, <1>3, <1>8, <1>9

\* A list without one of its elements.
LEMMA Removed ==
    ASSUME NEW U, NEW s \in Seq(U), IsInjective(s), NEW i \in 1..Len(s)
    PROVE  /\ RemoveAt(s, i) \in Seq(U) /\ Len(RemoveAt(s, i)) = Len(s) - 1
           /\ ToSet(RemoveAt(s, i)) = ToSet(s) \ {s[i]} /\ IsInjective(RemoveAt(s, i))
<1>1. PICK m \in Nat : m = Len(s) /\ i \in 1..m
    OBVIOUS
<1>2. PICK a, b, r : a = SubSeq(s, 1, i - 1) /\ b = SubSeq(s, i + 1, m) /\ r = RemoveAt(s, i)
    OBVIOUS
<1>3. r = a \o b
    BY <1>1, <1>2 DEF RemoveAt
<1>4. /\ a \in Seq(U) /\ Len(a) = i - 1
      /\ \A j \in 1..(i - 1) : a[j] = s[j]
    BY <1>1, <1>2
<1>5. /\ b \in Seq(U) /\ Len(b) = m - i
      /\ \A j \in 1..(m - i) : b[j] = s[i + j]
    BY <1>1, <1>2
<1>6. /\ r \in Seq(U) /\ Len(r) = (i - 1) + (m - i)
      /\ \A j \in 1..(i - 1) : r[j] = a[j]
      /\ \A j \in 1..(m - i) : r[(i - 1) + j] = b[j]
    <2>1. PICK la, lb : la = i - 1 /\ lb = m - i
        OBVIOUS
    <2>2. a \in Seq(U) /\ b \in Seq(U) /\ Len(a) = la /\ Len(b) = lb
        BY <1>4, <1>5, <2>1
    <2>3. /\ r \in Seq(U) /\ Len(r) = la + lb
          /\ \A j \in 1..la : r[j] = a[j]
          /\ \A j \in 1..lb : r[la + j] = b[j]
        <3>1. r \in Seq(U) /\ Len(r) = Len(a) + Len(b)
            BY <1>3, <2>2, Joined
        <3>2. \A j \in 1..Len(a) : r[j] = a[j]
            BY <1>3, <2>2, Joined
        <3>3. \A j \in 1..Len(b) : r[Len(a) + j] = b[j]
            BY <1>3, <2>2, Joined
        <3> QED
            BY ONLY <2>2, <3>1, <3>2, <3>3
    <2> QED
        BY <2>1, <2>3
<1>7. Len(r) = m - 1 /\ m - 1 \in Nat
    BY <1>1, <1>6
<1>8. \A j \in 1..(m - 1) : r[j] = IF j < i THEN s[j] ELSE s[j + 1]
    <2> SUFFICES ASSUME NEW j \in 1..(m - 1)
                 PROVE  r[j] = IF j < i THEN s[j] ELSE s[j + 1]
        OBVIOUS
    <2>1. CASE j < i
        BY <1>1, <1>4, <1>6, <2>1
    <2>2. CASE ~ (j < i)
        <3>1. PICK c \in 1..(m - i) : (i - 1) + c = j /\ i + c = j + 1
            <4>1. j - (i - 1) \in 1..(m - i)
                BY <1>1, <2>2
            <4> QED
                BY <1>1, <4>1
        <3> QED
            BY <1>5, <1>6, <2>2, <3>1
    <2> QED
        BY <2>1, <2>2
<1>9. \A c, d \in 1..m : s[c] = s[d] => c = d
    BY <1>1, Elements
<1>10. ToSet(r) = {r[j] : j \in 1..(m - 1)} /\ ToSet(s) = {s[j] : j \in 1..m}
    BY <1>1, <1>6, <1>7, Elements
<1>11. \A j \in 1..(m - 1) : \E c \in 1..m : c # i /\ r[j] = s[c]
    <2> SUFFICES ASSUME NEW j \in 1..(m - 1)
                 PROVE  \E c \in 1..m : c # i /\ r[j] = s[c]
        OBVIOUS
    <2>1. CASE j < i
        BY <1>1, <1>8, <2>1
    <2>2. CASE ~ (j < i)
        <3>1. j + 1 \in 1..m /\ j + 1 # i /\ r[j] = s[j + 1]
            BY <1>1, <1>8, <2>2
        <3> QED
            BY <3>1
    <2> QED
        BY <2>1, <2>2
<1>12. \A c \in 1..m : c # i => \E j \in 1..(m - 1) : r[j] = s[c]
    <2> SUFFICES ASSUME NEW c \in 1..m, c # i
                 PROVE  \E j \in 1..(m - 1) : r[j] = s[c]
        OBVIOUS
    <2>1. CASE c < i
        <3>1. c \in 1..(m - 1) /\ r[c] = s[c]
            BY <1>1, <1>8, <2>1
        <3> QED
            BY <3>1
    <2>2. CASE ~ (c < i)
        <3>1. PICK j \in 1..(m - 1) : j = c - 1 /\ j + 1 = c /\ ~ (j < i)
            <4>1. c - 1 \in 1..(m - 1) /\ c - 1 + 1 = c /\ ~ (c - 1 < i)
                BY <1>1, <2>2
            <4> QED
                BY <4>1
        <3> QED
            BY <1>8, <3>1
    <2> QED
        BY <2>1, <2>2
<1>13. ToSet(r) = ToSet(s) \ {s[i]}
    <2>1. ASSUME NEW x \in ToSet(r)
          PROVE  x \in ToSet(s) /\ x # s[i]
        <3>1. PICK j \in 1..(m - 1) : x = r[j]
            BY <1>10
        <3>2. PICK c \in 1..m : c # i /\ r[j] = s[c]
            BY <1>11
        <3> QED
            BY <1>1, <1>9, <1>10, <3>1, <3>2
    <2>2. ASSUME NEW x \in ToSet(s), x # s[i]
          PROVE  x \in ToSet(r)
        <3>1. PICK c \in 1..m : x = s[c] /\ c # i
            BY <1>10, <2>2
        <3> QED
            BY <1>10, <1>12, <3>1
    <2> QED
        BY <2>1, <2>2
<1>14. ASSUME NEW c \in 1..(m - 1), NEW d \in 1..(m - 1), r[c] = r[d]
       PROVE  c = d
    <2>1. c \in 1..m /\ d \in 1..m /\ c + 1 \in 1..m /\ d + 1 \in 1..m
        BY <1>1
    <2> QED
        BY <1>1, <1>8, <1>9, <1>14, <2>1
<1> QED
    <2>1. IsInjective(r)
        BY <1>6, <1>7, <1>14, Elements
    <2> QED
        BY <1>1, <1>2, <1>6, <1>7, <1>13, <2>1

-----------------------------------------------------------------------------
(* hash_insert and ent_unlink.                                             *)

\* A table of these fields.
LEMMA MakeTable ==
    ASSUME NEW t, IsTable(t), NEW tab \in [Positions(t) -> Entry \cup {None}],
           NEW list \in Seq(Positions(t)), NEW num \in Nat,
           NEW r, r = [cap |-> t.cap, tab |-> tab, list |-> list, count |-> num]
    PROVE  IsTable(r) /\ r \in Tables(t.cap)
BY Fields DEF IsTable, Tables, Positions

\* What hash_insert does to the entries: the key has the value where its search ends.
LEMMA InsertIs ==
    ASSUME NEW t, IsTable(t), Listed(t), NEW k \in Keys, NEW v \in Vals,
           NEW d \in Searched(t, k), NEW p, p = Step(t, k, d), NEW r, r = Insert(t, k, v)
    PROVE  /\ IsTable(r) /\ Listed(r) /\ r.cap = t.cap /\ p \in Positions(t)
           /\ r.tab = [t.tab EXCEPT ![p] = [key |-> k, val |-> v]]
           /\ r.count = IF t.tab[p] = None THEN t.count + 1 ELSE t.count
<1>1. /\ t.cap \in Nat \ {0} /\ t.count \in Nat
      /\ t.tab \in [Positions(t) -> Entry \cup {None}] /\ t.list \in Seq(Positions(t))
      /\ t = [cap |-> t.cap, tab |-> t.tab, list |-> t.list, count |-> t.count]
    BY Fields
<1>2. Searched(t, k) = {d} /\ d \in Positions(t) /\ Ends(t, k, d)
    BY <1>1, SearchedOnce
<1>3. p \in Positions(t) /\ (t.tab[p] = None \/ t.tab[p].key = k)
    BY <1>1, <1>2, Steps DEF Ends
<1>4. PICK e \in Entry : e = [key |-> k, val |-> v]
    BY DEF Entry
<1>5. (CHOOSE c \in Searched(t, k) : TRUE) = d
    BY <1>2
<1>6. PICK tab, u : /\ tab = [t.tab EXCEPT ![p] = e]
                    /\ u = [cap |-> t.cap, tab |-> tab, list |-> t.list, count |-> t.count]
    OBVIOUS
<1>7. r = IF t.tab[p] = None THEN [u EXCEPT !.list = <<p>> \o @, !.count = @ + 1] ELSE u
    <2>1. [t EXCEPT !.tab[p] = e] = u
        BY <1>1, <1>6
    <2> QED
        BY <1>4, <1>5, <2>1 DEF Insert
<1>8. CASE t.tab[p] = None
    <2>2. PICK list : list = <<p>> \o t.list
        OBVIOUS
    <2>3. r = [cap |-> t.cap, tab |-> tab, list |-> list, count |-> t.count + 1]
        BY <1>8, <1>6, <1>7, <2>2
    <2>4. tab \in [Positions(t) -> Entry \cup {None}]
        BY <1>1, <1>3, <1>6
    <2>5. p \notin ToSet(t.list) /\ IsInjective(t.list)
        BY <1>8 DEF Listed
    <2>6. /\ list \in Seq(Positions(t)) /\ Len(list) = Len(t.list) + 1
          /\ ToSet(list) = ToSet(t.list) \cup {p} /\ IsInjective(list)
        BY <1>1, <1>3, <2>2, <2>5, Headed
    <2>7. IsTable(r)
        <3>1. PICK num \in Nat : num = t.count + 1
            BY <1>1
        <3>2. r = [cap |-> t.cap, tab |-> tab, list |-> list, count |-> num]
            BY <2>3, <3>1
        <3> QED
            BY <2>4, <2>6, <3>2, MakeTable
    <2>8. /\ r.cap = t.cap /\ r.tab = tab /\ r.list = list /\ r.count = t.count + 1
          /\ Positions(r) = Positions(t)
        BY <2>3 DEF Positions
    <2>9. e # None
        BY NoneAssumption DEF Entry
    <2>10. {q \in Positions(t) : tab[q] # None} = {q \in Positions(t) : t.tab[q] # None} \cup {p}
        BY <1>1, <1>3, <1>6, <2>9
    <2>11. Listed(r)
        BY <2>6, <2>8, <2>10 DEF Listed
    <2> QED
        BY <1>3, <1>4, <1>8, <1>6, <2>7, <2>8, <2>11
<1>9. CASE t.tab[p] # None
    <2>5. r = [cap |-> t.cap, tab |-> tab, list |-> t.list, count |-> t.count]
        BY <1>9, <1>6, <1>7
    <2>6. tab \in [Positions(t) -> Entry \cup {None}]
        BY <1>1, <1>3, <1>6
    <2>7. IsTable(r)
        BY <1>1, <2>5, <2>6, MakeTable
    <2>8. /\ r.cap = t.cap /\ r.tab = tab /\ r.list = t.list /\ r.count = t.count
          /\ Positions(r) = Positions(t)
        BY <2>5 DEF Positions
    <2>9. e # None
        BY NoneAssumption DEF Entry
    <2>10. {q \in Positions(t) : tab[q] # None} = {q \in Positions(t) : t.tab[q] # None}
        BY <1>1, <1>3, <1>9, <1>6, <2>9
    <2>11. Listed(r)
        BY <2>8, <2>10 DEF Listed
    <2> QED
        BY <1>3, <1>4, <1>9, <1>6, <2>7, <2>8, <2>11
<1> QED
    BY <1>8, <1>9

\* What ent_unlink does to the entries.
LEMMA UnlinkIs ==
    ASSUME NEW t, IsTable(t), Listed(t), NEW p \in Positions(t), t.tab[p] # None,
           NEW u, u = Unlink(t, p)
    PROVE  /\ IsTable(u) /\ Listed(u) /\ u.cap = t.cap
           /\ u.tab = [t.tab EXCEPT ![p] = None]
           /\ t.count > 0 /\ u.count = t.count - 1
<1>1. /\ t.cap \in Nat \ {0} /\ t.count \in Nat
      /\ t.tab \in [Positions(t) -> Entry \cup {None}] /\ t.list \in Seq(Positions(t))
      /\ t = [cap |-> t.cap, tab |-> t.tab, list |-> t.list, count |-> t.count]
    BY Fields
<1>2. PICK i \in 1..Len(t.list) : i = Linked(t, p) /\ t.list[i] = p
    <2>1. \E i \in 1..Len(t.list) : t.list[i] = p
        BY <1>1, Elements DEF Listed
    <2>2. DOMAIN t.list = 1..Len(t.list)
        BY <1>1
    <2> QED
        BY <2>1, <2>2 DEF Linked
<1>3. PICK tab, list : tab = [t.tab EXCEPT ![p] = None] /\ list = RemoveAt(t.list, i)
    OBVIOUS
<1>4. u = [cap |-> t.cap, tab |-> tab, list |-> list, count |-> t.count - 1]
    <2>1. u = [t EXCEPT !.tab[p] = None, !.list = RemoveAt(@, i), !.count = @ - 1]
        BY <1>2 DEF Unlink
    <2> QED
        BY <1>1, <1>3, <2>1
<1>5. /\ list \in Seq(Positions(t)) /\ Len(list) = Len(t.list) - 1
      /\ ToSet(list) = ToSet(t.list) \ {p} /\ IsInjective(list)
    BY <1>1, <1>2, <1>3, Removed DEF Listed
<1>6. t.count = Len(t.list) /\ t.count - 1 \in Nat
    BY <1>1, <1>2 DEF Listed
<1>7. tab \in [Positions(t) -> Entry \cup {None}]
    BY <1>1, <1>3
<1>8. IsTable(u)
    BY <1>4, <1>5, <1>6, <1>7, MakeTable
<1>9. /\ u.cap = t.cap /\ u.tab = tab /\ u.list = list /\ u.count = t.count - 1
      /\ Positions(u) = Positions(t)
    BY <1>4 DEF Positions
<1>10. {q \in Positions(t) : tab[q] # None} = {q \in Positions(t) : t.tab[q] # None} \ {p}
    BY <1>1, <1>3
<1>11. Listed(u)
    BY <1>5, <1>6, <1>9, <1>10 DEF Listed
<1> QED
    BY <1>1, <1>3, <1>6, <1>8, <1>9, <1>11

-----------------------------------------------------------------------------
(* What a table holds.                                                     *)

\* A table holds for a key what its entry has, and a CHOOSE is of no account.
LEMMA HoldsOne ==
    ASSUME NEW t, NEW k
    PROVE  /\ Entries(t, k) = {} => Holds(t, k) = None
           /\ \A p : Entries(t, k) = {p} => Holds(t, k) = t.tab[p].val
<1>1. ASSUME Entries(t, k) = {}
      PROVE  Holds(t, k) = None
    BY <1>1 DEF Holds
<1>2. ASSUME NEW p, Entries(t, k) = {p}
      PROVE  Holds(t, k) = t.tab[p].val
    BY <1>2 DEF Holds
<1> QED
    BY <1>1, <1>2

\* The same entries hold the same.
LEMMA SameHolds ==
    ASSUME NEW t, NEW r, NEW k, OneEach(t), k \in Keys, Entries(r, k) = Entries(t, k),
           \A p \in Entries(t, k) : r.tab[p] = t.tab[p]
    PROVE  Holds(r, k) = Holds(t, k)
<1>1. CASE Entries(t, k) = {}
    BY <1>1, HoldsOne
<1>2. ASSUME NEW p \in Entries(t, k)
      PROVE  Holds(r, k) = Holds(t, k)
    <2>1. Entries(t, k) = {p} /\ Entries(r, k) = {p} /\ r.tab[p] = t.tab[p]
        BY DEF OneEach
    <2>2. Holds(t, k) = t.tab[p].val /\ Holds(r, k) = r.tab[p].val
        BY <2>1, HoldsOne
    <2> QED
        BY <2>1, <2>2
<1> QED
    BY <1>1, <1>2

\* A search for a key with an entry in reach gets to that entry.
LEMMA SearchedEntry ==
    ASSUME NEW t, IsTable(t), OneEach(t), NEW k \in Keys, NEW p \in Entries(t, k), Reached(t, k, p)
    PROVE  Searched(t, k) = {Away(t, k, p)}
<1>1. /\ t.cap \in Nat \ {0} /\ p \in Positions(t) /\ t.tab[p] # None /\ t.tab[p].key = k
    BY Fields DEF Entries
<1>2. PICK c \in Positions(t) : c = Away(t, k, p) /\ Step(t, k, c) = p
    BY <1>1, Aways
<1>3. Ends(t, k, c)
    BY <1>1, <1>2 DEF Ends
<1>4. ASSUME NEW e \in 0..(c - 1), Ends(t, k, e)
      PROVE  FALSE
    <2>1. e \in Positions(t) /\ e # c
        BY <1>1, <1>2 DEF Positions
    <2>2. Step(t, k, e) \in Positions(t) /\ Away(t, k, Step(t, k, e)) = e
        BY <1>1, <2>1, Steps
    <2>3. t.tab[Step(t, k, e)] # None
        BY <1>2 DEF Reached
    <2>4. Step(t, k, e) \in Entries(t, k)
        BY <1>4, <2>2, <2>3 DEF Ends, Entries
    <2>5. Step(t, k, e) = p
        BY <2>4 DEF OneEach
    <2> QED
        BY <1>2, <2>1, <2>2, <2>5
<1>5. c \in Searched(t, k)
    BY <1>2, <1>3, <1>4 DEF Searched
<1> QED
    BY <1>1, <1>2, <1>5, SearchedOnce

\* A search that ends at a free entry or at the key's own.
AllReached(t, k) == \A p \in Entries(t, k) : Reached(t, k, p)

\* The entries of the tables before and after a key's entry is written.
LEMMA Written ==
    ASSUME NEW t, IsTable(t), OneEach(t), NEW k \in Keys, NEW v \in Vals, AllReached(t, k),
           NEW d \in Searched(t, k), NEW p, p = Step(t, k, d),
           NEW r, r.cap = t.cap, r.tab = [t.tab EXCEPT ![p] = [key |-> k, val |-> v]]
    PROVE  /\ p \in Positions(t) /\ Entries(r, k) = {p} /\ Holds(r, k) = v
           /\ Away(r, k, p) = d /\ Reached(r, k, p) /\ OneEach(r)
           /\ \A q \in Positions(t) : t.tab[q] # None => r.tab[q] # None
           /\ \A m \in Keys : m # k => Entries(r, m) = Entries(t, m) /\ Holds(r, m) = Holds(t, m)
<1>1. /\ t.cap \in Nat \ {0} /\ t.tab \in [Positions(t) -> Entry \cup {None}]
    BY Fields
<1>2. /\ d \in Positions(t) /\ Ends(t, k, d) /\ \A e \in 0..(d - 1) : ~Ends(t, k, e)
      /\ Searched(t, k) = {d}
    BY <1>1, SearchedOnce
<1>3. p \in Positions(t) /\ Away(t, k, p) = d
    BY <1>1, <1>2, Steps
<1>4. t.tab[p] = None \/ t.tab[p].key = k
    BY <1>2 DEF Ends
<1>5. PICK e \in Entry : e = [key |-> k, val |-> v] /\ e # None /\ e.key = k /\ e.val = v
    <2>1. [key |-> k, val |-> v] \in Entry
        BY DEF Entry
    <2> QED
        BY <2>1, NoneAssumption DEF Entry
<1>6. r.tab[p] = e /\ \A q \in Positions(t) : q # p => r.tab[q] = t.tab[q]
    BY <1>1, <1>3, <1>5
<1>7. Positions(r) = Positions(t) /\ \A m, c : Step(r, m, c) = Step(t, m, c)
    BY DEF Positions, Step
<1>8. \A q \in Positions(t) : t.tab[q] # None => r.tab[q] # None
    BY <1>5, <1>6
<1>9. Entries(t, k) \subseteq {p}
    <2> SUFFICES ASSUME NEW q \in Entries(t, k)
                 PROVE  q = p
        OBVIOUS
    <2>1. Searched(t, k) = {Away(t, k, q)} /\ q \in Positions(t)
        BY SearchedEntry DEF AllReached, Entries
    <2>2. Away(t, k, q) = d
        BY <1>2, <2>1
    <2> QED
        BY <1>1, <2>1, <2>2, Aways
<1>10. Entries(r, k) = {p}
    BY <1>3, <1>5, <1>6, <1>7, <1>9 DEF Entries
<1>11. Away(r, k, p) = d
    BY <1>3 DEF Away
<1>12. Reached(r, k, p)
    <2> SUFFICES ASSUME NEW c \in 0..(d - 1)
                 PROVE  r.tab[Step(t, k, c)] # None
        BY <1>7, <1>11 DEF Reached
    <2>1. c \in Positions(t)
        BY <1>1, <1>2 DEF Positions
    <2>2. Step(t, k, c) \in Positions(t) /\ t.tab[Step(t, k, c)] # None
        BY <1>1, <1>2, <2>1, Steps DEF Ends
    <2> QED
        BY <1>8, <2>2
<1>13. ASSUME NEW m \in Keys, m # k
       PROVE  Entries(r, m) = Entries(t, m) /\ Holds(r, m) = Holds(t, m)
    <2>1. Entries(r, m) = Entries(t, m)
        BY <1>4, <1>5, <1>6, <1>7, <1>13 DEF Entries
    <2>2. \A q \in Entries(t, m) : r.tab[q] = t.tab[q]
        BY <1>4, <1>6, <1>13 DEF Entries
    <2> QED
        BY <2>1, <2>2, SameHolds
<1>14. Holds(r, k) = v
    <2>1. Holds(r, k) = r.tab[p].val
        BY ONLY <1>10, HoldsOne
    <2> QED
        BY <1>5, <1>6, <2>1
<1>15. OneEach(r)
    BY <1>10, <1>13 DEF OneEach
<1> QED
    BY <1>3, <1>8, <1>10, <1>11, <1>12, <1>13, <1>14, <1>15

\* The entries of the tables before and after an entry is freed.
LEMMA Freed ==
    ASSUME NEW t, IsTable(t), OneEach(t), NEW k \in Keys, NEW p \in Entries(t, k),
           NEW u, u.cap = t.cap, u.tab = [t.tab EXCEPT ![p] = None]
    PROVE  /\ p \in Positions(t) /\ Entries(t, k) = {p} /\ Holds(t, k) = t.tab[p].val
           /\ Entries(u, k) = {} /\ Holds(u, k) = None /\ OneEach(u)
           /\ \A m \in Keys : m # k => Entries(u, m) = Entries(t, m) /\ Holds(u, m) = Holds(t, m)
<1>1. /\ t.tab \in [Positions(t) -> Entry \cup {None}]
      /\ p \in Positions(t) /\ t.tab[p] # None /\ t.tab[p].key = k
    BY Fields DEF Entries
<1>2. Entries(t, k) = {p}
    BY DEF OneEach
<1>3. u.tab[p] = None /\ \A q \in Positions(t) : q # p => u.tab[q] = t.tab[q]
    BY <1>1
<1>4. Positions(u) = Positions(t)
    BY DEF Positions
<1>5. Entries(u, k) = {}
    BY <1>2, <1>3, <1>4 DEF Entries
<1>6. ASSUME NEW m \in Keys, m # k
      PROVE  Entries(u, m) = Entries(t, m) /\ Holds(u, m) = Holds(t, m)
    <2>1. Entries(u, m) = Entries(t, m)
        BY <1>1, <1>3, <1>4, <1>6 DEF Entries
    <2>2. \A q \in Entries(t, m) : u.tab[q] = t.tab[q]
        BY <1>1, <1>3, <1>6 DEF Entries
    <2> QED
        BY <2>1, <2>2, SameHolds
<1>7. Holds(t, k) = t.tab[p].val /\ Holds(u, k) = None
    BY <1>2, <1>5, HoldsOne
<1>8. OneEach(u)
    BY <1>5, <1>6 DEF OneEach
<1> QED
    BY <1>1, <1>2, <1>5, <1>6, <1>7, <1>8

\* What ent_lookup finds and hash_tab_lookup answers.
LEMMA Looked ==
    ASSUME NEW t, IsTable(t), Listed(t), t.count < t.cap, OneEach(t), NEW k \in Keys,
           AllReached(t, k)
    PROVE  Found(t, k) = Entries(t, k) /\ Value(t, k) = Holds(t, k)
<1>1. t.cap \in Nat \ {0}
    BY Fields
<1>2. ASSUME NEW p \in Entries(t, k)
      PROVE  Found(t, k) = Entries(t, k)
    <2>1. Searched(t, k) = {Away(t, k, p)} /\ p \in Positions(t) /\ t.tab[p] # None
        BY SearchedEntry DEF AllReached, Entries
    <2>2. Step(t, k, Away(t, k, p)) = p
        BY <1>1, <2>1, Aways
    <2>3. Found(t, k) = {p}
        BY <2>1, <2>2 DEF Found
    <2> QED
        BY <2>3 DEF OneEach
<1>3. CASE Entries(t, k) = {}
    <2> SUFFICES ASSUME NEW d \in Searched(t, k), t.tab[Step(t, k, d)] # None
                 PROVE  FALSE
        <3>1. Holds(t, k) = None
            BY <1>3, HoldsOne
        <3>2. Found(t, k) = {} => Value(t, k) = None
            BY DEF Value
        <3> QED
            BY <1>3, <3>1, <3>2 DEF Found
    <2>1. d \in Positions(t) /\ Ends(t, k, d)
        BY <1>1, SearchedOnce
    <2>2. Step(t, k, d) \in Entries(t, k)
        BY <1>1, <2>1, Steps DEF Ends, Entries
    <2> QED
        BY <1>3, <2>2
<1>4. ASSUME NEW p \in Entries(t, k)
      PROVE  Found(t, k) = Entries(t, k) /\ Value(t, k) = Holds(t, k)
    <2>1. Entries(t, k) = {p} /\ Found(t, k) = {p}
        BY <1>2 DEF OneEach
    <2>2. Value(t, k) = t.tab[p].val
        BY <2>1 DEF Value
    <2> QED
        BY <2>1, <2>2, HoldsOne
<1> QED
    BY <1>3, <1>4

-----------------------------------------------------------------------------
(* Tables between two operations, and rehash.                              *)

\* A table between two operations.
Sound(t) ==
    /\ IsTable(t) /\ Listed(t) /\ OneEach(t) /\ t.count < t.cap
    /\ \A k \in Keys : AllReached(t, k)

\* An entry stays in reach where no entry is freed.
LEMMA ReachedKept ==
    ASSUME NEW t, t.cap \in Nat \ {0}, NEW r, r.cap = t.cap,
           \A q \in Positions(t) : t.tab[q] # None => r.tab[q] # None,
           NEW k \in Keys, NEW p \in Positions(t), Reached(t, k, p)
    PROVE  Reached(r, k, p)
<1>1. PICK d \in Positions(t) : d = Away(t, k, p) /\ Away(r, k, p) = d
    BY Aways DEF Away
<1>2. ASSUME NEW e \in 0..(d - 1)
      PROVE  r.tab[Step(r, k, e)] # None
    <2>1. e \in Positions(t) /\ Step(r, k, e) = Step(t, k, e)
        BY <1>1 DEF Positions, Step
    <2>2. t.tab[Step(t, k, e)] # None /\ Step(t, k, e) \in Positions(t)
        BY <1>1, <2>1, Steps DEF Reached
    <2> QED
        BY <2>1, <2>2
<1> QED
    BY <1>1, <1>2 DEF Reached

\* hash_insert finds a place, and gives the key its value.
LEMMA InsertSound ==
    ASSUME NEW t, Sound(t), t.count + 1 < t.cap, NEW k \in Keys, NEW v \in Vals,
           NEW r, r = Insert(t, k, v)
    PROVE  /\ Sound(r) /\ r.cap = t.cap /\ r.count <= t.count + 1
           /\ Holds(r, k) = v
           /\ \A m \in Keys : m # k => Holds(r, m) = Holds(t, m)
<1>1. t.cap \in Nat \ {0} /\ t.count \in Nat
    BY Fields DEF Sound
<1>2. PICK f \in Positions(t) : t.tab[f] = None
    BY FreeEntry DEF Sound
<1>3. PICK d \in Searched(t, k) : TRUE
    <2>1. Away(t, k, f) \in Positions(t) /\ Ends(t, k, Away(t, k, f))
        BY <1>1, <1>2, Aways DEF Ends
    <2> QED
        BY <1>1, <2>1, SearchEnds
<1>4. PICK p : p = Step(t, k, d)
    OBVIOUS
<1>5. /\ IsTable(r) /\ Listed(r) /\ r.cap = t.cap
      /\ r.tab = [t.tab EXCEPT ![p] = [key |-> k, val |-> v]]
      /\ r.count = IF t.tab[p] = None THEN t.count + 1 ELSE t.count
    BY <1>4, InsertIs DEF Sound
<1>6. /\ p \in Positions(t) /\ Entries(r, k) = {p} /\ Holds(r, k) = v
      /\ Away(r, k, p) = d /\ Reached(r, k, p) /\ OneEach(r)
      /\ \A q \in Positions(t) : t.tab[q] # None => r.tab[q] # None
      /\ \A m \in Keys : m # k => Entries(r, m) = Entries(t, m) /\ Holds(r, m) = Holds(t, m)
    BY <1>4, <1>5, Written DEF Sound
<1>7. r.count <= t.count + 1 /\ r.count < r.cap
    BY <1>1, <1>5
<1>8. ASSUME NEW m \in Keys
      PROVE  AllReached(r, m)
    <2>1. CASE m = k
        BY <1>6, <2>1 DEF AllReached
    <2>2. CASE m # k
        <3>1. ASSUME NEW q \in Entries(r, m)
              PROVE  Reached(r, m, q)
            <4>1. q \in Positions(t) /\ Reached(t, m, q)
                BY <1>6, <2>2 DEF Sound, AllReached, Entries
            <4> QED
                BY <1>1, <1>5, <1>6, <4>1, ReachedKept
        <3> QED
            BY <3>1 DEF AllReached
    <2> QED
        BY <2>1, <2>2
<1> QED
    BY <1>5, <1>6, <1>7, <1>8 DEF Sound

\* The table that hash_tab_init and rehash begin with.
LEMMA EmptySound ==
    ASSUME NEW n \in Nat \ {0}
    PROVE  /\ Sound(Empty(n)) /\ Empty(n).cap = n /\ Empty(n).count = 0
           /\ \A k \in Keys : Holds(Empty(n), k) = None
<1>1. PICK t : t = Empty(n)
    OBVIOUS
<1>2. PICK tab : tab = [p \in 0..(n - 1) |-> None]
    OBVIOUS
<1>3. t = [cap |-> n, tab |-> tab, list |-> <<>>, count |-> 0]
    BY <1>1, <1>2 DEF Empty
<1>4. tab \in [0..(n - 1) -> Entry \cup {None}]
    BY <1>2
<1>5. t \in Tables(n)
    BY <1>3, <1>4 DEF Tables
<1>6. /\ t.cap = n /\ t.count = 0 /\ t.list = <<>> /\ Positions(t) = 0..(n - 1)
      /\ \A p \in Positions(t) : t.tab[p] = None
    BY <1>2, <1>3 DEF Positions
<1>7. IsTable(t)
    BY <1>5 DEF IsTable
<1>8. Listed(t)
    <2>1. Len(t.list) = 0 /\ IsInjective(t.list) /\ ToSet(t.list) = {}
        BY <1>6 DEF IsInjective, ToSet
    <2> QED
        BY <1>6, <2>1 DEF Listed
<1>9. \A k \in Keys : Entries(t, k) = {}
    BY <1>6 DEF Entries
<1>10. \A k \in Keys : AllReached(t, k) /\ Holds(t, k) = None
    BY <1>9, HoldsOne DEF AllReached
<1>11. OneEach(t)
    BY <1>9 DEF OneEach
<1> QED
    BY <1>1, <1>6, <1>7, <1>8, <1>10, <1>11 DEF Sound

\* One entry that rehash moves: the table after the i-th from the one before it.
Refill(t, g, i) == IF i = 0 THEN Empty(2 * t.cap)
                   ELSE Insert(g[i - 1], t.tab[t.list[i]].key, t.tab[t.list[i]].val)
IsRefill(t, n, g) == g = [i \in 0..n |-> Refill(t, g, i)]

\* There is such a function for every number of entries.
LEMMA RefillExists ==
    ASSUME NEW t, NEW n \in Nat
    PROVE  \E g : IsRefill(t, n, g)
<1> DEFINE D == {m \in Nat : ~ \E g : IsRefill(t, m, g)}
<1> SUFFICES ASSUME D # {} PROVE FALSE
    OBVIOUS
<1>1. PICK m \in D : \A c \in D : m <= c
    <2>1. D \in SUBSET Nat
        OBVIOUS
    <2> HIDE DEF D
    <2> QED
        BY <2>1, LeastNumber
<1>2. m \in Nat /\ ~ \E g : IsRefill(t, m, g)
    OBVIOUS
<1>3. CASE m = 0
    <2> DEFINE g == [i \in 0..0 |-> Empty(2 * t.cap)]
    <2>1. \A i \in 0..0 : Refill(t, g, i) = Empty(2 * t.cap)
        <3>1. \A i \in 0..0 : i = 0
            OBVIOUS
        <3> QED
            BY <3>1, Zenon DEF Refill
    <2>2. IsRefill(t, 0, g)
        BY <2>1 DEF IsRefill
    <2> QED
        BY <1>2, <1>3, <2>2
<1>4. CASE m # 0
    <2>1. m - 1 \in Nat /\ ~(m <= m - 1)
        BY <1>2, <1>4
    <2>2. PICK h : IsRefill(t, m - 1, h)
        BY <1>1, <2>1
    <2>3. PICK y : y = Insert(h[m - 1], t.tab[t.list[m]].key, t.tab[t.list[m]].val)
        OBVIOUS
    <2> DEFINE g == [i \in 0..m |-> IF i = m THEN y ELSE h[i]]
    <2>4. /\ g = [i \in 0..m |-> g[i]] /\ g[m] = y
          /\ \A i \in 0..(m - 1) : g[i] = h[i]
        BY <1>2
    <2>5. \A i \in 0..(m - 1) : h[i] = Refill(t, h, i)
        BY <2>2, Zenon DEF IsRefill
    <2> HIDE DEF g
    <2>6. ASSUME NEW i \in 0..m
          PROVE  g[i] = Refill(t, g, i)
        <3>1. CASE i = m
            <4>1. g[m - 1] = h[m - 1] /\ m # 0
                BY <1>4, <2>1, <2>4
            <4> QED
                BY <2>3, <2>4, <3>1, <4>1, Zenon DEF Refill
        <3>2. CASE i # m
            <4>1. i \in 0..(m - 1) /\ (i # 0 => i - 1 \in 0..(m - 1))
                BY <1>2, <3>2
            <4>2. g[i] = h[i] /\ (i # 0 => g[i - 1] = h[i - 1])
                BY <2>4, <4>1
            <4>3. Refill(t, g, i) = Refill(t, h, i)
                BY <4>2 DEF Refill
            <4> QED
                BY <2>5, <4>1, <4>2, <4>3
        <3> QED
            BY <3>1, <3>2
    <2>7. IsRefill(t, m, g)
        BY <2>4, <2>6, Zenon DEF IsRefill
    <2> QED
        BY <1>2, <2>7
<1> QED
    BY <1>3, <1>4

\* rehash is where it ends.
LEMMA RehashSteps ==
    ASSUME NEW t, IsTable(t)
    PROVE  \E g : /\ Rehash(t) = g[Len(t.list)] /\ g[0] = Empty(2 * t.cap)
                  /\ \A i \in 1..Len(t.list) :
                        g[i] = Insert(g[i - 1], t.tab[t.list[i]].key, t.tab[t.list[i]].val)
<1>1. PICK n \in Nat : n = Len(t.list)
    BY Fields
<1> DEFINE g == CHOOSE f : IsRefill(t, n, f)
<1>2. Rehash(t) = g[n]
    BY <1>1 DEF Rehash, IsRefill, Refill
<1>3. IsRefill(t, n, g)
    BY RefillExists
<1> HIDE DEF g
<1>4. \A i \in 0..n : g[i] = Refill(t, g, i)
    BY <1>3, Zenon DEF IsRefill
<1>5. 0 \in 0..n /\ \A i \in 1..n : i \in 0..n /\ i # 0
    OBVIOUS
<1>6. g[0] = Empty(2 * t.cap)
    BY <1>4, <1>5 DEF Refill
<1>7. \A i \in 1..n : g[i] = Insert(g[i - 1], t.tab[t.list[i]].key, t.tab[t.list[i]].val)
    BY <1>4, <1>5 DEF Refill
<1> QED
    BY <1>1, <1>2, <1>6, <1>7

\* What a table holds of the first i entries of the list of t.
Moved(t, i, k) == \E j \in 1..i : t.tab[t.list[j]].key = k
Refilled(t, u, i) ==
    /\ Sound(u) /\ u.cap = 2 * t.cap /\ u.count <= i
    /\ \A k \in Keys : Holds(u, k) = IF Moved(t, i, k) THEN Holds(t, k) ELSE None

\* Moving one more entry.
LEMMA RefillStep ==
    ASSUME NEW t, Sound(t), NEW i \in 1..Len(t.list), NEW u, Refilled(t, u, i - 1),
           NEW r, r = Insert(u, t.tab[t.list[i]].key, t.tab[t.list[i]].val)
    PROVE  Refilled(t, r, i)
<1>1. PICK n \in Nat : n = Len(t.list) /\ i \in 1..n /\ n = t.count /\ n < t.cap /\ t.cap \in Nat
    BY Fields DEF Sound, Listed
<1>2. PICK p : p = t.list[i]
    OBVIOUS
<1>3. p \in Positions(t) /\ t.tab[p] # None
    BY <1>1, <1>2, Fields, Elements DEF Sound, Listed
<1>4. PICK k \in Keys, v \in Vals : k = t.tab[p].key /\ v = t.tab[p].val
    BY <1>3, Fields DEF Sound, Entry
<1>5. Holds(t, k) = v
    <2>1. p \in Entries(t, k)
        BY <1>3, <1>4 DEF Entries
    <2>2. Entries(t, k) = {p}
        BY <2>1 DEF Sound, OneEach
    <2> QED
        BY <1>4, <2>2, HoldsOne
<1>6. u.count + 1 <= i /\ u.count + 1 < u.cap /\ u.count \in Nat
    <2>1. u.count \in Nat /\ u.count <= i - 1 /\ u.cap = 2 * t.cap
        BY Fields DEF Refilled, Sound
    <2> QED
        BY <1>1, <2>1
<1>7. /\ Sound(r) /\ r.cap = u.cap /\ r.count <= u.count + 1
      /\ Holds(r, k) = v
      /\ \A m \in Keys : m # k => Holds(r, m) = Holds(u, m)
    <2>1. Sound(u) /\ u.count + 1 < u.cap /\ r = Insert(u, k, v)
        BY <1>2, <1>4, <1>6 DEF Refilled
    <2> QED
        BY <2>1, InsertSound
<1>8. r.count \in Nat /\ r.count <= i
    <2>1. r.count \in Nat
        BY <1>7, Fields DEF Sound
    <2>2. PICK c, d \in Nat : c = r.count /\ d = u.count /\ c <= d + 1 /\ d + 1 <= i
        BY <1>6, <1>7, <2>1
    <2>3. c <= i
        BY ONLY <1>1, <2>2
    <2> QED
        BY <2>1, <2>2, <2>3
<1>9. Moved(t, i, k)
    BY <1>1, <1>2, <1>4 DEF Moved
<1>10. \A m \in Keys : m # k => (Moved(t, i, m) <=> Moved(t, i - 1, m))
    <2>1. \A j \in 1..i : j = i \/ j \in 1..(i - 1)
        BY <1>1
    <2>2. \A j \in 1..(i - 1) : j \in 1..i
        BY <1>1
    <2> QED
        BY <1>2, <1>4, <2>1, <2>2 DEF Moved
<1>11. ASSUME NEW m \in Keys
       PROVE  Holds(r, m) = IF Moved(t, i, m) THEN Holds(t, m) ELSE None
    <2>1. CASE m = k
        BY <1>5, <1>7, <1>9, <2>1
    <2>2. CASE m # k
        BY <1>7, <1>10, <2>2 DEF Refilled
    <2> QED
        BY <2>1, <2>2
<1> QED
    BY <1>7, <1>8, <1>11 DEF Refilled

\* rehash doubles a table and leaves what it holds.
LEMMA RehashSound ==
    ASSUME NEW t, Sound(t)
    PROVE  /\ Sound(Rehash(t)) /\ Rehash(t).cap = 2 * t.cap /\ Rehash(t).count <= t.count
           /\ \A k \in Keys : Holds(Rehash(t), k) = Holds(t, k)
<1>1. /\ IsTable(t) /\ t.cap \in Nat \ {0} /\ t.count \in Nat /\ t.count = Len(t.list)
      /\ t.tab \in [Positions(t) -> Entry \cup {None}] /\ t.list \in Seq(Positions(t))
    BY Fields DEF Sound, Listed
<1>2. PICK n \in Nat : n = Len(t.list)
    BY <1>1
<1>3. PICK g : /\ Rehash(t) = g[n] /\ g[0] = Empty(2 * t.cap)
               /\ \A i \in 1..n :
                     g[i] = Insert(g[i - 1], t.tab[t.list[i]].key, t.tab[t.list[i]].val)
    BY <1>1, <1>2, RehashSteps
<1>4. Refilled(t, g[0], 0)
    <2>1. PICK c \in Nat \ {0} : c = 2 * t.cap
        BY <1>1
    <2>2. /\ Sound(g[0]) /\ g[0].cap = c /\ g[0].count = 0
          /\ \A k \in Keys : Holds(g[0], k) = None
        BY <1>3, <2>1, EmptySound
    <2>3. \A k : ~Moved(t, 0, k)
        BY DEF Moved
    <2> QED
        BY <2>1, <2>2, <2>3 DEF Refilled
<1> DEFINE D == {i \in 0..n : ~Refilled(t, g[i], i)}
<1>5. D = {}
    <2> SUFFICES ASSUME D # {} PROVE FALSE
        OBVIOUS
    <2>1. PICK m \in D : \A c \in D : m <= c
        <3>1. D \in SUBSET Nat
            OBVIOUS
        <3> HIDE DEF D
        <3> QED
            BY <3>1, LeastNumber
    <2>2. m \in 0..n /\ ~Refilled(t, g[m], m)
        OBVIOUS
    <2>3. m # 0
        BY <1>4, <2>2
    <2>4. m \in 1..n /\ m - 1 \in 0..n /\ ~(m <= m - 1)
        BY <2>2, <2>3
    <2>5. Refilled(t, g[m - 1], m - 1)
        BY <2>1, <2>4
    <2> HIDE DEF D
    <2>6. Refilled(t, g[m], m)
        BY <1>2, <1>3, <2>4, <2>5, RefillStep
    <2> QED
        BY <2>2, <2>6
<1>6. Refilled(t, g[n], n)
    <2>1. n \in 0..n /\ n \notin D
        BY <1>5
    <2> QED
        BY <2>1
<1> HIDE DEF D
<1>7. ASSUME NEW k \in Keys, ~Moved(t, n, k)
      PROVE  Holds(t, k) = None
    <2>1. \A p \in Positions(t) : t.tab[p] # None => \E j \in 1..n : t.list[j] = p
        BY <1>1, <1>2, Elements DEF Sound, Listed
    <2>2. Entries(t, k) = {}
        BY <1>7, <2>1 DEF Entries, Moved
    <2> QED
        BY <2>2, HoldsOne
<1> QED
    BY <1>1, <1>2, <1>3, <1>6, <1>7 DEF Refilled

-----------------------------------------------------------------------------
(* A removal, and the entries it puts back.                                *)

\* The way to an entry, from a position on it on.
LEMMA WayOn ==
    ASSUME NEW t, t.cap \in Nat \ {0}, NEW k \in Keys, NEW q \in Positions(t),
           NEW e \in 0..Away(t, k, q), NEW i, i = Step(t, k, e)
    PROVE  /\ i \in Positions(t) /\ Ahead(t, i, q) = Away(t, k, q) - e
           /\ \A c \in 0..(Away(t, k, q) - e) : (i + c) % t.cap = Step(t, k, e + c)
<1>1. PICK n \in Nat \ {0} : n = t.cap
    OBVIOUS
<1>2. PICK d \in 0..(n - 1) : d = Away(t, k, q) /\ Step(t, k, d) = q
    BY <1>1, Aways DEF Positions
<1>3. PICK h \in 0..(n - 1) : h = Home(t, k)
    BY <1>1, Rest, HashAssumption DEF Home
<1>4. \A c \in 0..(n - 1) : Step(t, k, c) = IF h + c < n THEN h + c ELSE h + c - n
    BY <1>1, <1>3, Steps DEF Positions
<1>5. e \in 0..(n - 1) /\ e <= d
    BY <1>2
<1>6. i \in 0..(n - 1) /\ i = IF h + e < n THEN h + e ELSE h + e - n
    BY <1>3, <1>4, <1>5
<1>7. q \in 0..(n - 1) /\ q = IF h + d < n THEN h + d ELSE h + d - n
    BY <1>2, <1>3, <1>4
<1>8. Ahead(t, i, q) = IF q >= i THEN q - i ELSE q - i + n
    BY <1>1, <1>6, Aheads DEF Positions
<1>9. Ahead(t, i, q) = d - e
    BY <1>2, <1>3, <1>5, <1>6, <1>7, <1>8
<1>10. ASSUME NEW c \in 0..(d - e)
       PROVE  (i + c) % n = Step(t, k, e + c)
    <2>1. c \in 0..(n - 1) /\ e + c \in 0..(n - 1)
        BY <1>2, <1>5
    <2>2. (i + c) % n = IF i + c < n THEN i + c ELSE i + c - n
        BY <1>1, <1>6, <2>1, Aheads DEF Positions
    <2>3. Step(t, k, e + c) = IF h + (e + c) < n THEN h + (e + c) ELSE h + (e + c) - n
        BY <1>4, <2>1
    <2> QED
        BY <1>3, <1>6, <2>1, <2>2, <2>3
<1> QED
    BY <1>1, <1>2, <1>6, <1>9, <1>10 DEF Positions

\* What the loop is to put back, without the entry it is at.
LEMMA PendingOn ==
    ASSUME NEW t, t.cap \in Nat \ {0}, t.tab \in [Positions(t) -> Entry \cup {None}],
           NEW i \in Positions(t), NEW q \in Positions(t), q # i, Pending(t, i, q),
           NEW u, u.cap = t.cap, u.tab = [t.tab EXCEPT ![i] = None],
           NEW j, j = (i + 1) % t.cap
    PROVE  Pending(u, j, q)
<1>1. /\ j \in Positions(t) /\ Ahead(t, i, q) > 0 /\ Ahead(t, i, q) \in Positions(t)
      /\ Ahead(t, j, q) = Ahead(t, i, q) - 1
      /\ \A e \in 0..Ahead(t, j, q) : (j + e) % t.cap = (i + (e + 1)) % t.cap
    BY NextAhead, Aheads
<1>2. Ahead(u, j, q) = Ahead(t, j, q)
    BY DEF Ahead
<1>3. ASSUME NEW e \in 0..Ahead(t, j, q)
      PROVE  u.tab[(j + e) % u.cap] # None
    <2>1. PICK c : c = e + 1 /\ c \in 0..Ahead(t, i, q) /\ c \in Positions(t) /\ c > 0
        <3>1. PICK d \in 0..(t.cap - 1) : d = Ahead(t, i, q) /\ Ahead(t, j, q) = d - 1
            BY <1>1 DEF Positions
        <3>2. e \in Nat /\ e + 1 \in 0..d /\ e + 1 > 0
            BY <3>1
        <3>3. e + 1 \in 0..(t.cap - 1)
            BY <3>1, <3>2
        <3> QED
            BY <3>1, <3>2, <3>3 DEF Positions
    <2>2. (j + e) % t.cap = (i + c) % t.cap
        BY <1>1, <2>1
    <2>3. PICK p \in Positions(t) : p = (i + c) % t.cap /\ p = IF i + c < t.cap THEN i + c ELSE i + c - t.cap
        <3>1. /\ (i + c) % t.cap \in Positions(t)
              /\ (i + c) % t.cap = IF i + c < t.cap THEN i + c ELSE i + c - t.cap
            BY <2>1, Aheads
        <3> QED
            BY <3>1
    <2>4. p # i
        <3>1. PICK n \in Nat : n = t.cap /\ i \in 0..(n - 1)
            BY DEF Positions
        <3>2. c \in 1..(n - 1)
            BY <2>1, <3>1 DEF Positions
        <3>3. p = i + c \/ p = i + c - n
            BY <2>3, <3>1
        <3> QED
            BY <3>1, <3>2, <3>3
    <2>5. t.tab[p] # None
        BY <2>1, <2>3 DEF Pending
    <2> QED
        BY <2>2, <2>3, <2>4, <2>5
<1>4. j # -1
    BY <1>1 DEF Positions
<1> QED
    BY <1>2, <1>3, <1>4 DEF Pending

\* When an entry is freed, the ones whose way went by it are behind it.
LEMMA BehindHole ==
    ASSUME NEW t, t.cap \in Nat \ {0}, t.tab \in [Positions(t) -> Entry \cup {None}],
           NEW i \in Positions(t), t.tab[i] # None, NEW k \in Keys, NEW q \in Entries(t, k), q # i,
           Reached(t, k, q), NEW u, u.cap = t.cap, u.tab = [t.tab EXCEPT ![i] = None],
           NEW j, j = (i + 1) % t.cap
    PROVE  Reached(u, k, q) \/ Pending(u, j, q)
<1>1. q \in Positions(t) /\ t.tab[q] # None
    BY DEF Entries
<1>2. PICK d \in Positions(t) : d = Away(t, k, q) /\ Away(u, k, q) = d /\ Step(t, k, d) = q
    BY <1>1, Aways DEF Away
<1>3. SUFFICES ASSUME NEW e \in 0..(d - 1), u.tab[Step(u, k, e)] = None
               PROVE  Pending(t, i, q)
    BY <1>1, <1>2, PendingOn DEF Reached
<1>4. e \in Positions(t) /\ e \in 0..d /\ d \in Nat /\ e \in Nat
    BY <1>2 DEF Positions
<1>5. i = Step(t, k, e)
    <2>1. Step(u, k, e) = Step(t, k, e)
        BY DEF Step
    <2>2. Step(t, k, e) \in Positions(t) /\ t.tab[Step(t, k, e)] # None
        BY <1>2, <1>4, Steps DEF Reached
    <2> QED
        BY <1>3, <2>1, <2>2
<1>6. /\ Ahead(t, i, q) = d - e
      /\ \A c \in 0..(d - e) : (i + c) % t.cap = Step(t, k, e + c)
    <2>1. e \in 0..Away(t, k, q)
        BY <1>2, <1>4
    <2>2. /\ Ahead(t, i, q) = Away(t, k, q) - e
          /\ \A c \in 0..(Away(t, k, q) - e) : (i + c) % t.cap = Step(t, k, e + c)
        BY <1>1, <1>5, <2>1, WayOn
    <2> QED
        BY <1>2, <2>2
<1>7. ASSUME NEW c \in 0..(d - e)
      PROVE  t.tab[(i + c) % t.cap] # None
    <2>1. (i + c) % t.cap = Step(t, k, e + c)
        BY <1>6
    <2>2. CASE e + c = d
        BY <1>1, <1>2, <2>1, <2>2
    <2>3. CASE e + c # d
        <3>1. e + c \in 0..(d - 1)
            BY <1>4, <2>3
        <3> QED
            BY <1>2, <2>1, <3>1 DEF Reached
    <2> QED
        BY <2>2, <2>3
<1>8. i # -1
    BY DEF Positions
<1> QED
    BY <1>6, <1>7, <1>8 DEF Pending

\* What is pending stays so where no entry is freed.
LEMMA PendingKept ==
    ASSUME NEW t, t.cap \in Nat \ {0}, NEW r, r.cap = t.cap,
           \A p \in Positions(t) : t.tab[p] # None => r.tab[p] # None,
           NEW i \in Positions(t), NEW q \in Positions(t), Pending(t, i, q)
    PROVE  Pending(r, i, q)
<1>1. Ahead(r, i, q) = Ahead(t, i, q) /\ Ahead(t, i, q) \in Positions(t) /\ i # -1
    BY Aheads DEF Ahead, Positions
<1>2. ASSUME NEW e \in 0..Ahead(t, i, q)
      PROVE  r.tab[(i + e) % r.cap] # None
    <2>1. e \in Positions(t)
        BY <1>1 DEF Positions
    <2>2. (i + e) % t.cap \in Positions(t)
        BY <2>1, Aheads
    <2>3. t.tab[(i + e) % t.cap] # None
        BY DEF Pending
    <2> QED
        BY <2>2, <2>3
<1> QED
    BY <1>1, <1>2 DEF Pending

-----------------------------------------------------------------------------
(* The invariant and the dictionary, action by action.                     *)

\* The table of a state.
LEMMA TheTable ==
    ASSUME IInv
    PROVE  /\ IsTable(table) /\ Listed(table) /\ OneEach(table) /\ table.count < table.cap
           /\ table.cap \in 1..MaxCap /\ MaxCap \in Nat
           /\ left \in 0..MaxCap /\ idx \in Positions(table) \cup {-1}
           /\ answer \in Vals \cup {None}
<1>1. PICK cap \in 1..MaxCap : table \in Tables(cap)
    BY DEF IInv, TypeOK
<1>2. cap \in Nat \ {0} /\ table.cap = cap /\ MaxCap \in Nat
    BY <1>1, CapAssumption DEF Tables
<1>3. IsTable(table)
    BY <1>1, <1>2 DEF IsTable
<1> QED
    BY <1>1, <1>2, <1>3 DEF IInv, TypeOK, TableIsSound, Listed

\* Between two operations every entry is in reach.
LEMMA Idle ==
    ASSUME IInv, idx = -1
    PROVE  Sound(table)
<1>1. \A k \in Keys : AllReached(table, k)
    BY DEF IInv, Probing, Pending, AllReached
<1> QED
    BY <1>1, TheTable DEF Sound

\* The fields' types and the list, after a step.
LEMMA NextTable ==
    ASSUME IsTable(table'), Listed(table'), OneEach(table'), table'.count < table'.cap,
           table'.cap <= MaxCap, left' \in 0..MaxCap, idx' \in Positions(table') \cup {-1},
           answer' \in Vals \cup {None}
    PROVE  TypeOK' /\ TableIsSound' /\ OneEach(table')
<1>1. table'.cap \in Nat \ {0} /\ table' \in Tables(table'.cap)
    BY Fields
<1>2. table'.cap \in 1..MaxCap
    BY <1>1, CapAssumption
<1>3. TypeOK'
    BY <1>1, <1>2 DEF TypeOK, Positions
<1>4. TableIsSound'
    BY DEF TableIsSound, Listed, Positions
<1> QED
    BY <1>3, <1>4

\* A step that ends between two operations.
LEMMA NextIdle ==
    ASSUME Sound(table'), table'.cap <= MaxCap, left' \in 0..MaxCap, idx' = -1,
           answer' \in Vals \cup {None}
    PROVE  IInv'
<1>1. TypeOK' /\ TableIsSound' /\ OneEach(table')
    BY NextTable DEF Sound
<1>2. Probing'
    BY DEF Probing, Sound, AllReached
<1>3. LoopEnds'
    BY DEF LoopEnds
<1> QED
    BY <1>1, <1>2, <1>3 DEF IInv

\* What a table holds is a value or None.
LEMMA HoldsType ==
    ASSUME NEW t, IsTable(t), OneEach(t), NEW k \in Keys
    PROVE  Holds(t, k) \in Vals \cup {None}
<1>1. CASE Entries(t, k) = {}
    BY <1>1, HoldsOne
<1>2. ASSUME NEW p \in Entries(t, k)
      PROVE  Holds(t, k) \in Vals \cup {None}
    <2>1. Entries(t, k) = {p}
        BY DEF OneEach
    <2>2. t.tab[p] \in Entry
        BY Fields DEF Entries
    <2>3. t.tab[p].val \in Vals
        BY <2>2 DEF Entry
    <2> QED
        BY <2>1, <2>3, HoldsOne
<1> QED
    BY <1>1, <1>2

\* What the operation on a key makes of the contents.
LEMMA ContentsPut ==
    ASSUME NEW k \in Keys, NEW v, Holds(table', k) = v,
           \A m \in Keys : m # k => Holds(table', m) = Holds(table, m)
    PROVE  Contents' = [Contents EXCEPT ![k] = v]
BY DEF Contents

\* hash_tab_add rehashes in time: there is room for one more entry, and the one
\* that ends the searches.
LEMMA RoomToAdd ==
    ASSUME NEW t, Sound(t), NEW r, r = IF NeedRehash(t) THEN Rehash(t) ELSE t
    PROVE  /\ Sound(r) /\ r.count + 1 < r.cap
           /\ r.cap = IF NeedRehash(t) THEN 2 * t.cap ELSE t.cap
           /\ \A k \in Keys : Holds(r, k) = Holds(t, k)
<1>1. PICK n \in Nat \ {0}, c \in Nat : n = t.cap /\ c = t.count /\ c < n
    BY Fields DEF Sound
<1>2. CASE NeedRehash(t)
    <2>1. /\ Sound(r) /\ r.cap = 2 * n /\ r.count <= c
          /\ \A k \in Keys : Holds(r, k) = Holds(t, k)
        BY <1>1, <1>2, RehashSound
    <2>2. r.count \in Nat
        BY <2>1, Fields DEF Sound
    <2>3. r.count + 1 < 2 * n
        BY <1>1, <2>1, <2>2
    <2> QED
        BY <1>1, <1>2, <2>1, <2>3
<1>3. CASE ~NeedRehash(t)
    <2>1. (c + 1) * Den < n * Num
        <3>1. Den \in Nat /\ Num \in Nat
            BY ThreshAssumption
        <3>2. (c + 1) * Den \in Nat /\ n * Num \in Nat
            BY <1>1, <3>1
        <3> QED
            BY <1>1, <1>3, <3>2 DEF NeedRehash
    <2>2. c + 1 < n
        <3> SUFFICES ASSUME c + 1 >= n PROVE FALSE
            BY <1>1
        <3>1. PICK x \in Nat : x = (c + 1) - n
            BY <1>1
        <3>2. PICK y \in Nat : y = Den - Num
            BY ThreshAssumption
        <3>3. (c + 1) * Den = n * Num + n * y + x * Den
            <4>1. c + 1 = n + x /\ Den = Num + y /\ Den \in Nat /\ Num \in Nat
                BY <1>1, <3>1, <3>2, ThreshAssumption
            <4>2. (n + x) * Den = n * Den + x * Den
                BY <4>1
            <4>3. n * (Num + y) = n * Num + n * y
                BY <4>1
            <4> QED
                BY <4>1, <4>2, <4>3
        <3>4. n * Num \in Nat /\ n * y \in Nat /\ x * Den \in Nat
            BY ThreshAssumption
        <3> QED
            BY <2>1, <3>3, <3>4
    <2> QED
        BY <1>1, <1>3, <2>2
<1> QED
    BY <1>2, <1>3

\* hash_tab_add
LEMMA AddStep ==
    ASSUME IInv, NEW k \in Keys, NEW v \in Vals, Add(k, v)
    PROVE  IInv' /\ Contents' = [Contents EXCEPT ![k] = v] /\ answer' = Contents[k]
<1>1. idx = -1 /\ idx' = -1 /\ left' = left
    BY DEF Add
<1>2. Sound(table) /\ table.cap \in 1..MaxCap /\ MaxCap \in Nat /\ left \in 0..MaxCap
    BY <1>1, Idle, TheTable
<1>3. PICK t : t = IF NeedRehash(table) THEN Rehash(table) ELSE table
    OBVIOUS
<1>4. table' = Insert(t, k, v) /\ answer' = Value(t, k)
    BY <1>3 DEF Add
<1>5. /\ Sound(t) /\ t.count + 1 < t.cap
      /\ t.cap = IF NeedRehash(table) THEN 2 * table.cap ELSE table.cap
      /\ \A m \in Keys : Holds(t, m) = Holds(table, m)
    BY <1>2, <1>3, RoomToAdd
<1>6. /\ Sound(table') /\ table'.cap = t.cap /\ Holds(table', k) = v
      /\ \A m \in Keys : m # k => Holds(table', m) = Holds(t, m)
    BY <1>4, <1>5, InsertSound
<1>7. t.cap <= MaxCap
    BY <1>2, <1>5 DEF Add
<1>8. answer' = Holds(table, k)
    <2>1. t.count < t.cap /\ IsTable(t) /\ Listed(t) /\ OneEach(t) /\ AllReached(t, k)
        BY <1>5 DEF Sound
    <2> QED
        BY <1>4, <1>5, <2>1, Looked
<1>9. answer' \in Vals \cup {None}
    BY <1>2, <1>8, HoldsType DEF Sound
<1>10. IInv'
    BY <1>1, <1>2, <1>6, <1>7, <1>9, NextIdle
<1>11. Contents' = [Contents EXCEPT ![k] = v]
    BY <1>5, <1>6, ContentsPut
<1> QED
    BY <1>8, <1>10, <1>11 DEF Contents

\* hash_tab_lookup
LEMMA LookupStep ==
    ASSUME IInv, NEW k \in Keys, Lookup(k)
    PROVE  IInv' /\ Contents' = Contents /\ answer' = Contents[k]
<1>1. idx = -1 /\ UNCHANGED <<table, idx, left>> /\ answer' = Value(table, k)
    BY DEF Lookup
<1>2. Sound(table) /\ table.cap \in 1..MaxCap /\ MaxCap \in Nat /\ left \in 0..MaxCap
    BY <1>1, Idle, TheTable
<1>3. answer' = Holds(table, k)
    BY <1>1, <1>2, Looked DEF Sound
<1>4. answer' \in Vals \cup {None}
    BY <1>2, <1>3, HoldsType DEF Sound
<1>5. IInv'
    <2>1. Sound(table') /\ table'.cap <= MaxCap /\ left' \in 0..MaxCap /\ idx' = -1
        BY <1>1, <1>2
    <2> QED
        BY <1>4, <2>1, NextIdle
<1> QED
    BY <1>1, <1>3, <1>5 DEF Contents

\* hash_tab_remove, up to its loop: the entries behind the removed one are pending,
\* and the loop stops at the entry that was free before, at the latest.
LEMMA RemoveStep ==
    ASSUME IInv, NEW k \in Keys, RemoveKey(k)
    PROVE  IInv' /\ Contents' = [Contents EXCEPT ![k] = None] /\ answer' = Contents[k]
<1>1. idx = -1 /\ answer' = Value(table, k)
    BY DEF RemoveKey
<1>2. PICK t : t = table
    OBVIOUS
<1>3. /\ Sound(t) /\ t.cap \in 1..MaxCap /\ MaxCap \in Nat /\ left \in 0..MaxCap
      /\ t.cap \in Nat \ {0} /\ t.count \in Nat
      /\ t.tab \in [Positions(t) -> Entry \cup {None}]
      /\ IsTable(t) /\ Listed(t) /\ OneEach(t) /\ t.count < t.cap
    BY <1>1, <1>2, Idle, TheTable, Fields DEF Sound
<1>4. answer' = Holds(t, k) /\ Found(t, k) = Entries(t, k)
    BY <1>1, <1>2, <1>3, Looked DEF Sound
<1>5. answer' = Contents[k] /\ answer' \in Vals \cup {None}
    BY <1>2, <1>3, <1>4, HoldsType DEF Contents
<1>6. CASE Entries(t, k) = {}
    <2>1. UNCHANGED <<table, idx, left>>
        BY <1>2, <1>4, <1>6 DEF RemoveKey
    <2>2. Sound(table') /\ table'.cap <= MaxCap /\ left' \in 0..MaxCap /\ idx' = -1
        BY <1>1, <1>2, <1>3, <2>1
    <2>3. IInv'
        BY <1>5, <2>2, NextIdle
    <2>4. Holds(table', k) = None
        BY <1>2, <1>6, <2>1, HoldsOne
    <2>5. Contents' = [Contents EXCEPT ![k] = None]
        BY <2>1, <2>4, ContentsPut
    <2> QED
        BY <1>5, <2>3, <2>5
<1>7. CASE Entries(t, k) # {}
    <2>1. PICK p \in Entries(t, k) : /\ table' = Unlink(t, p) /\ idx' = (p + 1) % t.cap
                                     /\ left' = t.cap
        BY <1>2, <1>4, <1>7 DEF RemoveKey
    <2>2. PICK u, i : u = table' /\ i = idx'
        OBVIOUS
    <2>3. p \in Positions(t) /\ t.tab[p] # None
        BY DEF Entries
    <2>4. /\ IsTable(u) /\ Listed(u) /\ u.cap = t.cap
          /\ u.tab = [t.tab EXCEPT ![p] = None]
          /\ u.count = t.count - 1
        BY <1>3, <2>1, <2>2, <2>3, UnlinkIs
    <2>5. /\ Entries(u, k) = {} /\ Holds(u, k) = None /\ OneEach(u)
          /\ \A m \in Keys : m # k => Entries(u, m) = Entries(t, m) /\ Holds(u, m) = Holds(t, m)
          /\ Entries(t, k) = {p}
        BY <1>3, <2>4, Freed
    <2>6. /\ i \in Positions(t) /\ i = (p + 1) % t.cap /\ Positions(u) = Positions(t) /\ i # -1
          /\ \A q \in Positions(t) : Ahead(u, i, q) \in Positions(t)
        <3>1. 1 \in Positions(t) \/ t.cap = 1
            BY <1>3 DEF Positions
        <3>2. CASE t.cap = 1
            <4>1. p = 0 /\ (p + 1) % 1 = 0
                BY <2>3, <3>2 DEF Positions
            <4>2. i \in Positions(t) /\ i = (p + 1) % t.cap /\ i # -1
                BY <2>1, <2>2, <3>2, <4>1 DEF Positions
            <4>3. Positions(u) = Positions(t)
                BY <2>4 DEF Positions
            <4> QED
                BY <1>3, <2>4, <4>2, <4>3, Aheads DEF Ahead
        <3>3. CASE 1 \in Positions(t)
            <4>1. (p + 1) % t.cap \in Positions(t)
                BY <1>3, <2>3, <3>3, Aheads
            <4>2. i \in Positions(t) /\ i = (p + 1) % t.cap /\ i # -1
                BY <2>1, <2>2, <4>1 DEF Positions
            <4>3. Positions(u) = Positions(t)
                BY <2>4 DEF Positions
            <4> QED
                BY <1>3, <2>4, <4>2, <4>3, Aheads DEF Ahead
        <3> QED
            BY <3>1, <3>2, <3>3
    <2>7. ASSUME NEW m \in Keys, NEW q \in Entries(u, m)
          PROVE  /\ m # k /\ q \in Entries(t, m) /\ q \in Positions(t) /\ q # p
                 /\ Reached(u, m, q) \/ Pending(u, i, q)
        <3>1. m # k /\ q \in Entries(t, m)
            BY <2>5
        <3>2. q \in Positions(t) /\ q # p
            BY <1>3, <2>3, <2>4, <2>6 DEF Entries
        <3>3. Reached(t, m, q)
            BY <1>3, <3>1 DEF Sound, AllReached
        <3> QED
            BY <1>3, <2>3, <2>4, <2>6, <3>1, <3>2, <3>3, BehindHole
    <2>8. PICK f \in Positions(t) : t.tab[f] = None
        BY <1>3, FreeEntry
    <2>9. u.tab[f] = None /\ Ahead(u, i, f) < t.cap
        <3>1. u.tab[f] = None
            BY <1>3, <2>4, <2>8
        <3>2. Ahead(u, i, f) \in Positions(t)
            BY <2>6
        <3> QED
            BY <1>3, <3>1, <3>2 DEF Positions
    <2>10. ASSUME NEW m \in Keys, NEW q \in Entries(u, m)
           PROVE  Away(u, m, q) < Away(u, m, f)
        <3>1. q \in Positions(t) /\ q \in Entries(t, m) /\ Reached(t, m, q)
            BY <1>3, <2>7 DEF Sound, AllReached
        <3>2. PICK a, b \in Positions(t) : /\ a = Away(t, m, q) /\ Step(t, m, a) = q
                                           /\ b = Away(t, m, f) /\ Step(t, m, b) = f
            BY <1>3, <3>1, Aways
        <3>3. Away(u, m, q) = a /\ Away(u, m, f) = b
            BY <2>4, <3>2 DEF Away
        <3>4. a # b
            BY <2>8, <3>1, <3>2 DEF Entries
        <3>5. ~ (b < a)
            <4> SUFFICES ASSUME b < a PROVE FALSE
                OBVIOUS
            <4>1. b \in 0..(a - 1)
                BY <3>2 DEF Positions
            <4> QED
                BY <2>8, <3>1, <3>2, <4>1 DEF Reached
        <3> QED
            BY <3>2, <3>3, <3>4, <3>5 DEF Positions
    <2>11. TypeOK' /\ TableIsSound' /\ OneEach(table')
        <3>1. table'.count < table'.cap /\ table'.cap <= MaxCap /\ left' \in 0..MaxCap
            BY <1>3, <2>1, <2>2, <2>4
        <3>2. idx' \in Positions(table') \cup {-1}
            BY <2>2, <2>6
        <3> QED
            BY <1>5, <2>2, <2>4, <2>5, <3>1, <3>2, NextTable
    <2>12. Probing'
        BY <2>2, <2>7 DEF Probing
    <2>13. LoopEnds'
        BY <2>1, <2>2, <2>6, <2>8, <2>9, <2>10 DEF LoopEnds, Stops
    <2>14. Contents' = [Contents EXCEPT ![k] = None]
        BY <1>2, <2>2, <2>5, ContentsPut
    <2> QED
        BY <1>5, <2>2, <2>11, <2>12, <2>13, <2>14 DEF IInv
<1> QED
    BY <1>6, <1>7

\* The loop of hash_tab_remove, when it goes on: the entry is put back in reach,
\* no farther than it was and so never where the loop stops.
LEMMA PutBack ==
    ASSUME IInv, idx # -1, table.tab[idx] # None, Reinsert
    PROVE  IInv' /\ Contents' = Contents /\ answer' = answer
<1>1. PICK t, i : t = table /\ i = idx
    OBVIOUS
<1>2. /\ IsTable(t) /\ Listed(t) /\ OneEach(t) /\ t.count < t.cap
      /\ t.cap \in 1..MaxCap /\ MaxCap \in Nat /\ left \in 0..MaxCap /\ i \in Positions(t)
      /\ t.cap \in Nat \ {0} /\ t.count \in Nat /\ answer \in Vals \cup {None}
      /\ t.tab \in [Positions(t) -> Entry \cup {None}] /\ t.tab[i] # None
    BY <1>1, TheTable, Fields
<1>3. PICK f \in Positions(t) : Stops(f)
    BY <1>1 DEF IInv, LoopEnds
<1>4. /\ t.tab[f] = None /\ Ahead(t, i, f) < left
      /\ \A m \in Keys : \A q \in Entries(t, m) : Away(t, m, q) < Away(t, m, f)
    BY <1>1, <1>3 DEF Stops
<1>5. f # i /\ Ahead(t, i, f) \in Positions(t)
    BY <1>2, <1>4, Aheads
<1>6. /\ table' = Insert(Unlink(t, i), t.tab[i].key, t.tab[i].val)
      /\ idx' = (i + 1) % t.cap /\ left' = left - 1 /\ answer' = answer
    BY <1>1, <1>2, <1>4, <1>5 DEF Reinsert, Positions
<1>7. PICK k \in Keys, v \in Vals : k = t.tab[i].key /\ v = t.tab[i].val
    BY <1>2 DEF Entry
<1>8. i \in Entries(t, k)
    BY <1>2, <1>7 DEF Entries
<1>9. PICK u : u = Unlink(t, i)
    OBVIOUS
<1>10. /\ IsTable(u) /\ Listed(u) /\ u.cap = t.cap /\ u.tab = [t.tab EXCEPT ![i] = None]
       /\ u.count = t.count - 1
    BY <1>2, <1>9, UnlinkIs
<1>11. /\ Entries(u, k) = {} /\ OneEach(u) /\ Holds(t, k) = v
       /\ \A m \in Keys : m # k => Entries(u, m) = Entries(t, m) /\ Holds(u, m) = Holds(t, m)
    BY <1>2, <1>7, <1>8, <1>10, Freed
<1>12. Positions(u) = Positions(t) /\ \A m, q : Away(u, m, q) = Away(t, m, q)
    BY <1>10 DEF Positions, Away
<1>13. PICK d \in Searched(u, k) : d <= Away(t, k, i)
    <2>1. Away(u, k, i) \in Positions(u) /\ Step(u, k, Away(u, k, i)) = i
        BY <1>2, <1>10, <1>12, Aways
    <2>2. Ends(u, k, Away(u, k, i))
        BY <1>2, <1>10, <2>1 DEF Ends
    <2> QED
        BY <1>2, <1>10, <1>12, <2>1, <2>2, SearchEnds
<1>14. PICK r, p : r = table' /\ p = Step(u, k, d)
    OBVIOUS
<1>15. r = Insert(u, k, v)
    BY <1>6, <1>7, <1>9, <1>14
<1>16. /\ IsTable(r) /\ Listed(r) /\ r.cap = u.cap
       /\ r.tab = [u.tab EXCEPT ![p] = [key |-> k, val |-> v]]
       /\ r.count = IF u.tab[p] = None THEN u.count + 1 ELSE u.count
    <2>1. IsTable(u) /\ Listed(u)
        BY <1>10
    <2> QED
        BY ONLY <2>1, <1>14, <1>15, InsertIs
<1>17. AllReached(u, k)
    BY <1>11 DEF AllReached
<1>18. /\ p \in Positions(u) /\ Entries(r, k) = {p} /\ Holds(r, k) = v
       /\ Away(r, k, p) = d /\ Reached(r, k, p) /\ OneEach(r)
       /\ \A q \in Positions(u) : u.tab[q] # None => r.tab[q] # None
       /\ \A m \in Keys : m # k => Entries(r, m) = Entries(u, m) /\ Holds(r, m) = Holds(u, m)
    <2>1. IsTable(u) /\ OneEach(u)
        BY <1>10, <1>11
    <2>2. p = Step(u, k, d) /\ r.cap = u.cap /\ r.tab = [u.tab EXCEPT ![p] = [key |-> k, val |-> v]]
        BY <1>14, <1>16
    <2> QED
        BY ONLY <2>1, <2>2, <1>17, Written
<1>19. PICK j : j = idx'
    OBVIOUS
<1>20. /\ j \in Positions(t) /\ j = (i + 1) % t.cap
       /\ Ahead(t, i, f) > 0 /\ Ahead(t, j, f) = Ahead(t, i, f) - 1
    BY <1>2, <1>5, <1>6, <1>19, NextAhead
<1>21. Positions(r) = Positions(t) /\ \A m, q : Away(r, m, q) = Away(t, m, q) /\ Ahead(r, j, q) = Ahead(t, j, q)
    BY <1>10, <1>16 DEF Positions, Away, Ahead
<1>22. ASSUME NEW m \in Keys, NEW q \in Entries(r, m)
       PROVE  /\ Reached(r, m, q) \/ Pending(r, j, q)
              /\ Away(r, m, q) < Away(r, m, f)
    <2>1. CASE m = k
        <3>1. q = p /\ Reached(r, m, q) /\ Away(r, m, q) = d
            BY <1>18, <2>1
        <3>2. Away(t, k, i) < Away(t, k, f)
            BY <1>4, <1>8
        <3>3. Away(t, k, i) \in Int /\ Away(t, k, f) \in Int /\ d \in Int
            BY <1>2, <1>10, <1>13, SearchedOnce, Aways DEF Positions
        <3>4. d < Away(t, k, f)
            BY <1>13, <3>2, <3>3
        <3> QED
            BY <1>21, <2>1, <3>1, <3>4
    <2>2. CASE m # k
        <3>1. q \in Entries(t, m) /\ q \in Entries(u, m)
            BY <1>11, <1>18, <2>2
        <3>2. q \in Positions(t) /\ q # i
            BY <1>2, <1>7, <2>2, <3>1 DEF Entries
        <3>3. Reached(t, m, q) \/ Pending(t, i, q)
            BY <1>1, <3>1 DEF IInv, Probing
        <3>4. Reached(u, m, q) \/ Pending(u, j, q)
            <4>1. CASE Reached(t, m, q)
                BY <1>2, <1>10, <1>20, <3>1, <3>2, <4>1, BehindHole
            <4>2. CASE Pending(t, i, q)
                BY <1>2, <1>10, <1>20, <3>2, <4>2, PendingOn
            <4> QED
                BY <3>3, <4>1, <4>2
        <3>5. u.cap \in Nat \ {0} /\ q \in Positions(u) /\ j \in Positions(u)
            BY <1>2, <1>10, <1>12, <1>20, <3>2
        <3>6. Reached(r, m, q) \/ Pending(r, j, q)
            <4>1. CASE Reached(u, m, q)
                BY <1>16, <1>18, <3>5, <4>1, ReachedKept
            <4>2. CASE Pending(u, j, q)
                BY <1>16, <1>18, <3>5, <4>2, PendingKept
            <4> QED
                BY <3>4, <4>1, <4>2
        <3> QED
            BY <1>4, <1>21, <3>1, <3>6
    <2> QED
        BY <2>1, <2>2
<1>23. r.tab[f] = None
    <2>1. u.tab[f] = None
        BY <1>2, <1>4, <1>10
    <2>2. p # f
        <3>1. Away(r, k, p) < Away(r, k, f)
            BY <1>18, <1>22
        <3>2. Away(t, k, f) \in Positions(t)
            BY <1>2, Aways
        <3> QED
            BY <1>21, <3>1, <3>2 DEF Positions
    <2>3. u.tab \in [Positions(t) -> Entry \cup {None}]
        BY <1>10, <1>12, Fields
    <2> QED
        BY <1>16, <2>1, <2>2, <2>3
<1>24. Ahead(r, j, f) < left' /\ left' \in 0..MaxCap
    <2>1. Ahead(t, i, f) \in Int /\ Ahead(t, i, f) >= 0
        BY <1>5 DEF Positions
    <2> QED
        BY <1>2, <1>4, <1>6, <1>20, <1>21, <2>1
<1>25. r.count < r.cap
    <2>1. r.count <= t.count
        BY <1>2, <1>10, <1>16
    <2> QED
        BY <1>2, <1>10, <1>16, <2>1, Fields
<1>26. TypeOK' /\ TableIsSound' /\ OneEach(table')
    <2>1. idx' \in Positions(table') \cup {-1}
        BY <1>14, <1>19, <1>20, <1>21
    <2>2. table'.cap <= MaxCap
        BY <1>2, <1>10, <1>14, <1>16
    <2> QED
        BY <1>2, <1>6, <1>14, <1>16, <1>18, <1>24, <1>25, <2>1, <2>2, NextTable
<1>27. Probing'
    BY <1>14, <1>19, <1>22 DEF Probing
<1>28. LoopEnds'
    BY <1>14, <1>19, <1>21, <1>22, <1>23, <1>24 DEF LoopEnds, Stops
<1>29. \A m \in Keys : Holds(r, m) = Holds(t, m)
    BY <1>11, <1>18
<1>30. Contents' = Contents
    BY <1>1, <1>14, <1>29 DEF Contents
<1> QED
    BY <1>6, <1>26, <1>27, <1>28, <1>30 DEF IInv

\* The loop's end: at a free entry, so that nothing is pending any more.
LEMMA LoopStop ==
    ASSUME IInv, idx # -1, left = 0 \/ table.tab[idx] = None, Reinsert
    PROVE  IInv' /\ Contents' = Contents /\ answer' = answer
<1>1. idx' = -1 /\ left' = 0 /\ UNCHANGED table /\ answer' = answer
    BY DEF Reinsert
<1>2. /\ IsTable(table) /\ Listed(table) /\ OneEach(table) /\ table.count < table.cap
      /\ table.cap \in 1..MaxCap /\ MaxCap \in Nat /\ idx \in Positions(table)
      /\ table.cap \in Nat \ {0} /\ answer \in Vals \cup {None}
    BY TheTable, Fields
<1>3. table.tab[idx] = None
    <2>1. PICK f \in Positions(table) : Ahead(table, idx, f) < left
        BY DEF IInv, LoopEnds, Stops
    <2>2. Ahead(table, idx, f) \in Positions(table)
        BY <1>2, Aheads
    <2> QED
        BY <2>1, <2>2 DEF Positions
<1>4. ASSUME NEW q \in Positions(table)
      PROVE  ~Pending(table, idx, q)
    <2>1. Ahead(table, idx, q) \in Positions(table) /\ 0 \in Positions(table)
        BY <1>2, Aheads DEF Positions
    <2>2. 0 \in 0..Ahead(table, idx, q)
        BY <2>1 DEF Positions
    <2>3. (idx + 0) % table.cap = idx
        <3>1. (idx + 0) % table.cap = IF idx + 0 < table.cap THEN idx + 0 ELSE idx + 0 - table.cap
            BY <1>2, <2>1, Aheads
        <3> QED
            BY <1>2, <3>1 DEF Positions
    <2> QED
        BY <1>3, <2>2, <2>3 DEF Pending
<1>5. \A k \in Keys : AllReached(table, k)
    BY <1>4 DEF IInv, Probing, AllReached, Entries
<1>6. Sound(table)
    BY <1>2, <1>5 DEF Sound
<1>7. IInv'
    <2>1. Sound(table') /\ table'.cap <= MaxCap /\ left' \in 0..MaxCap /\ answer' \in Vals \cup {None}
        BY <1>1, <1>2, <1>6
    <2> QED
        BY <1>1, <2>1, NextIdle
<1> QED
    BY <1>1, <1>7 DEF Contents

\* The invariant holds at first.
LEMMA InitIInv == Init => IInv /\ Contents = [k \in Keys |-> None] /\ answer = None
<1> SUFFICES ASSUME Init
             PROVE  IInv /\ Contents = [k \in Keys |-> None] /\ answer = None
    OBVIOUS
<1>1. table = Empty(Cap) /\ idx = -1 /\ left = 0 /\ answer = None
    BY DEF Init
<1>2. Cap \in Nat \ {0} /\ MaxCap \in Nat /\ Cap <= MaxCap
    BY CapAssumption
<1>3. /\ Sound(table) /\ table.cap = Cap /\ table.count = 0
      /\ \A k \in Keys : Holds(table, k) = None
    BY <1>1, <1>2, EmptySound
<1>4. TypeOK
    <2>1. table \in Tables(Cap) /\ Cap \in 1..MaxCap
        BY <1>2, <1>3, Fields DEF Sound
    <2> QED
        BY <1>1, <1>2, <2>1 DEF TypeOK
<1>5. TableIsSound /\ OneEach(table) /\ Probing /\ LoopEnds
    BY <1>1, <1>3 DEF Sound, Listed, TableIsSound, Probing, AllReached, LoopEnds
<1> QED
    BY <1>1, <1>3, <1>4, <1>5 DEF IInv, Contents

\* A step keeps the invariant and is one of a dictionary, or leaves it as it is.
LEMMA NextIInv ==
    ASSUME IInv, [Next]_vars
    PROVE  IInv' /\ [Dict!Next]_<<Contents, answer>>
<1>1. CASE Reinsert
    <2>1. IInv' /\ Contents' = Contents /\ answer' = answer
        BY <1>1, PutBack, LoopStop DEF Reinsert
    <2> QED
        BY <2>1
<1>2. ASSUME NEW k \in Keys, Lookup(k)
      PROVE  IInv' /\ [Dict!Next]_<<Contents, answer>>
    <2>1. IInv' /\ Contents' = Contents /\ answer' = Contents[k]
        BY <1>2, LookupStep
    <2>2. Dict!Look(k)
        BY <2>1 DEF Dict!Look
    <2> QED
        BY <2>1, <2>2 DEF Dict!Next
<1>3. ASSUME NEW k \in Keys, RemoveKey(k)
      PROVE  IInv' /\ [Dict!Next]_<<Contents, answer>>
    <2>1. IInv' /\ Contents' = [Contents EXCEPT ![k] = None] /\ answer' = Contents[k]
        BY <1>3, RemoveStep
    <2>2. Dict!Put(k, None)
        BY <2>1 DEF Dict!Put
    <2> QED
        BY <2>1, <2>2 DEF Dict!Next
<1>4. ASSUME NEW k \in Keys, NEW v \in Vals, Add(k, v)
      PROVE  IInv' /\ [Dict!Next]_<<Contents, answer>>
    <2>1. IInv' /\ Contents' = [Contents EXCEPT ![k] = v] /\ answer' = Contents[k]
        BY <1>4, AddStep
    <2>2. Dict!Put(k, v)
        BY <2>1 DEF Dict!Put
    <2> QED
        BY <2>1, <2>2 DEF Dict!Next
<1>5. CASE UNCHANGED vars
    <2>1. table' = table /\ idx' = idx /\ left' = left /\ answer' = answer
        BY <1>5 DEF vars
    <2>2. TypeOK' /\ TableIsSound'
        BY <2>1 DEF IInv, TypeOK, TableIsSound, Positions
    <2>3. OneEach(table') /\ Probing' /\ LoopEnds'
        BY <2>1 DEF IInv, Probing, LoopEnds, Stops
    <2>4. Contents' = Contents
        BY <2>1 DEF Contents
    <2> QED
        BY <2>1, <2>2, <2>3, <2>4 DEF IInv
<1> QED
    BY <1>1, <1>2, <1>3, <1>4, <1>5 DEF Next

\* The inductive invariant: where a search for a key leads, and which entries the
\* loop of a removal has still to put back (hash-tab.c:216-245).
THEOREM IInvHolds == Spec => []IInv
<1>1. Init => IInv
    BY InitIInv
<1>2. IInv /\ [Next]_vars => IInv'
    BY NextIInv
<1> QED
    BY <1>1, <1>2, PTL DEF Spec

\* Every variable has its type.
THEOREM TypeCorrect == Spec => []TypeOK
<1>1. IInv => TypeOK
    BY DEF IInv
<1> QED
    BY <1>1, IInvHolds, PTL

\* The list and the count are those of the entries, in the middle of a removal too,
\* and a free entry is left (hash-tab.c:194-197, 277-296).
THEOREM TableIsSoundHolds == Spec => []TableIsSound
<1>1. IInv => TableIsSound
    BY DEF IInv
<1> QED
    BY <1>1, IInvHolds, PTL

\* Every search ends at the key or at a free entry: the assertion of hash_insert
\* (hash-tab.c:76) holds for whatever key comes next.
THEOREM SearchesEnd == Spec => [](\A k \in Keys : Searched(table, k) # {})
<1>1. IInv => \A k \in Keys : Searched(table, k) # {}
    <2> SUFFICES ASSUME IInv, NEW k \in Keys
                 PROVE  Searched(table, k) # {}
        OBVIOUS
    <2>1. IsTable(table) /\ Listed(table) /\ table.count < table.cap /\ table.cap \in Nat \ {0}
        BY TheTable, Fields
    <2>2. PICK f \in Positions(table) : table.tab[f] = None
        BY <2>1, FreeEntry
    <2>3. Away(table, k, f) \in Positions(table) /\ Ends(table, k, Away(table, k, f))
        BY <2>1, <2>2, Aways DEF Ends
    <2> QED
        BY <2>1, <2>3, SearchEnds
<1> QED
    BY <1>1, IInvHolds, PTL

\* The bound of hash_tab_remove's loop (hash-tab.c:234) never ends it: it comes to a
\* free entry with an iteration to spare.
THEOREM LoopStopsInTime == Spec => [](idx # -1 => left > 0)
<1>1. IInv => (idx # -1 => left > 0)
    <2> SUFFICES ASSUME IInv, idx # -1
                 PROVE  left > 0
        OBVIOUS
    <2>1. PICK f \in Positions(table) : Ahead(table, idx, f) < left
        BY DEF IInv, LoopEnds, Stops
    <2>2. idx \in Positions(table) /\ table.cap \in Nat \ {0} /\ left \in Nat
        BY TheTable
    <2>3. Ahead(table, idx, f) \in Positions(table)
        BY <2>1, <2>2, Aheads
    <2> QED
        BY <2>1, <2>2, <2>3 DEF Positions
<1> QED
    BY <1>1, IInvHolds, PTL

\* The table implements a dictionary: a rehash and every iteration of a removal
\* leave what it holds, and an operation answers and changes its own key alone.
THEOREM Implements == Spec => IsDictionary
<1>1. Init => Dict!Init
    BY InitIInv DEF Dict!Init
<1>2. IInv /\ [Next]_vars => [Dict!Next]_<<Contents, answer>>
    BY NextIInv
<1> QED
    BY <1>1, <1>2, IInvHolds, PTL DEF Spec, IsDictionary, Dict!Spec

-----------------------------------------------------------------------------
(* The ring of the error log.                                              *)

\* An index that ran over the end of the ring by less than a whole turn.
LEMMA WrapAround ==
    ASSUME NEW x \in 0..(2 * LogCap - 1)
    PROVE  x % LogCap = IF x < LogCap THEN x ELSE x - LogCap
<1>1. LogCap \in Nat /\ LogCap > 0 /\ x \in Nat
    BY CapPositive
<1>2. CASE x < LogCap
    BY <1>1, <1>2
<1>3. CASE x >= LogCap
    <2>1. x = 1 * LogCap + (x - LogCap) /\ x - LogCap \in 0..(LogCap - 1)
        BY <1>1, <1>3
    <2> QED
        BY <1>1, <1>3, <2>1
<1> QED
    BY <1>1, <1>2, <1>3

\* The oldest entry is entry 0 until the ring is full, and next from then on.
LEMMA OldestEntry ==
    ASSUME LogIInv
    PROVE  /\ Start = IF count < LogCap THEN 0 ELSE next
           /\ Start \in Index
<1>1. /\ LogCap \in Nat /\ LogCap > 0 /\ next \in 0..(LogCap - 1) /\ count \in 0..LogCap
      /\ count < LogCap => next = count
    BY CapPositive DEF LogIInv, LogTypeOK, Filled, Index
<1>2. next + LogCap - count \in 0..(2 * LogCap - 1)
    BY <1>1
<1>3. Start = IF next + LogCap - count < LogCap THEN next + LogCap - count ELSE (next + LogCap - count) - LogCap
    <2> DEFINE x == next + LogCap - count
    <2>1. x \in 0..(2 * LogCap - 1) /\ Start = x % LogCap
        BY <1>2 DEF Start
    <2> HIDE DEF x
    <2>2. Start = IF x < LogCap THEN x ELSE x - LogCap
        BY <2>1, WrapAround
    <2> QED
        BY <2>2 DEF x
<1>4. CASE count < LogCap
    BY <1>1, <1>3, <1>4 DEF Index
<1>5. CASE count = LogCap
    BY <1>1, <1>3, <1>5 DEF Index
<1> QED
    BY <1>1, <1>4, <1>5

\* The i-th message a reader is given.
LEMMA ReaderEntry ==
    ASSUME LogIInv, NEW i \in 1..count
    PROVE  /\ Messages[i] \in Msgs
           /\ count < LogCap => Messages[i] = entries[i - 1]
           /\ count = LogCap => Messages[i] = IF next + i - 1 < LogCap THEN entries[next + i - 1]
                                                                ELSE entries[next + i - 1 - LogCap]
<1> DEFINE x == Start + i - 1
<1>1. /\ LogCap \in Nat /\ LogCap > 0 /\ next \in 0..(LogCap - 1) /\ count \in 0..LogCap
      /\ i \in Int /\ 1 <= i /\ i <= count
      /\ \A j \in Index : j < count => entries[j] \in Msgs
    BY CapPositive DEF LogIInv, LogTypeOK, Filled, Index
<1>2. /\ Start = IF count < LogCap THEN 0 ELSE next
      /\ Start \in 0..(LogCap - 1)
    BY OldestEntry DEF Index
<1>3. x \in 0..(2 * LogCap - 1)
    BY <1>1, <1>2
<1>4. x % LogCap = IF x < LogCap THEN x ELSE x - LogCap
    BY <1>3, WrapAround
<1>5. Messages[i] = entries[x % LogCap]
    BY DEF Messages
<1> HIDE DEF x
<1>6. CASE count < LogCap
    <2>1. x = i - 1 /\ x < LogCap /\ x < count /\ x \in Index
        BY <1>1, <1>2, <1>6 DEF x, Index
    <2> QED
        BY <1>1, <1>4, <1>5, <1>6, <2>1
<1>7. CASE count = LogCap
    <2>1. x = next + i - 1
        BY <1>1, <1>2, <1>7 DEF x
    <2>2. x % LogCap \in Index /\ x % LogCap < count
        BY <1>1, <1>3, <1>4, <1>7 DEF Index
    <2> QED
        BY <1>1, <1>4, <1>5, <1>7, <2>1, <2>2
<1> QED
    BY <1>1, <1>6, <1>7

\* What a reader is given is a list of count messages.
LEMMA ReadersGetMessages ==
    ASSUME LogIInv
    PROVE  Messages \in Seq(Msgs) /\ Len(Messages) = count
<1>1. count \in Nat
    BY CapPositive DEF LogIInv, LogTypeOK
<1>2. Messages \in [1..count -> Msgs]
    <2>1. \A i \in 1..count : Messages[i] \in Msgs
        BY ReaderEntry
    <2> QED
        BY <2>1 DEF Messages
<1> HIDE DEF Messages
<1> QED
    BY <1>1, <1>2

\* The log starts empty.
LEMMA LogInitIInv == InitLog => LogIInv
BY CapPositive DEF InitLog, LogIInv, LogTypeOK, Filled, Index

\* Where a push leaves the ring.
LEMMA PushMoves ==
    ASSUME LogIInv, NEW m \in Msgs, Push(m)
    PROVE  /\ next' = IF next + 1 < LogCap THEN next + 1 ELSE 0
           /\ count' = IF count < LogCap THEN count + 1 ELSE count
           /\ \A j \in Index : entries'[j] = IF j = next THEN m ELSE entries[j]
           /\ entries' \in [Index -> Msgs \cup {NoMsg}]
           /\ report' = report
<1>1. /\ LogCap \in Nat /\ LogCap > 0 /\ next \in 0..(LogCap - 1)
      /\ entries \in [Index -> Msgs \cup {NoMsg}]
    BY CapPositive DEF LogIInv, LogTypeOK, Index
<1>2. next + 1 \in 0..(2 * LogCap - 1)
    BY <1>1
<1>3. (next + 1) % LogCap = IF next + 1 < LogCap THEN next + 1 ELSE (next + 1) - LogCap
    <2> DEFINE x == next + 1
    <2> HIDE DEF x
    <2>1. x % LogCap = IF x < LogCap THEN x ELSE x - LogCap
        BY <1>2, WrapAround DEF x
    <2> QED
        BY <2>1 DEF x
<1>4. next' = IF next + 1 < LogCap THEN next + 1 ELSE 0
    BY <1>1, <1>3 DEF Push
<1> QED
    BY <1>1, <1>4 DEF Push

\* Every step keeps the inductive invariant.
LEMMA LogNextIInv == LogIInv /\ [LogNext]_logVars => LogIInv'
<1> SUFFICES ASSUME LogIInv, [LogNext]_logVars PROVE LogIInv'
    OBVIOUS
<1>1. /\ LogCap \in Nat /\ LogCap > 0 /\ next \in 0..(LogCap - 1) /\ count \in 0..LogCap
      /\ count < LogCap => next = count
      /\ \A j \in Index : j < count => entries[j] \in Msgs
      /\ report \in Seq(Msgs \cup {NoMsg})
    BY CapPositive DEF LogIInv, LogTypeOK, Filled, Index
<1>2. CASE Respond
    <2>1. report' \in Seq(Msgs \cup {NoMsg})
        BY <1>2, ReadersGetMessages DEF Respond
    <2> QED
        BY <1>2, <2>1 DEF Respond, LogIInv, LogTypeOK, Filled
<1>3. ASSUME NEW m \in Msgs, Push(m)
      PROVE  LogIInv'
    <2>1. /\ next' = IF next + 1 < LogCap THEN next + 1 ELSE 0
          /\ count' = IF count < LogCap THEN count + 1 ELSE count
          /\ \A j \in Index : entries'[j] = IF j = next THEN m ELSE entries[j]
          /\ entries' \in [Index -> Msgs \cup {NoMsg}]
          /\ report' = report
        BY <1>3, PushMoves
    <2>2. LogTypeOK'
        BY <1>1, <2>1 DEF LogTypeOK, Index
    <2>3. count' < LogCap => next' = count'
        BY <1>1, <2>1
    <2>4. \A j \in Index : j < count' => entries'[j] \in Msgs
        BY <1>1, <2>1 DEF Index
    <2> QED
        BY <2>2, <2>3, <2>4 DEF LogIInv, Filled
<1>4. CASE UNCHANGED logVars
    BY <1>4 DEF logVars, LogIInv, LogTypeOK, Filled
<1> QED
    BY <1>2, <1>3, <1>4 DEF LogNext

\* The inductive invariant holds whatever is pushed and read.
THEOREM LogIInvHolds == LogSpec => []LogIInv
BY LogInitIInv, LogNextIInv, PTL DEF LogSpec

\* The indices stay within the ring.
THEOREM LogTypeCorrect == LogSpec => []LogTypeOK
<1>1. LogIInv => LogTypeOK
    BY DEF LogIInv
<1> QED
    BY LogIInvHolds, <1>1, PTL

\* A reader never meets a NULL message, at no fill level and for no capacity
\* (prof_err_log_size dereferences e->msg unchecked).
THEOREM NoNullReadHolds == LogSpec => []NoNullRead
<1>1. LogIInv => NoNullRead
    BY ReaderEntry, NoneNotMsg DEF NoNullRead
<1> QED
    BY LogIInvHolds, <1>1, PTL

\* The lemmas above, for the next state.
LEMMA ReaderEntriesNext ==
    LogIInv' => /\ Messages' \in Seq(Msgs) /\ Len(Messages') = count'
             /\ \A i \in 1..count' :
                   /\ count' < LogCap => Messages'[i] = entries'[i - 1]
                   /\ count' = LogCap => Messages'[i] =
                         IF next' + i - 1 < LogCap THEN entries'[next' + i - 1]
                                                ELSE entries'[next' + i - 1 - LogCap]
<1> DEFINE P == /\ Messages \in Seq(Msgs) /\ Len(Messages) = count
                /\ \A i \in 1..count :
                      /\ count < LogCap => Messages[i] = entries[i - 1]
                      /\ count = LogCap => Messages[i] =
                            IF next + i - 1 < LogCap THEN entries[next + i - 1]
                                                  ELSE entries[next + i - 1 - LogCap]
<1>1. LogIInv => P
    BY ReadersGetMessages, ReaderEntry
<1> HIDE DEF P
<1>2. LogIInv' => P'
    BY <1>1, PTL
<1> QED
    BY <1>2 DEF P

\* A push appends to what readers are given, and drops the oldest message only
\* when the ring is full.
LEMMA PushAppends ==
    ASSUME LogIInv, NEW m \in Msgs, Push(m)
    PROVE  Messages' = IF Len(Messages) < LogCap THEN Append(Messages, m) ELSE Append(Tail(Messages), m)
<1>1. /\ LogCap \in Nat /\ LogCap > 0 /\ next \in 0..(LogCap - 1) /\ count \in 0..LogCap
      /\ count < LogCap => next = count
    BY CapPositive DEF LogIInv, LogTypeOK, Filled, Index
<1>2. /\ next' = IF next + 1 < LogCap THEN next + 1 ELSE 0
      /\ count' = IF count < LogCap THEN count + 1 ELSE count
      /\ \A j \in Index : entries'[j] = IF j = next THEN m ELSE entries[j]
    BY PushMoves
<1>3. LogIInv'
    BY LogNextIInv DEF LogNext
<1>4. Messages \in Seq(Msgs) /\ Len(Messages) = count
    BY ReadersGetMessages
<1>5. Messages' \in Seq(Msgs) /\ Len(Messages') = count'
    BY <1>3, ReaderEntriesNext
<1>6. \A i \in 1..count : /\ count < LogCap => Messages[i] = entries[i - 1]
                          /\ count = LogCap => Messages[i] =
                                IF next + i - 1 < LogCap THEN entries[next + i - 1]
                                                      ELSE entries[next + i - 1 - LogCap]
    BY ReaderEntry
<1>7. \A i \in 1..count' : /\ count' < LogCap => Messages'[i] = entries'[i - 1]
                           /\ count' = LogCap => Messages'[i] =
                                IF next' + i - 1 < LogCap THEN entries'[next' + i - 1]
                                                       ELSE entries'[next' + i - 1 - LogCap]
    BY <1>3, ReaderEntriesNext
<1> HIDE DEF Messages
<1>8. CASE count < LogCap
    <2>1. Append(Messages, m) \in Seq(Msgs) /\ Len(Append(Messages, m)) = count'
        BY <1>2, <1>4, <1>8
    <2>2. ASSUME NEW i \in 1..count'
          PROVE  Messages'[i] = Append(Messages, m)[i]
        <3>1. CASE i = count'
            BY <1>1, <1>2, <1>4, <1>7, <1>8, <3>1 DEF Index
        <3>2. CASE i < count'
            <4>1. i \in 1..count /\ i - 1 \in Index /\ i - 1 # next
                BY <1>1, <1>2, <1>8, <3>2 DEF Index
            <4>2. Messages'[i] = entries[i - 1]
                BY <1>1, <1>2, <1>7, <1>8, <4>1
            <4> QED
                BY <1>4, <1>6, <1>8, <4>1, <4>2
        <3>3. i = count' \/ i < count'
            BY <1>1, <1>2
        <3> QED
            BY <3>1, <3>2, <3>3
    <2>3. Messages' = Append(Messages, m)
        BY <1>5, <2>1, <2>2
    <2> QED
        BY <1>4, <1>8, <2>3
<1>9. CASE count = LogCap
    <2>1. Messages # <<>> /\ Tail(Messages) \in Seq(Msgs) /\ Len(Tail(Messages)) = LogCap - 1
        BY <1>1, <1>4, <1>9
    <2>2. Append(Tail(Messages), m) \in Seq(Msgs) /\ Len(Append(Tail(Messages), m)) = count'
        BY <1>1, <1>2, <1>9, <2>1
    <2>3. ASSUME NEW i \in 1..count'
          PROVE  Messages'[i] = Append(Tail(Messages), m)[i]
        <3>1. CASE i = LogCap
            <4>1. Messages'[i] = m
                BY <1>1, <1>2, <1>7, <1>9, <3>1 DEF Index
            <4> QED
                BY <1>1, <2>1, <3>1, <4>1
        <3>2. CASE i < LogCap
            <4>1. Append(Tail(Messages), m)[i] = Messages[i + 1]
                BY <1>1, <1>2, <1>4, <1>9, <2>1, <3>2
            <4>2. Messages[i + 1] = IF next + i < LogCap THEN entries[next + i] ELSE entries[next + i - LogCap]
                BY <1>1, <1>2, <1>6, <1>9, <3>2
            <4>3. Messages'[i] = IF next + i < LogCap THEN entries[next + i] ELSE entries[next + i - LogCap]
                BY <1>1, <1>2, <1>7, <1>9, <3>2 DEF Index
            <4> QED
                BY <4>1, <4>2, <4>3
        <3>3. i = LogCap \/ i < LogCap
            BY <1>1, <1>2, <1>9
        <3> QED
            BY <3>1, <3>2, <3>3
    <2>4. Messages' = Append(Tail(Messages), m)
        BY <1>5, <2>2, <2>3
    <2> QED
        BY <1>4, <1>9, <2>4
<1> QED
    BY <1>1, <1>8, <1>9

\* The ring implements the promise of get_async_errors for every capacity:
\* readers are given the most recent LogCap messages, oldest first.
THEOREM LogImplements == LogSpec => KeepsMostRecent
<1>1. InitLog => Log!Init
    BY DEF InitLog, Log!Init, Messages
<1>2. LogIInv /\ [LogNext]_logVars => [Log!Next]_<<Messages, report>>
    <2> SUFFICES ASSUME LogIInv, [LogNext]_logVars PROVE [Log!Next]_<<Messages, report>>
        OBVIOUS
    <2>1. CASE Respond
        BY <2>1 DEF Respond, Log!Next, Log!Read, Messages, Start
    <2>2. ASSUME NEW m \in Msgs, Push(m)
          PROVE  Log!Next
        <3>1. Log!Push(m)
            BY <2>2, PushAppends DEF Log!Push, Push
        <3> QED
            BY <3>1 DEF Log!Next
    <2>3. CASE UNCHANGED logVars
        BY <2>3 DEF logVars, Messages, Start
    <2> QED
        BY <2>1, <2>2, <2>3 DEF LogNext
<1> QED
    BY LogIInvHolds, <1>1, <1>2, PTL DEF LogSpec, KeepsMostRecent, Log!Spec
=============================================================================
