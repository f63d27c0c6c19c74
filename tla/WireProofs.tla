----------------------------- MODULE WireProofs -----------------------------
(***************************************************************************)
(* Theorems about Wire, for every number of clients, all requests and      *)
(* answers, sockets of every size and every way to cut up what is sent:    *)
(* the formats, the buffers, the nodes of the queue, and that Wire         *)
(* implements RemoteCall.                                                  *)
(***************************************************************************)
EXTENDS Wire, FiniteSetTheorems, SequenceTheorems, WellFoundedInduction, TLAPS

\* The types of what the listener reads, and the size that its buffers keep.
IInv ==
    /\ env \in DOMAIN Envs
    /\ asked \in [Clients -> E.requests \cup {None}]
    /\ out \in [Clients -> Seq(Byte)]
    /\ toServer \in [Clients -> Seq(Byte)]
    /\ buf \in [Clients -> Seq(Byte)]
    /\ expected \in [Clients -> Nat]
    /\ alloc \in [Clients -> Nat]
    /\ \A k \in Clients : alloc[k] >= HeaderSize
    /\ BuffersFit

-----------------------------------------------------------------------------
\* A set of numbers that is not empty has a least one.
LEMMA LeastNumber ==
    ASSUME NEW S \in SUBSET Nat, S # {}
    PROVE  \E i \in S : \A j \in S : i <= j
<1>1. PICK i \in S : \A j \in S : ~ (<<j, i>> \in OpToRel(<, Nat))
    BY NatLessThanWellFounded, WFMin
<1>2. \A j \in S : ~ (j < i)
    BY <1>1 DEF OpToRel
<1> QED BY <1>2

-----------------------------------------------------------------------------
(* Packing and unpacking.                                                  *)

FieldNames == {"u8", "u16", "u32", "u64", "str"}

\* The elements of one sequence behind another.
LEMMA Joined ==
    ASSUME NEW U, NEW a \in Seq(U), NEW b \in Seq(U)
    PROVE  /\ a \o b \in Seq(U) /\ Len(a \o b) = Len(a) + Len(b)
           /\ \A i \in 1..Len(a) : (a \o b)[i] = a[i]
           /\ \A j \in 1..Len(b) : (a \o b)[Len(a) + j] = b[j]
OBVIOUS

\* The m elements behind the first a.
LEMMA Piece ==
    ASSUME NEW U, NEW s \in Seq(U), NEW a \in Nat, NEW m \in Nat, a + m <= Len(s)
    PROVE  /\ SubSeq(s, a + 1, a + m) \in Seq(U) /\ Len(SubSeq(s, a + 1, a + m)) = m
           /\ \A j \in 1..m : SubSeq(s, a + 1, a + m)[j] = s[a + j]
<1>1. SubSeq(s, a + 1, a + m) \in Seq(U)
    OBVIOUS
<1>2. Len(SubSeq(s, a + 1, a + m)) = m
    OBVIOUS
<1> QED BY <1>1, <1>2

\* The widths are numbers, and a short has one byte.
LEMMA Widths == /\ Width.u16 = 1 /\ Width.u32 = 2
                /\ \A f \in FieldNames : f # "str" => Width[f] \in 1..3
BY DEF Width, FieldNames

\* The bytes of a number.
LEMMA NumberBytes ==
    ASSUME NEW f \in FieldNames, f # "str", NEW v \in Nat
    PROVE  /\ Number(f, v) \in Seq(Byte) /\ Len(Number(f, v)) = Width[f]
           /\ Number(f, v)[1] = <<v, 1, Width[f]>>
<1>1. Width[f] \in Nat /\ Width[f] >= 1
    BY Widths
<1>2. \A i \in 1..Width[f] : <<v, i, Width[f]>> \in Byte
    BY <1>1 DEF Byte
<1> HIDE DEF Byte
<1>3. PICK w \in Nat : w = Width[f]
    BY <1>1
<1>4. Number(f, v) = [i \in 1..w |-> <<v, i, w>>]
    BY <1>3 DEF Number
<1> QED BY <1>1, <1>2, <1>3, <1>4, SMTT(30)

\* The bytes of a field, and of a string the length that comes first.
LEMMA FieldBytes ==
    ASSUME NEW f \in FieldNames, NEW v, Holds(f, v)
    PROVE  /\ Field(f, v) \in Seq(Byte)
           /\ f # "str" => Len(Field(f, v)) = Width[f]
           /\ f = "str" => /\ Len(v) \in Nat /\ Len(Field(f, v)) = 1 + Len(v)
                           /\ Field(f, v)[1] = <<Len(v), 1, 1>>
<1>1. CASE f # "str"
    BY <1>1, NumberBytes DEF Field, Holds
<1>2. CASE f = "str"
    <2>1. v \in Seq(Byte) /\ Len(v) \in Nat /\ Len(v) <= MaxShort
        BY <1>2 DEF Holds
    <2>2. Len(v) % (MaxShort + 1) = Len(v)
        BY <2>1, ShortAssumption
    <2> DEFINE h == Number("u16", Len(v))
    <2>3. h \in Seq(Byte) /\ Len(h) = 1 /\ h[1] = <<Len(v), 1, 1>>
        BY <2>1, NumberBytes, Widths DEF FieldNames
    <2>4. Field(f, v) = h \o v
        BY <1>2, <2>2 DEF Field
    <2> HIDE DEF h
    <2>5. /\ h \o v \in Seq(Byte) /\ Len(h \o v) = 1 + Len(v)
          /\ (h \o v)[1] = h[1]
        <3>1. Len(h \o v) = Len(h) + Len(v) /\ \A i \in 1..Len(h) : (h \o v)[i] = h[i]
            BY <2>1, <2>3, Joined
        <3>2. h \o v \in Seq(Byte)
            BY <2>1, <2>3, Joined
        <3>3. 1 \in 1..1
            OBVIOUS
        <3> QED BY <2>3, <3>1, <3>2, <3>3, Zenon
    <2> QED BY <1>2, <2>1, <2>3, <2>4, <2>5, Zenon
<1> QED BY <1>1, <1>2

\* What FlattenSeq goes through: g[i] is the first i sequences, one behind the other.
Flattens(seqs, n, g) == /\ g[1] = seqs[1]
                        /\ \A i \in 2..n : g[i] = g[i - 1] \o seqs[i]
FlatStep(seqs, g, i) == IF i = 1 THEN seqs[i] ELSE g[i - 1] \o seqs[i]
IsFlat(seqs, n, g) == g = [i \in 1..n |-> FlatStep(seqs, g, i)]

\* It goes through them for every number of sequences.
LEMMA FlatExists ==
    ASSUME NEW seqs, NEW n \in Nat \ {0}
    PROVE  \E g : IsFlat(seqs, n, g)
<1> DEFINE D == {m \in Nat \ {0} : ~ \E g : IsFlat(seqs, m, g)}
<1> SUFFICES ASSUME D # {} PROVE FALSE
    OBVIOUS
<1>1. PICK m \in D : \A k \in D : m <= k
    <2>1. D \in SUBSET Nat
        OBVIOUS
    <2> HIDE DEF D
    <2> QED BY <2>1, LeastNumber
<1>2. m \in Nat \ {0} /\ ~ \E g : IsFlat(seqs, m, g)
    OBVIOUS
<1>3. CASE m = 1
    <2> DEFINE g == [i \in 1..1 |-> seqs[1]]
    <2>1. IsFlat(seqs, 1, g)
        BY DEF IsFlat, FlatStep
    <2> QED BY <1>2, <1>3, <2>1
<1>4. CASE m > 1
    <2>1. m - 1 \in Nat \ {0} /\ ~(m <= m - 1)
        BY <1>2, <1>4
    <2>2. PICK h : IsFlat(seqs, m - 1, h)
        BY <1>1, <2>1
    <2>y. PICK y : y = h[m - 1] \o seqs[m]
        OBVIOUS
    <2> DEFINE g == [i \in 1..m |-> IF i = m THEN y ELSE h[i]]
               e == [i \in 1..m |-> FlatStep(seqs, g, i)]
    <2>3. ASSUME NEW i \in 1..m PROVE g[i] = FlatStep(seqs, g, i)
        <3>1. CASE i = m
            <4>1. g[m - 1] = h[m - 1]
                BY <1>2, <1>4
            <4>2. g[m] = y
                BY <1>2
            <4>3. m # 1
                BY <1>4
            <4> HIDE DEF g
            <4> QED BY <2>y, <3>1, <4>1, <4>2, <4>3, Zenon DEF FlatStep
        <3>2. CASE i # m
            <4>1. i \in 1..m - 1 /\ (i # 1 => i - 1 \in 1..m - 1)
                BY <1>2, <3>2
            <4>2. h[i] = FlatStep(seqs, h, i)
                BY <2>2, <4>1 DEF IsFlat
            <4>3. g[i] = h[i] /\ (i # 1 => g[i - 1] = h[i - 1])
                BY <1>2, <4>1
            <4> HIDE DEF g
            <4> QED BY <4>2, <4>3 DEF FlatStep
        <3> QED BY <3>1, <3>2
    <2>4. g = e
        <3>1. \A i \in 1..m : g[i] = e[i]
            BY <2>3
        <3> QED BY <3>1
    <2>5. IsFlat(seqs, m, g)
        BY <2>4 DEF IsFlat
    <2> QED BY <1>2, <2>5
<1> QED BY <1>2, <1>3, <1>4

\* The result of FlattenSeq is where it ends.
LEMMA FlattenSteps ==
    ASSUME NEW U, NEW n \in Nat \ {0}, NEW seqs \in [1..n -> Seq(U)]
    PROVE  \E g \in [1..n -> Seq(U)] : Flattens(seqs, n, g) /\ FlattenSeq(seqs) = g[n]
<1> DEFINE g == CHOOSE f : IsFlat(seqs, n, f)
<1>1. Len(seqs) = n
    OBVIOUS
<1>2. FlattenSeq(seqs) = g[n]
    BY <1>1 DEF FlattenSeq, IsFlat, FlatStep
<1>3. IsFlat(seqs, n, g)
    BY FlatExists
<1> HIDE DEF g
<1>4. DOMAIN g = 1..n /\ g = [i \in 1..n |-> g[i]]
    BY <1>3 DEF IsFlat
<1>5. \A i \in 1..n : g[i] = FlatStep(seqs, g, i)
    BY <1>3 DEF IsFlat
<1>6. Flattens(seqs, n, g)
    <2>1. 1 \in 1..n /\ \A i \in 2..n : i \in 1..n /\ i # 1
        OBVIOUS
    <2> QED BY <1>5, <2>1 DEF Flattens, FlatStep
<1>7. \A i \in 1..n : g[i] \in Seq(U)
    <2> DEFINE D == {i \in 1..n : g[i] \notin Seq(U)}
    <2> SUFFICES ASSUME D # {} PROVE FALSE
        OBVIOUS
    <2>1. PICK i \in D : \A k \in D : i <= k
        <3>1. D \in SUBSET Nat
            OBVIOUS
        <3> HIDE DEF D
        <3> QED BY <3>1, LeastNumber
    <2>2. i \in 1..n /\ g[i] \notin Seq(U)
        OBVIOUS
    <2>3. CASE i = 1
        BY <1>6, <2>2, <2>3 DEF Flattens
    <2>4. CASE i # 1
        <3>1. i \in 2..n /\ i - 1 \in 1..n /\ ~(i <= i - 1)
            BY <2>2, <2>4
        <3>2. g[i - 1] \in Seq(U) /\ seqs[i] \in Seq(U)
            BY <2>1, <2>2, <3>1
        <3>3. g[i] = g[i - 1] \o seqs[i]
            BY <1>6, <3>1, Zenon DEF Flattens
        <3>4. \A a, b \in Seq(U) : a \o b \in Seq(U)
            OBVIOUS
        <3> QED BY <2>2, <3>2, <3>3, <3>4, Zenon
    <2> QED BY <2>3, <2>4
<1> QED BY <1>2, <1>4, <1>6, <1>7

\* All of them are what the last begins with.
ArePrefixes(g, n) == \A i \in 1..n : /\ Len(g[i]) <= Len(g[n])
                                  /\ \A p \in 1..Len(g[i]) : g[n][p] = g[i][p]

\* What was put together stays where it was put.
LEMMA FlatPrefix ==
    ASSUME NEW U, NEW n \in Nat \ {0}, NEW seqs \in [1..n -> Seq(U)],
           NEW g \in [1..n -> Seq(U)], Flattens(seqs, n, g)
    PROVE  ArePrefixes(g, n)
<1> DEFINE P(i) == Len(g[i]) <= Len(g[n]) /\ \A p \in 1..Len(g[i]) : g[n][p] = g[i][p]
           D == {d \in 0..n - 1 : ~P(n - d)}
<1>1. D = {}
    <2> SUFFICES ASSUME D # {} PROVE FALSE
        OBVIOUS
    <2>1. PICK d \in D : \A e \in D : d <= e
        <3>1. D \in SUBSET Nat
            OBVIOUS
        <3> HIDE DEF D
        <3> QED BY <3>1, LeastNumber
    <2>2. d \in 0..n - 1 /\ ~P(n - d)
        OBVIOUS
    <2>3. CASE d = 0
        <3>1. n - d = n /\ n \in 1..n
            BY <2>3
        <3>2. Len(g[n]) \in Nat
            BY <3>1
        <3> QED BY <2>2, <3>1, <3>2
    <2>4. CASE d # 0
        <3>1. PICK i \in 1..n - 1 : i = n - d
            BY <2>2, <2>4
        <3>2. /\ d - 1 \in 0..n - 1 /\ ~(d <= d - 1) /\ n - (d - 1) = i + 1
              /\ i + 1 \in 2..n /\ (i + 1) - 1 = i
            BY <2>2, <2>4, <3>1
        <3>3. P(i + 1)
            <4> HIDE DEF P
            <4>1. d - 1 \notin D
                <5> HIDE DEF D
                <5> QED BY <2>1, <3>2
            <4>2. P(n - (d - 1))
                BY <3>2, <4>1
            <4> QED BY <3>2, <4>2, Zenon
        <3>4. g[i + 1] = g[i] \o seqs[i + 1]
            <4>1. g[i + 1] = g[(i + 1) - 1] \o seqs[i + 1]
                BY <3>2, Zenon DEF Flattens
            <4> QED BY <3>2, <4>1, Zenon
        <3>5. i \in 1..n /\ i + 1 \in 1..n /\ n \in 1..n
            BY <3>1
        <3>6. PICK a \in Seq(U), b \in Seq(U), c \in Seq(U), z \in Seq(U) :
                  a = g[i] /\ b = seqs[i + 1] /\ c = g[i + 1] /\ z = g[n]
            BY <3>5
        <3>7. c = a \o b
            BY <3>4, <3>6, Zenon
        <3>8. Len(c) = Len(a) + Len(b) /\ \A p \in 1..Len(a) : c[p] = a[p]
            BY <3>7, Joined
        <3>10. Len(c) <= Len(z) /\ \A p \in 1..Len(c) : z[p] = c[p]
            BY <3>3, <3>6, Zenon
        <3>11. Len(a) <= Len(z) /\ \A p \in 1..Len(a) : z[p] = a[p]
            <4>0. \A s \in Seq(U) : Len(s) \in Nat
                BY SMT
            <4> HIDE DEF P, D
            <4>1. /\ Len(a) \in Nat /\ Len(b) \in Nat /\ Len(c) \in Nat /\ Len(z) \in Nat
                  /\ Len(c) = Len(a) + Len(b) /\ Len(c) <= Len(z)
                BY <3>8, <3>10, <4>0, Zenon
            <4>2. Len(a) <= Len(c) /\ Len(a) <= Len(z)
                BY ONLY <4>1
            <4>3. ASSUME NEW p \in 1..Len(a) PROVE z[p] = a[p]
                <5>1. p \in 1..Len(c)
                    BY <4>1, <4>2
                <5> QED BY <3>8, <3>10, <5>1, Zenon
            <4> QED BY <4>2, <4>3
        <3>9. P(i)
            <4>1. Len(a) = Len(g[i]) /\ Len(z) = Len(g[n])
                BY <3>6, Zenon
            <4>2. \A p \in 1..Len(g[i]) : g[n][p] = g[i][p]
                BY <3>6, <3>11, <4>1
            <4> QED BY <3>11, <4>1, <4>2
        <3> QED BY <2>2, <3>1, <3>9
    <2> QED BY <2>3, <2>4
<1> SUFFICES ASSUME NEW i \in 1..n PROVE P(i)
    BY DEF ArePrefixes
<1>2. n - i \in 0..n - 1 /\ n - (n - i) = i
    OBVIOUS
<1>3. P(n - (n - i))
    <2> HIDE DEF P
    <2> QED BY <1>1, <1>2
<1> QED BY <1>2, <1>3

\* The values can be packed with the format.
Suits(format, values) ==
    /\ format \in Seq(FieldNames) /\ Len(format) # 0
    /\ DOMAIN values = DOMAIN format
    /\ \A i \in DOMAIN format : Holds(format[i], values[i])

\* Field i stands between off[i - 1] and off[i].
IsLayout(format, values, body, off) ==
    /\ off[0] = 0 /\ off[Len(format)] = Len(body)
    /\ \A i \in 1..Len(format) :
          LET b == Field(format[i], values[i])
          IN  /\ off[i] = off[i - 1] + Len(b)
              /\ off[i] <= Len(body)
              /\ \A j \in 1..Len(b) : body[off[i - 1] + j] = b[j]

\* One of the sequences stands between off[i - 1] and off[i].
IsPlaced(n, seqs, body, off) ==
    /\ off[0] = 0 /\ off[n] = Len(body)
    /\ \A i \in 1..n : /\ off[i] = off[i - 1] + Len(seqs[i]) /\ off[i] <= Len(body)
                       /\ \A j \in 1..Len(seqs[i]) : body[off[i - 1] + j] = seqs[i][j]

\* Flattened sequences stand one behind the other.
LEMMA FlatPlaces ==
    ASSUME NEW n \in Nat, NEW seqs \in [1..n -> Seq(Byte)]
    PROVE  /\ FlattenSeq(seqs) \in Seq(Byte)
           /\ \E off \in [0..n -> Nat] : IsPlaced(n, seqs, FlattenSeq(seqs), off)
<1> HIDE DEF Byte
<1>1. CASE n = 0
    <2>1. seqs \in Seq(Byte) /\ Len(seqs) = 0
        BY <1>1
    <2>2. FlattenSeq(seqs) = seqs
        BY <2>1 DEF FlattenSeq
    <2>3. PICK off : off = [i \in 0..n |-> 0]
        OBVIOUS
    <2>4. off \in [0..n -> Nat] /\ off[0] = 0 /\ off[n] = 0 /\ 1..n = {}
        BY <1>1, <2>3
    <2>5. IsPlaced(n, seqs, seqs, off)
        BY <2>1, <2>4 DEF IsPlaced
    <2> QED BY <2>1, <2>2, <2>4, <2>5
<1>2. CASE n # 0
    <2>1. n \in Nat \ {0} /\ n \in 1..n
        BY <1>2
    <2>2. PICK g \in [1..n -> Seq(Byte)] : Flattens(seqs, n, g) /\ FlattenSeq(seqs) = g[n]
        BY <2>1, FlattenSteps
    <2>3. PICK body \in Seq(Byte) : body = FlattenSeq(seqs) /\ body = g[n]
        BY <2>1, <2>2
    <2>4. \A i \in 1..n : Len(g[i]) <= Len(body) /\ \A p \in 1..Len(g[i]) : body[p] = g[i][p]
        <3>1. ArePrefixes(g, n)
            <4>1. seqs \in [1..n -> Seq(Byte)] /\ Flattens(seqs, n, g)
                BY <2>2
            <4>2. n \in Nat \ {0} /\ g \in [1..n -> Seq(Byte)]
                BY <2>1
            <4> QED BY ONLY <4>1, <4>2, FlatPrefix
        <3> QED BY <2>3, <3>1, Zenon DEF ArePrefixes
    <2>5. PICK off : off = [i \in 0..n |-> IF i = 0 THEN 0 ELSE Len(g[i])]
        OBVIOUS
    <2>6. off \in [0..n -> Nat]
        BY <2>5
    <2>7. off[0] = 0 /\ \A i \in 1..n : off[i] = Len(g[i])
        BY <2>1, <2>5
    <2>8. ASSUME NEW i \in 1..n
          PROVE  /\ off[i] = off[i - 1] + Len(seqs[i]) /\ off[i] <= Len(body)
                 /\ \A j \in 1..Len(seqs[i]) : body[off[i - 1] + j] = seqs[i][j]
        <3>1. PICK b \in Seq(Byte) : b = seqs[i]
            OBVIOUS
        <3>2. CASE i = 1
            <4>1. g[i] = b /\ i - 1 = 0
                <5>1. g[1] = seqs[1]
                    BY <2>2, Zenon DEF Flattens
                <5>2. g[i] = b
                    BY <3>1, <3>2, <5>1, Zenon
                <5>3. i - 1 = 0
                    BY <3>2
                <5> QED BY <5>2, <5>3, Zenon
            <4>2. off[i] = Len(b) /\ off[i - 1] = 0 /\ off[i] <= Len(body)
                BY <2>4, <2>7, <4>1
            <4>3. \A j \in 1..Len(b) : body[j] = b[j]
                BY <2>4, <4>1
            <4> QED BY <3>1, <4>2, <4>3
        <3>3. CASE i # 1
            <4>1. i \in 2..n /\ i - 1 \in 1..n
                BY <2>1, <3>3
            <4>2. PICK a \in Seq(Byte) : a = g[i - 1]
                BY <4>1
            <4>3. g[i] = a \o b
                BY <2>2, <3>1, <4>1, <4>2, Zenon DEF Flattens
            <4>4. /\ Len(g[i]) = Len(a) + Len(b)
                  /\ \A j \in 1..Len(b) : g[i][Len(a) + j] = b[j]
                <5>1. /\ Len(a \o b) = Len(a) + Len(b)
                      /\ \A j \in 1..Len(b) : (a \o b)[Len(a) + j] = b[j]
                    BY Joined
                <5> QED BY <4>3, <5>1, Zenon
            <4>5. off[i - 1] = Len(a) /\ off[i] = Len(a) + Len(b) /\ off[i] <= Len(body)
                BY <2>4, <2>7, <4>1, <4>2, <4>4
            <4>6. ASSUME NEW j \in 1..Len(b) PROVE body[Len(a) + j] = b[j]
                <5>1. Len(a) + j \in 1..Len(g[i])
                    BY <4>4
                <5> QED BY <2>4, <4>4, <5>1
            <4> QED BY <3>1, <4>5, <4>6
        <3> QED BY <3>2, <3>3
    <2>9. IsPlaced(n, seqs, body, off)
        BY <2>1, <2>3, <2>7, <2>8 DEF IsPlaced
    <2> QED BY <2>3, <2>6, <2>9
<1> QED BY <1>1, <1>2

\* Packed values stand one behind the other.
LEMMA PackPlaces ==
    ASSUME NEW format \in Seq(FieldNames), NEW values,
           \A i \in DOMAIN format : Holds(format[i], values[i])
    PROVE  /\ Pack(format, values) \in Seq(Byte)
           /\ \E off \in [0..Len(format) -> Nat] :
                 IsLayout(format, values, Pack(format, values), off)
<1>1. PICK n \in Nat : n = Len(format) /\ DOMAIN format = 1..n
    OBVIOUS
<1>2. \A i \in 1..n : Field(format[i], values[i]) \in Seq(Byte)
    <2> SUFFICES ASSUME NEW i \in 1..n PROVE Field(format[i], values[i]) \in Seq(Byte)
        OBVIOUS
    <2>1. format[i] \in FieldNames /\ Holds(format[i], values[i])
        BY <1>1
    <2> QED BY <2>1, FieldBytes
<1>3. PICK seqs : seqs = [i \in 1..n |-> Field(format[i], values[i])]
    OBVIOUS
<1>4. seqs \in [1..n -> Seq(Byte)] /\ \A i \in 1..n : seqs[i] = Field(format[i], values[i])
    BY <1>2, <1>3
<1>5. PICK body : body = Pack(format, values) /\ body = FlattenSeq(seqs)
    BY <1>1, <1>3, Zenon DEF Pack
<1>6. body \in Seq(Byte) /\ \E off \in [0..n -> Nat] : IsPlaced(n, seqs, body, off)
    BY <1>4, <1>5, FlatPlaces
<1>7. PICK off \in [0..n -> Nat] : IsPlaced(n, seqs, body, off)
    BY <1>6
<1>8. IsLayout(format, values, body, off)
    <2>1. ASSUME NEW i \in 1..Len(format)
          PROVE  LET b == Field(format[i], values[i])
                 IN  /\ off[i] = off[i - 1] + Len(b)
                     /\ off[i] <= Len(body)
                     /\ \A j \in 1..Len(b) : body[off[i - 1] + j] = b[j]
        <3>1. i \in 1..n
            BY <1>1
        <3>2. PICK b : b = Field(format[i], values[i]) /\ b = seqs[i]
            BY <1>4, <3>1
        <3>3. /\ off[i] = off[i - 1] + Len(b) /\ off[i] <= Len(body)
              /\ \A j \in 1..Len(b) : body[off[i - 1] + j] = b[j]
            BY <1>7, <3>1, <3>2 DEF IsPlaced
        <3> QED BY <3>2, <3>3, Zenon
    <2>2. off[0] = 0 /\ off[Len(format)] = Len(body)
        BY <1>1, <1>7 DEF IsPlaced
    <2> QED BY <2>1, <2>2, Zenon DEF IsLayout
<1> QED BY <1>1, <1>5, <1>6, <1>7, <1>8

LEMMA PackLayout ==
    ASSUME NEW format, NEW values, Suits(format, values)
    PROVE  /\ Pack(format, values) \in Seq(Byte)
           /\ \E off \in [0..Len(format) -> Nat] :
                 IsLayout(format, values, Pack(format, values), off)
BY PackPlaces DEF Suits

\* What a field takes is a number, whatever the bytes are.
LEMMA ExtentIsNat ==
    ASSUME NEW bytes \in Seq(Byte), NEW a \in Nat, NEW f \in FieldNames
    PROVE  Extent(bytes, a, f) \in Nat
<1>1. CASE f # "str"
    BY <1>1, Widths DEF Extent
<1>2. CASE f = "str" /\ a + 1 > Len(bytes)
    BY <1>2, Widths DEF Extent
<1>3. CASE f = "str" /\ ~(a + 1 > Len(bytes))
    <2>1. PICK b \in Byte : b = bytes[a + 1]
        <3>1. a + 1 \in 1..Len(bytes)
            BY <1>3
        <3> QED BY <3>1
    <2>2. b[1] \in Nat
        BY DEF Byte
    <2>3. NumberAt(bytes, a, "u16") \in Nat
        BY <2>1, <2>2 DEF NumberAt
    <2> QED BY <1>3, <2>3, Widths DEF Extent
<1> QED BY <1>1, <1>2, <1>3

\* What Chain goes through, from a part on.
ChainStep(n, found, g, i, a) ==
    LET r == found[i][a] IN
    IF i > n THEN Found(<<>>, a)
    ELSE IF r.ok THEN Before(r.value, g[i + 1][r.next]) ELSE Short
IsChain(n, found, lo, g) ==
    g = [i \in lo..n + 1 |-> [a \in Nat |-> ChainStep(n, found, g, i, a)]]

\* It goes through any number of parts.
LEMMA ChainExists ==
    ASSUME NEW n \in Nat, NEW found
    PROVE  \E g : IsChain(n, found, 1, g)
<1>1. PICK m \in Nat : m = n + 1 /\ m > 0
    OBVIOUS
<1>2. PICK D : D = {d \in 0..m - 1 : ~ \E g : IsChain(n, found, m - d, g)}
    OBVIOUS
<1>3. D = {}
    <2> SUFFICES ASSUME D # {} PROVE FALSE
        OBVIOUS
    <2>1. PICK d \in D : \A e \in D : d <= e
        <3>1. D \in SUBSET Nat
            BY <1>2
        <3> QED BY <3>1, LeastNumber
    <2>2. d \in 0..m - 1 /\ ~ \E g : IsChain(n, found, m - d, g)
        BY <1>2
    <2>3. CASE d = 0
        <3> DEFINE g == [i \in m..m |-> [a \in Nat |-> Found(<<>>, a)]]
        <3>1. m - d = m /\ \A i \in m..m : i > n
            BY <1>1, <2>3
        <3>2. \A i \in m..m, a \in Nat : Found(<<>>, a) = ChainStep(n, found, g, i, a)
            BY <3>1, Zenon DEF ChainStep
        <3>3. IsChain(n, found, m, g)
            BY <1>1, <3>2, Zenon DEF IsChain
        <3> QED BY <2>2, <3>1, <3>3, Zenon
    <2>4. CASE d # 0
        <3>1. PICK lo \in 1..m - 1 : lo = m - d
            <4>1. m - d \in 1..m - 1
                BY <1>1, <2>2, <2>4
            <4> QED BY <4>1
        <3>2. d - 1 \in 0..m - 1 /\ ~(d <= d - 1) /\ m - (d - 1) = lo + 1
            BY <2>2, <2>4, <3>1
        <3>3. PICK h : IsChain(n, found, lo + 1, h)
            <4>1. d - 1 \notin D
                BY <2>1, <3>2
            <4>2. \E g : IsChain(n, found, m - (d - 1), g)
                BY <1>2, <3>2, <4>1
            <4> QED BY <3>2, <4>2, Zenon
        <3>4. \A i \in lo + 1..m : h[i] = [a \in Nat |-> ChainStep(n, found, h, i, a)]
            BY <1>1, <3>3, Zenon DEF IsChain
        <3>y. PICK y : y = [a \in Nat |-> ChainStep(n, found, h, lo, a)]
            OBVIOUS
        <3> DEFINE g == [i \in lo..m |-> IF i = lo THEN y ELSE h[i]]
        <3>5. g[lo] = y /\ \A i \in lo + 1..m : g[i] = h[i]
            BY <3>1
        <3>6. g = [i \in lo..m |-> g[i]]
            OBVIOUS
        <3> HIDE DEF g
        <3>7. ASSUME NEW i \in lo..m, NEW a \in Nat
              PROVE  ChainStep(n, found, g, i, a) = ChainStep(n, found, h, i, a)
            <4>1. CASE i > n
                BY <4>1, Zenon DEF ChainStep
            <4>2. CASE ~(i > n)
                <5>1. i + 1 \in lo + 1..m
                    BY <1>1, <3>1, <4>2
                <5>2. g[i + 1] = h[i + 1]
                    BY <3>5, <5>1
                <5> QED BY <5>2, Zenon DEF ChainStep
            <4> QED BY <4>1, <4>2
        <3>8. ASSUME NEW i \in lo..m PROVE g[i] = [a \in Nat |-> ChainStep(n, found, g, i, a)]
            <4>1. [a \in Nat |-> ChainStep(n, found, g, i, a)]
                  = [a \in Nat |-> ChainStep(n, found, h, i, a)]
                BY <3>7
            <4>2. i = lo \/ i \in lo + 1..m
                BY <3>1
            <4>3. g[i] = [a \in Nat |-> ChainStep(n, found, h, i, a)]
                BY <3>4, <3>5, <3>y, <4>2, Zenon
            <4> QED BY <4>1, <4>3, Zenon
        <3>9. IsChain(n, found, lo, g)
            <4>1. [i \in lo..m |-> g[i]]
                  = [i \in lo..m |-> [a \in Nat |-> ChainStep(n, found, g, i, a)]]
                BY <3>8, Zenon
            <4> QED BY <1>1, <3>6, <4>1, Zenon DEF IsChain
        <3> QED BY <2>2, <3>1, <3>9, Zenon
    <2> QED BY <2>3, <2>4
<1>4. m - 1 \in 0..m - 1 /\ m - (m - 1) = 1
    BY <1>1
<1>5. \E g : IsChain(n, found, m - (m - 1), g)
    BY <1>2, <1>3, <1>4
<1> QED BY <1>4, <1>5, Zenon

\* The parts one by one.
LEMMA ChainSteps ==
    ASSUME NEW n \in Nat, NEW found
    PROVE  \E g : /\ \A at : Chain(n, found, at) = g[1][at]
                  /\ \A i \in 1..n + 1, a \in Nat : g[i][a] = ChainStep(n, found, g, i, a)
<1> DEFINE g == CHOOSE f : IsChain(n, found, 1, f)
<1>1. \A at : Chain(n, found, at) = g[1][at]
    BY DEF Chain, IsChain, ChainStep
<1>2. IsChain(n, found, 1, g)
    BY ChainExists
<1> HIDE DEF g
<1>3. ASSUME NEW i \in 1..n + 1, NEW a \in Nat
      PROVE  g[i][a] = ChainStep(n, found, g, i, a)
    <2>1. g[i] = [x \in Nat |-> ChainStep(n, found, g, i, x)]
        BY <1>2, Zenon DEF IsChain
    <2> QED BY <2>1
<1> QED BY <1>1, <1>3

\* The fields of a record one by one.
UnpackStep(bytes, format, g, i, a) ==
    IF i > Len(format) THEN Found(<<>>, a)
    ELSE IF ~IsThere(bytes, a, format[i]) THEN Short
    ELSE Before(<<ValueAt(bytes, a, format[i])>>, g[i + 1][a + Extent(bytes, a, format[i])])
IsUnpacked(bytes, format, g) ==
    /\ Unpack(bytes, 0, format) = g[1][0]
    /\ \A i \in 1..Len(format) + 1, a \in Nat : g[i][a] = UnpackStep(bytes, format, g, i, a)

LEMMA UnpackSteps ==
    ASSUME NEW bytes \in Seq(Byte), NEW format \in Seq(FieldNames)
    PROVE  \E g : IsUnpacked(bytes, format, g)
<1>1. PICK n \in Nat : n = Len(format) /\ DOMAIN format = 1..n
    OBVIOUS
<1>2. PICK found : found = [i \in 1..n |-> [a \in Nat |-> FieldAt(bytes, a, format[i])]]
    OBVIOUS
<1>3. PICK g : /\ \A at : Chain(n, found, at) = g[1][at]
               /\ \A i \in 1..n + 1, a \in Nat : g[i][a] = ChainStep(n, found, g, i, a)
    BY ChainSteps
<1>4. Unpack(bytes, 0, format) = g[1][0]
    BY <1>1, <1>2, <1>3, Zenon DEF Unpack
<1>5. ASSUME NEW i \in 1..n + 1, NEW a \in Nat
      PROVE  ChainStep(n, found, g, i, a) = UnpackStep(bytes, format, g, i, a)
    <2>1. CASE i > n
        BY <1>1, <2>1, Zenon DEF ChainStep, UnpackStep
    <2>2. CASE ~(i > n)
        <3>1. i \in 1..n
            BY <2>2
        <3>2. PICK f : f = format[i]
            OBVIOUS
        <3>3. found[i][a] = FieldAt(bytes, a, f)
            BY <1>2, <3>1, <3>2
        <3>4. CASE IsThere(bytes, a, f)
            <4>1. PICK v, e : v = ValueAt(bytes, a, f) /\ e = a + Extent(bytes, a, f)
                OBVIOUS
            <4>2. found[i][a] = [ok |-> TRUE, value |-> <<v>>, next |-> e]
                BY <3>3, <3>4, <4>1, Zenon DEF FieldAt, Found
            <4>3. found[i][a].ok /\ found[i][a].value = <<v>> /\ found[i][a].next = e
                BY <4>2
            <4>4. ChainStep(n, found, g, i, a) = Before(<<v>>, g[i + 1][e])
                BY <2>2, <4>3, Zenon DEF ChainStep
            <4>5. UnpackStep(bytes, format, g, i, a) = Before(<<v>>, g[i + 1][e])
                BY <1>1, <2>2, <3>2, <3>4, <4>1, Zenon DEF UnpackStep
            <4> QED BY <4>4, <4>5, Zenon
        <3>5. CASE ~IsThere(bytes, a, f)
            <4>1. found[i][a] = Short
                BY <3>3, <3>5, Zenon DEF FieldAt
            <4>2. ~found[i][a].ok
                BY <4>1 DEF Short
            <4> QED BY <1>1, <2>2, <3>2, <3>5, <4>2, Zenon DEF ChainStep, UnpackStep
        <3> QED BY <3>4, <3>5
    <2> QED BY <2>1, <2>2
<1>6. \A i \in 1..n + 1, a \in Nat : g[i][a] = UnpackStep(bytes, format, g, i, a)
    BY <1>3, <1>5, Zenon
<1> QED BY <1>1, <1>4, <1>6, Zenon DEF IsUnpacked

\* The bytes s are the first of the bytes t.
IsCut(s, t) == Len(s) <= Len(t) /\ \A p \in 1..Len(s) : s[p] = t[p]

\* A field is there when all of its bytes are, and takes the bytes that it has.
FieldIsThere(cut, a, f, b) ==
    /\ IsThere(cut, a, f) <=> a + Len(b) <= Len(cut)
    /\ IsThere(cut, a, f) => Extent(cut, a, f) = Len(b)

LEMMA CutField ==
    ASSUME NEW f \in FieldNames, NEW v, Holds(f, v),
           NEW body \in Seq(Byte), NEW cut \in Seq(Byte), IsCut(cut, body),
           NEW a \in Nat, a + Len(Field(f, v)) <= Len(body),
           \A j \in 1..Len(Field(f, v)) : body[a + j] = Field(f, v)[j]
    PROVE  FieldIsThere(cut, a, f, Field(f, v))
<1>1. PICK b \in Seq(Byte) : b = Field(f, v)
    BY FieldBytes
<1>2. CASE f # "str"
    <2>1. Extent(cut, a, f) = Len(b)
        BY <1>1, <1>2, FieldBytes DEF Extent
    <2> QED BY <1>1, <2>1 DEF IsThere, FieldIsThere
<1>3. CASE f = "str"
    <2>1. Len(v) \in Nat /\ Len(b) = 1 + Len(v) /\ b[1] = <<Len(v), 1, 1>>
        BY <1>1, <1>3, FieldBytes
    <2>2. Width.u16 = 1 /\ Width["u16"] = 1
        BY DEF Width
    <2>3. CASE a + 1 > Len(cut)
        <3>1. Extent(cut, a, f) = 1
            BY <1>3, <2>2, <2>3 DEF Extent
        <3> QED BY <1>1, <2>1, <2>3, <3>1 DEF IsThere, FieldIsThere
    <2>4. CASE ~(a + 1 > Len(cut))
        <3>1. a + 1 \in 1..Len(cut) /\ 1 \in 1..Len(b)
            BY <2>1, <2>4
        <3>2. cut[a + 1] = b[1]
            BY <1>1, <3>1 DEF IsCut
        <3>3. NumberAt(cut, a, "u16") = Len(v)
            BY <2>1, <2>2, <3>2 DEF NumberAt
        <3>4. Extent(cut, a, f) = Len(b)
            BY <1>3, <2>1, <2>2, <2>4, <3>3 DEF Extent
        <3> QED BY <1>1, <3>4 DEF IsThere, FieldIsThere
    <2> QED BY <2>3, <2>4
<1> QED BY <1>2, <1>3

\* A record that could not be unpacked.
Failed(r) == \E v, x : r = [ok |-> FALSE, value |-> v, next |-> x]

LEMMA FailedSteps ==
    /\ Failed(Short)
    /\ \A r : Failed(r) => ~r.ok
    /\ \A r, w : Failed(r) => Failed(Before(w, r))
<1>1. Failed(Short)
    BY DEF Failed, Short
<1>2. \A r : Failed(r) => ~r.ok
    BY DEF Failed
<1>3. ASSUME NEW r, NEW w, Failed(r) PROVE Failed(Before(w, r))
    <2>1. PICK v, x : r = [ok |-> FALSE, value |-> v, next |-> x]
        BY <1>3 DEF Failed
    <2>2. PICK u : u = w \o v
        OBVIOUS
    <2>3. r.value = v
        BY <2>1
    <2>4. Before(w, r) = [r EXCEPT !.value = u]
        BY <2>2, <2>3, Zenon DEF Before
    <2>5. Before(w, r) = [ok |-> FALSE, value |-> u, next |-> x]
        BY <2>1, <2>4
    <2> QED BY <2>5 DEF Failed
<1> QED BY <1>1, <1>2, <1>3

\* One step of unpacking what was cut off.
LEMMA CutStep ==
    ASSUME NEW format, NEW values, Suits(format, values),
           NEW body \in Seq(Byte), body = Pack(format, values),
           NEW n \in Nat, n = Len(format),
           NEW off \in [0..n -> Nat], IsLayout(format, values, body, off),
           NEW cut \in Seq(Byte), IsCut(cut, body), Len(cut) < Len(body),
           NEW g, IsUnpacked(cut, format, g),
           NEW i \in 1..n,
           i < n /\ off[i] <= Len(cut) => Failed(g[i + 1][off[i]])
    PROVE  Failed(g[i][off[i - 1]])
<1>1. format[i] \in FieldNames /\ Holds(format[i], values[i])
    BY DEF Suits
<1>2. i - 1 \in 0..n /\ i \in 0..n /\ i \in 1..n + 1
    OBVIOUS
<1>3. PICK a \in Nat : a = off[i - 1]
    BY <1>2
<1>4. PICK b \in Seq(Byte) : b = Field(format[i], values[i])
    BY <1>1, FieldBytes
<1>5. /\ off[i] = a + Len(b) /\ a + Len(b) <= Len(body)
      /\ \A j \in 1..Len(b) : body[a + j] = b[j]
    BY <1>3, <1>4 DEF IsLayout
<1>6. FieldIsThere(cut, a, format[i], b)
    BY <1>1, <1>4, <1>5, CutField
<1>7. g[i][a] = UnpackStep(cut, format, g, i, a)
    BY <1>2 DEF IsUnpacked
<1>8. ~(i > Len(format))
    OBVIOUS
<1>9. CASE ~IsThere(cut, a, format[i])
    <2>1. g[i][a] = Short
        BY <1>7, <1>8, <1>9, Zenon DEF UnpackStep
    <2> QED BY <1>3, <2>1, FailedSteps, Zenon
<1>10. CASE IsThere(cut, a, format[i])
    <2>1. PICK t, w : /\ t = a + Extent(cut, a, format[i])
                      /\ w = <<ValueAt(cut, a, format[i])>>
        OBVIOUS
    <2>2. g[i][a] = Before(w, g[i + 1][t])
        BY <1>7, <1>8, <1>10, <2>1, Zenon DEF UnpackStep
    <2>3. t = off[i] /\ off[i] <= Len(cut)
        BY <1>5, <1>6, <1>10, <2>1 DEF FieldIsThere
    <2>4. i # n
        BY <2>3 DEF IsLayout
    <2>5. Failed(g[i + 1][t])
        BY <2>3, <2>4
    <2> QED BY <1>3, <2>2, <2>5, FailedSteps, Zenon
<1> QED BY <1>9, <1>10

\* A record without its end cannot be unpacked.
LEMMA CutIsShort ==
    ASSUME NEW format, NEW values, Suits(format, values),
           NEW cut \in Seq(Byte), IsCut(cut, Pack(format, values)),
           Len(cut) < Len(Pack(format, values))
    PROVE  ~Unpack(cut, 0, format).ok
<1>1. format \in Seq(FieldNames) /\ Len(format) \in Nat \ {0}
    BY DEF Suits
<1>2. PICK n \in Nat \ {0} : n = Len(format)
    BY <1>1
<1>3. PICK body \in Seq(Byte) : body = Pack(format, values)
    BY PackLayout
<1>4. PICK off \in [0..n -> Nat] : IsLayout(format, values, body, off)
    BY <1>2, <1>3, PackLayout
<1>5. PICK g : IsUnpacked(cut, format, g)
    BY <1>1, UnpackSteps
<1>6. ASSUME NEW i \in 1..n, i < n /\ off[i] <= Len(cut) => Failed(g[i + 1][off[i]])
      PROVE  Failed(g[i][off[i - 1]])
    BY <1>2, <1>3, <1>4, <1>5, <1>6, CutStep
<1>7. PICK D : D = {d \in Nat : d < n /\ ~Failed(g[n - d][off[n - d - 1]])}
    OBVIOUS
<1>8. D = {}
    <2> SUFFICES ASSUME D # {} PROVE FALSE
        OBVIOUS
    <2>1. D \in SUBSET Nat
        BY <1>7
    <2>2. PICK d \in D : \A e \in D : d <= e
        BY <2>1, LeastNumber
    <2>3. d \in Nat /\ d < n /\ ~Failed(g[n - d][off[n - d - 1]])
        BY <1>7, <2>2
    <2>4. PICK i \in 1..n : i = n - d
        BY <2>3
    <2>5. i < n /\ ~Failed(g[i + 1][off[i]])
        BY <1>6, <2>3, <2>4
    <2>6. d - 1 \in Nat /\ d - 1 < n /\ n - (d - 1) = i + 1 /\ n - (d - 1) - 1 = i
        <3>1. n \in Nat /\ d \in Nat /\ i \in Int /\ d < n /\ i = n - d /\ i < n
            BY <2>3, <2>4, <2>5
        <3> QED BY ONLY <3>1
    <2>7. d - 1 \in D
        BY <1>7, <2>5, <2>6
    <2> QED BY <2>2, <2>3, <2>7
<1>9. n - 1 \in Nat /\ n - 1 < n /\ n - (n - 1) = 1 /\ n - (n - 1) - 1 = 0
    OBVIOUS
<1>10. Failed(g[1][off[0]])
    BY <1>7, <1>8, <1>9
<1>11. off[0] = 0
    BY <1>4 DEF IsLayout
<1>12. Failed(Unpack(cut, 0, format))
    BY <1>5, <1>10, <1>11, Zenon DEF IsUnpacked
<1> QED BY <1>12, FailedSteps, Zenon

-----------------------------------------------------------------------------
(* Requests and their messages.                                            *)

\* No two kinds of requests have the same type.
LEMMA TypesDiffer ==
    /\ \A k \in DOMAIN Types : Types[k] \in Nat
    /\ \A j, k \in DOMAIN Types : Types[j] = Types[k] => j = k
BY DEF Types

\* The layouts of the client library and of the server are the same.
LEMMA LayoutsAgree ==
    ASSUME NEW kind \in DOMAIN ClientRequest
    PROVE  /\ kind \in DOMAIN ServerRequest /\ ServerRequest[kind] = ClientRequest[kind]
           /\ ClientRequest[kind] \in Seq(FieldNames) /\ Len(ClientRequest[kind]) # 0
<1>1. <<"str">> \in Seq(FieldNames) /\ Len(<<"str">>) # 0
    BY DEF FieldNames
<1>2. <<"str", "str">> \in Seq(FieldNames) /\ Len(<<"str", "str">>) # 0
    BY DEF FieldNames
<1>3. /\ <<"u32", "u32", "str", "str">> \in Seq(FieldNames)
      /\ Len(<<"u32", "u32", "str", "str">>) # 0
    BY DEF FieldNames
<1>4. <<"u64">> \in Seq(FieldNames) /\ Len(<<"u64">>) # 0
    BY DEF FieldNames
<1>5. kind \in DOMAIN ServerRequest /\ ServerRequest[kind] = ClientRequest[kind]
    BY DEF ClientRequest, ServerRequest
<1>6. \/ ClientRequest[kind] = <<"str">>
      \/ ClientRequest[kind] = <<"str", "str">>
      \/ ClientRequest[kind] = <<"u32", "u32", "str", "str">>
      \/ ClientRequest[kind] = <<"u64">>
    BY DEF ClientRequest
<1> QED BY <1>1, <1>2, <1>3, <1>4, <1>5, <1>6

\* The body of a request.
BodyOfRequest(r) ==
    IF r.kind \in DOMAIN ClientRequest THEN Pack(ClientRequest[r.kind], r.args) ELSE <<>>

LEMMA RequestBody ==
    ASSUME NEW r, IsRequest(r)
    PROVE  /\ BodyOfRequest(r) \in Seq(Byte)
           /\ r.kind \in DOMAIN ClientRequest => Suits(ClientRequest[r.kind], r.args)
           /\ r.kind \notin DOMAIN ClientRequest => Len(BodyOfRequest(r)) = 0
<1>1. CASE r.kind \in DOMAIN ClientRequest
    <2>1. PICK format : format = ClientRequest[r.kind]
        OBVIOUS
    <2>2. Fills(format, r.args)
        BY <1>1, <2>1 DEF IsRequest
    <2>3. DOMAIN r.args = DOMAIN format
        BY <2>2 DEF Fills
    <2>4. Suits(format, r.args)
        BY <1>1, <2>1, <2>2, <2>3, LayoutsAgree DEF Fills, Suits
    <2> QED BY <1>1, <2>1, <2>4, PackLayout DEF BodyOfRequest
<1>2. CASE r.kind \notin DOMAIN ClientRequest
    BY <1>2 DEF BodyOfRequest
<1> QED BY <1>1, <1>2

\* The header of a message: its type, and the size of its body.
IsHeader(h, type, size) ==
    /\ h \in Seq(Byte) /\ Len(h) = 4
    /\ h[1] = <<type, 1, 2>> /\ h[3] = <<size, 1, 2>>

LEMMA HeaderBytes ==
    ASSUME NEW type \in Nat, NEW size \in Nat
    PROVE  IsHeader(Pack(Header, <<type, size>>), type, size)
<1>1. PICK values : values = <<type, size>>
    OBVIOUS
<1>2. DOMAIN values = 1..2 /\ values[1] = type /\ values[2] = size
    BY <1>1
<1>3. Header \in Seq(FieldNames) /\ Len(Header) = 2 /\ Header[1] = "u32" /\ Header[2] = "u32"
      /\ DOMAIN Header = 1..2
    BY DEF Header, FieldNames
<1>4. \A i \in 1..2 : Holds(Header[i], values[i]) /\ Header[i] = "u32" /\ values[i] \in Nat
    BY <1>2, <1>3 DEF Holds
<1>5. Suits(Header, values)
    BY <1>2, <1>3, <1>4 DEF Suits
<1>6. PICK h \in Seq(Byte) : h = Pack(Header, values)
    BY <1>5, PackLayout
<1>7. PICK off \in [0..2 -> Nat] : IsLayout(Header, values, h, off)
    BY <1>3, <1>5, <1>6, PackLayout
<1>8. ASSUME NEW v \in Nat
      PROVE  Field("u32", v) \in Seq(Byte) /\ Len(Field("u32", v)) = 2
             /\ Field("u32", v)[1] = <<v, 1, 2>>
    <2>1. "u32" \in FieldNames /\ "u32" # "str" /\ Width["u32"] = 2
        BY DEF FieldNames, Width
    <2> QED BY <2>1, NumberBytes DEF Field
<1>9. ASSUME NEW i \in 1..2
      PROVE  off[i] = off[i - 1] + 2 /\ h[off[i - 1] + 1] = <<values[i], 1, 2>>
    <2>1. PICK b \in Seq(Byte) : b = Field(Header[i], values[i])
        BY <1>4, <1>8
    <2>2. Len(b) = 2 /\ b[1] = <<values[i], 1, 2>>
        BY <1>4, <1>8, <2>1
    <2>3. off[i] = off[i - 1] + Len(b) /\ \A j \in 1..Len(b) : h[off[i - 1] + j] = b[j]
        BY <1>3, <1>7, <2>1 DEF IsLayout
    <2>4. 1 \in 1..Len(b)
        BY <2>2
    <2> QED BY <2>2, <2>3, <2>4
<1>10. off[0] = 0 /\ off[2] = Len(h)
    BY <1>3, <1>7 DEF IsLayout
<1>11. off[1] = 2 /\ h[1] = <<type, 1, 2>>
    <2>1. 1 \in 1..2 /\ 1 - 1 = 0 /\ 0 + 2 = 2 /\ 0 + 1 = 1
        OBVIOUS
    <2> QED BY <1>2, <1>9, <1>10, <2>1, ZenonT(30)
<1>12. off[2] = 4 /\ h[3] = <<size, 1, 2>>
    <2>1. 2 \in 1..2 /\ 2 - 1 = 1 /\ 2 + 2 = 4 /\ 2 + 1 = 3
        OBVIOUS
    <2> QED BY <1>2, <1>9, <1>11, <2>1, ZenonT(30)
<1> QED BY <1>1, <1>6, <1>10, <1>11, <1>12 DEF IsHeader

\* The bytes of a message.
LEMMA MessageBytes ==
    ASSUME NEW type \in Nat, NEW body \in Seq(Byte)
    PROVE  /\ HeaderSize = 4
           /\ Message(type, body) \in Seq(Byte)
           /\ Len(Message(type, body)) = 4 + Len(body)
           /\ \A p \in 1..Len(body) : Message(type, body)[4 + p] = body[p]
           /\ TypeOf(Message(type, body)) = type
           /\ SizeOf(Message(type, body)) = Len(body)
           /\ BodyOf(Message(type, body)) = body
<1>3. PICK h : h = Pack(Header, <<type, Len(body)>>)
    OBVIOUS
<1>4. IsHeader(h, type, Len(body))
    <2>1. Len(body) \in Nat
        OBVIOUS
    <2> QED BY <1>3, <2>1, HeaderBytes
<1>5. PICK whole : whole = h \o body
    OBVIOUS
<1>6. Message(type, body) = whole
    BY <1>3, <1>5, Zenon DEF Message
<1>7. /\ whole \in Seq(Byte) /\ Len(whole) = 4 + Len(body)
      /\ \A i \in 1..4 : whole[i] = h[i]
      /\ \A j \in 1..Len(body) : whole[4 + j] = body[j]
    <2>1. h \in Seq(Byte) /\ Len(h) = 4
        BY <1>4 DEF IsHeader
    <2>2. /\ whole \in Seq(Byte) /\ Len(whole) = Len(h) + Len(body)
          /\ \A i \in 1..Len(h) : whole[i] = h[i]
          /\ \A j \in 1..Len(body) : whole[Len(h) + j] = body[j]
        <3> HIDE DEF Byte
        <3>1. PICK a \in Seq(Byte) : a = h
            BY <2>1
        <3>2. whole = a \o body
            BY <1>5, <3>1, Zenon
        <3>3. whole \in Seq(Byte) /\ Len(whole) = Len(a) + Len(body)
            BY <3>2, Joined
        <3>4. \A i \in 1..Len(a) : whole[i] = a[i]
            BY <3>2, Joined
        <3>5. \A j \in 1..Len(body) : whole[Len(a) + j] = body[j]
            BY <3>2, Joined
        <3> QED BY <3>1, <3>3, <3>4, <3>5, Zenon
    <2> QED BY <2>1, <2>2
<1>8. whole[1] = <<type, 1, 2>> /\ whole[3] = <<Len(body), 1, 2>>
    BY <1>4, <1>7 DEF IsHeader
<1>9. Width.u32 = 2 /\ Width["u32"] = 2
    BY DEF Width
<1>10. HeaderSize = 4
    BY <1>9 DEF HeaderSize
<1>11. TypeOf(whole) = type
    BY <1>8, <1>9 DEF TypeOf, NumberAt
<1>12. SizeOf(whole) = Len(body)
    BY <1>8, <1>9 DEF SizeOf, NumberAt
<1>13. BodyOf(whole) = body
    <2>1. PICK s : s = SubSeq(whole, 5, Len(whole))
        OBVIOUS
    <2>2. BodyOf(whole) = s
        <3>1. HeaderSize + 1 = 5
            BY <1>10
        <3> QED BY <2>1, <3>1 DEF BodyOf
    <2>3. /\ s \in Seq(Byte) /\ Len(s) = Len(body)
          /\ \A p \in 1..Len(body) : s[p] = whole[4 + p]
        BY <1>7, <2>1
    <2> QED BY <1>7, <2>2, <2>3
<1> QED BY <1>6, <1>7, <1>10, <1>11, <1>12, <1>13

\* The message of a request.
LEMMA RequestMessage ==
    ASSUME NEW r, IsRequest(r)
    PROVE  /\ HeaderSize = 4
           /\ PackRequest(r) \in Seq(Byte)
           /\ Len(PackRequest(r)) = 4 + Len(BodyOfRequest(r))
           /\ \A p \in 1..Len(BodyOfRequest(r)) : PackRequest(r)[4 + p] = BodyOfRequest(r)[p]
           /\ TypeOf(PackRequest(r)) = Types[r.kind]
           /\ SizeOf(PackRequest(r)) = Len(BodyOfRequest(r))
           /\ BodyOf(PackRequest(r)) = BodyOfRequest(r)
<1>1. PICK body \in Seq(Byte) : body = BodyOfRequest(r)
    BY RequestBody
<1>2. PICK type \in Nat : type = Types[r.kind]
    BY TypesDiffer DEF IsRequest
<1>3. PackRequest(r) = Message(type, body)
    BY <1>1, <1>2, Zenon DEF PackRequest, BodyOfRequest
<1>4. /\ HeaderSize = 4
      /\ Message(type, body) \in Seq(Byte)
      /\ Len(Message(type, body)) = 4 + Len(body)
      /\ \A p \in 1..Len(body) : Message(type, body)[4 + p] = body[p]
      /\ TypeOf(Message(type, body)) = type
      /\ SizeOf(Message(type, body)) = Len(body)
      /\ BodyOf(Message(type, body)) = body
    BY ONLY MessageBytes
<1> QED BY <1>1, <1>2, <1>3, <1>4, Zenon

\* A type has its kind.
LEMMA KindOfType ==
    ASSUME NEW kind \in DOMAIN Types
    PROVE  /\ ~(\A k \in DOMAIN Types : Types[k] # Types[kind])
           /\ (CHOOSE k \in DOMAIN Types : Types[k] = Types[kind]) = kind
BY TypesDiffer

\* The body of a message that was cut off.
LEMMA BodyCut ==
    ASSUME NEW r, IsRequest(r), NEW n \in 4..Len(PackRequest(r)) - 1
    PROVE  /\ BodyOf(SubSeq(PackRequest(r), 1, n)) \in Seq(Byte)
           /\ IsCut(BodyOf(SubSeq(PackRequest(r), 1, n)), BodyOfRequest(r))
           /\ Len(BodyOf(SubSeq(PackRequest(r), 1, n))) < Len(BodyOfRequest(r))
<1>1. PICK body \in Seq(Byte) : body = BodyOfRequest(r)
    BY RequestBody
<1>2. PICK whole \in Seq(Byte) : whole = PackRequest(r)
    BY RequestMessage
<1>3. /\ HeaderSize = 4 /\ Len(whole) = 4 + Len(body)
      /\ \A p \in 1..Len(body) : whole[4 + p] = body[p]
    BY <1>1, <1>2, RequestMessage
<1>4. n \in Nat /\ 4 <= n /\ n < Len(whole)
    BY <1>2
<1>5. PICK s : s = SubSeq(whole, 1, n)
    OBVIOUS
<1>6. s \in Seq(Byte) /\ Len(s) = n /\ \A p \in 1..n : s[p] = whole[p]
    BY <1>4, <1>5
<1>7. PICK cut : cut = SubSeq(s, 5, n)
    OBVIOUS
<1>8. cut \in Seq(Byte) /\ Len(cut) = n - 4 /\ \A p \in 1..n - 4 : cut[p] = s[4 + p]
    BY <1>4, <1>6, <1>7
<1>9. BodyOf(s) = cut
    <2>1. HeaderSize + 1 = 5
        BY <1>3
    <2> QED BY <1>6, <1>7, <2>1 DEF BodyOf
<1>10. IsCut(cut, body)
    <2>1. Len(cut) <= Len(body)
        BY <1>3, <1>4, <1>8
    <2>2. ASSUME NEW p \in 1..Len(cut) PROVE cut[p] = body[p]
        <3>1. p \in 1..n - 4 /\ 4 + p \in 1..n /\ p \in 1..Len(body)
            BY <1>4, <1>8, <2>1
        <3> QED BY <1>3, <1>6, <1>8, <3>1
    <2> QED BY <2>1, <2>2 DEF IsCut
<1>11. Len(cut) < Len(body)
    BY <1>3, <1>4, <1>8
<1> QED BY <1>1, <1>2, <1>5, <1>8, <1>9, <1>10, <1>11

\* A request that lacks its end is refused.
LEMMA RequestCut ==
    ASSUME NEW r, IsRequest(r), NEW n \in 4..Len(PackRequest(r)) - 1
    PROVE  ParseRequest(TypeOf(PackRequest(r)), BodyOf(SubSeq(PackRequest(r), 1, n))) = Refused
<1>1. PICK cut \in Seq(Byte) : cut = BodyOf(SubSeq(PackRequest(r), 1, n))
    BY BodyCut
<1>2. IsCut(cut, BodyOfRequest(r)) /\ Len(cut) < Len(BodyOfRequest(r))
    BY <1>1, BodyCut
<1>3. r.kind \in DOMAIN ClientRequest
    BY <1>1, <1>2, RequestBody
<1>4. PICK kind \in DOMAIN Types : kind = r.kind
    BY DEF IsRequest
<1>5. kind \in DOMAIN ServerRequest /\ ServerRequest[kind] = ClientRequest[kind]
    BY <1>3, <1>4, LayoutsAgree
<1>6. PICK u : u = Unpack(cut, 0, ServerRequest[kind])
    OBVIOUS
<1>7. ~u.ok
    BY <1>1, <1>2, <1>3, <1>4, <1>5, <1>6, RequestBody, CutIsShort DEF BodyOfRequest
<1>8. TypeOf(PackRequest(r)) = Types[kind]
    BY <1>4, RequestMessage
<1>9. ParseRequest(Types[kind], cut) = Refused
    BY <1>5, <1>6, <1>7, KindOfType, ZenonT(40) DEF ParseRequest
<1> QED BY <1>1, <1>8, <1>9

\* The characters of a string stand behind its length.
LEMMA StringBytes ==
    ASSUME NEW v, Holds("str", v), NEW j \in 1..Len(v)
    PROVE  Field("str", v)[1 + j] = v[j]
<1>1. v \in Seq(Byte) /\ Len(v) \in Nat /\ Len(v) <= MaxShort
    BY DEF Holds
<1>2. Len(v) % (MaxShort + 1) = Len(v)
    BY <1>1, ShortAssumption
<1>3. PICK h \in Seq(Byte) : h = Number("u16", Len(v)) /\ Len(h) = 1
    BY <1>1, NumberBytes, Widths DEF FieldNames, Width
<1>4. PICK b : b = h \o v
    OBVIOUS
<1>5. Field("str", v) = b
    BY <1>2, <1>3, <1>4 DEF Field
<1>6. b[1 + j] = v[j]
    <2> HIDE DEF Byte
    <2>1. PICK a \in Seq(Byte) : a = v
        BY <1>1
    <2>2. b = h \o a
        BY <1>4, <2>1, Zenon
    <2>3. \A i \in 1..Len(a) : b[Len(h) + i] = a[i]
        BY <2>2, Joined
    <2> QED BY <1>3, <2>1, <2>3, Zenon
<1> QED BY <1>5, <1>6

\* A field that is there is found as it was packed.
LEMMA FieldValue ==
    ASSUME NEW f \in FieldNames, NEW v, Holds(f, v),
           NEW body \in Seq(Byte),
           NEW a \in Nat, a + Len(Field(f, v)) <= Len(body),
           \A j \in 1..Len(Field(f, v)) : body[a + j] = Field(f, v)[j]
    PROVE  /\ IsThere(body, a, f) /\ Extent(body, a, f) = Len(Field(f, v))
           /\ ValueAt(body, a, f) = v
<1>1. PICK b \in Seq(Byte) : b = Field(f, v)
    BY FieldBytes
<1>2. IsCut(body, body)
    BY DEF IsCut
<1>3. FieldIsThere(body, a, f, b)
    BY <1>1, <1>2, CutField
<1>4. IsThere(body, a, f) /\ Extent(body, a, f) = Len(b)
    BY <1>1, <1>3 DEF FieldIsThere
<1>5. CASE f # "str"
    <2>1. v \in Nat /\ Len(b) = Width[f] /\ Width[f] \in 1..3 /\ b[1] = <<v, 1, Width[f]>>
        BY <1>1, <1>5, NumberBytes, FieldBytes, Widths DEF Holds, Field
    <2>2. body[a + 1] = b[1]
        BY <1>1, <2>1
    <2>3. NumberAt(body, a, f) = v
        BY <2>1, <2>2 DEF NumberAt
    <2> QED BY <1>1, <1>4, <1>5, <2>3 DEF ValueAt
<1>6. CASE f = "str"
    <2>1. v \in Seq(Byte) /\ Len(v) \in Nat /\ Len(b) = 1 + Len(v)
        BY <1>1, <1>6, FieldBytes DEF Holds
    <2>2. PICK z \in Nat : z = Len(body)
        OBVIOUS
    <2>3. a + 1 + Len(v) <= z
        BY <1>1, <2>1, <2>2
    <2>4. Min({z, a + 1 + Len(v)}) = a + 1 + Len(v)
        BY <2>1, <2>3 DEF Min
    <2>5. a + Extent(body, a, f) = a + 1 + Len(v) /\ a + Width.u16 + 1 = a + 2
        BY <1>4, <2>1, Widths
    <2>6. ValueAt(body, a, f) = SubSeq(body, (a + 1) + 1, (a + 1) + Len(v))
        <3>1. a + 2 = (a + 1) + 1 /\ a + 1 + Len(v) = (a + 1) + Len(v)
            BY <2>1
        <3> QED BY <1>6, <2>2, <2>4, <2>5, <3>1, Zenon DEF ValueAt
    <2>7. \A j \in 1..Len(v) : body[a + 1 + j] = v[j]
        <3> SUFFICES ASSUME NEW j \in 1..Len(v) PROVE body[a + 1 + j] = v[j]
            OBVIOUS
        <3>1. 1 + j \in 1..Len(b) /\ a + (1 + j) = a + 1 + j
            BY <2>1
        <3>2. body[a + (1 + j)] = b[1 + j]
            BY <1>1, <3>1
        <3>3. b[1 + j] = v[j]
            BY <1>1, <1>6, StringBytes
        <3> QED BY <3>1, <3>2, <3>3
    <2>8. PICK s : s = SubSeq(body, (a + 1) + 1, (a + 1) + Len(v))
        OBVIOUS
    <2>9. s \in Seq(Byte) /\ Len(s) = Len(v) /\ \A j \in 1..Len(v) : s[j] = body[(a + 1) + j]
        <3>1. (a + 1) \in Nat /\ (a + 1) + Len(v) <= Len(body)
            BY <2>1, <2>2, <2>3
        <3>2. PICK c \in Nat, m \in Nat : c = a + 1 /\ m = Len(v)
            BY <2>1, <3>1
        <3>3. c + m <= Len(body) /\ s = SubSeq(body, c + 1, c + m)
            BY <2>8, <3>1, <3>2, Zenon
        <3>4. s \in Seq(Byte) /\ Len(s) = m /\ \A j \in 1..m : s[j] = body[c + j]
            <4>1. SubSeq(body, c + 1, c + m) \in Seq(Byte) /\ Len(SubSeq(body, c + 1, c + m)) = m
                BY <3>3, Piece
            <4>2. \A j \in 1..m : SubSeq(body, c + 1, c + m)[j] = body[c + j]
                BY <3>3, Piece
            <4> QED BY <3>3, <4>1, <4>2, Zenon
        <3> QED BY <3>2, <3>4, Zenon
    <2>10. s = v
        BY <2>1, <2>7, <2>9
    <2> QED BY <1>1, <1>4, <2>6, <2>8, <2>10
<1> QED BY <1>5, <1>6

\* The values from the i-th on have been found, up to a place.
FoundFrom(r, values, n, i, end) ==
    \E t : /\ r = [ok |-> TRUE, value |-> t, next |-> end]
           /\ t \in Seq({values[j] : j \in 1..n})
           /\ Len(t) = n + 1 - i
           /\ \A k \in 1..Len(t) : t[k] = values[i + k - 1]

LEMMA FoundOneMore ==
    ASSUME NEW values, NEW n \in Nat, NEW i \in 1..n, NEW r, NEW x,
           FoundFrom(r, values, n, i + 1, x)
    PROVE  FoundFrom(Before(<<values[i]>>, r), values, n, i, x)
<1>1. PICK V : V = {values[j] : j \in 1..n}
    OBVIOUS
<1>2. PICK t : /\ r = [ok |-> TRUE, value |-> t, next |-> x]
               /\ t \in Seq(V) /\ Len(t) = n + 1 - (i + 1)
               /\ \A k \in 1..Len(t) : t[k] = values[(i + 1) + k - 1]
    BY <1>1, Zenon DEF FoundFrom
<1>3. PICK v \in V : v = values[i]
    BY <1>1
<1>4. PICK w \in Seq(V) : w = <<v>> /\ Len(w) = 1 /\ w[1] = v
    <2>1. <<v>> \in Seq(V) /\ Len(<<v>>) = 1 /\ <<v>>[1] = v
        OBVIOUS
    <2> QED BY <2>1
<1>5. PICK u : u = w \o t
    OBVIOUS
<1>6. PICK q \in Seq(V) : q = t
    BY <1>2
<1>7. u = w \o q
    BY <1>5, <1>6, Zenon
<1>8. /\ u \in Seq(V) /\ Len(u) = 1 + Len(q) /\ u[1] = v
      /\ \A j \in 1..Len(q) : u[1 + j] = q[j]
    <2>1. u \in Seq(V) /\ Len(u) = Len(w) + Len(q)
        BY <1>7, Joined
    <2>2. \A j \in 1..Len(w) : u[j] = w[j]
        BY <1>7, Joined
    <2>3. \A j \in 1..Len(q) : u[Len(w) + j] = q[j]
        BY <1>7, Joined
    <2> QED BY <1>4, <2>1, <2>2, <2>3
<1>9. Len(u) = n + 1 - i
    BY <1>2, <1>6, <1>8
<1>10. ASSUME NEW k \in 1..Len(u) PROVE u[k] = values[i + k - 1]
    <2>1. CASE k = 1
        <3>1. i + 1 - 1 = i
            OBVIOUS
        <3> QED BY <1>3, <1>8, <2>1, <3>1
    <2>2. CASE k # 1
        <3>1. PICK j \in 1..Len(q) : k = 1 + j /\ (i + 1) + j - 1 = i + k - 1
            <4>1. k - 1 \in 1..Len(q) /\ k = 1 + (k - 1) /\ (i + 1) + (k - 1) - 1 = i + k - 1
                BY <1>2, <1>6, <1>9, <2>2
            <4> QED BY <4>1
        <3>2. u[1 + j] = q[j] /\ q[j] = values[(i + 1) + j - 1]
            BY <1>2, <1>6, <1>8
        <3> QED BY <3>1, <3>2
    <2> QED BY <2>1, <2>2
<1>11. Before(<<values[i]>>, r) = [ok |-> TRUE, value |-> u, next |-> x]
    <2>1. r.value = t
        BY <1>2
    <2>2. <<values[i]>> \o t = u
        BY <1>3, <1>4, <1>5, Zenon
    <2>3. Before(<<values[i]>>, r) = [r EXCEPT !.value = u]
        BY <2>1, <2>2, Zenon DEF Before
    <2> QED BY <1>2, <2>3
<1> QED BY <1>1, <1>8, <1>9, <1>10, <1>11, Zenon DEF FoundFrom

\* Each part is found where the one before it ends.
AreFound(n, found, values, off) ==
    \A i \in 1..n : found[i][off[i - 1]] = Found(<<values[i]>>, off[i])

\* Parts that are found one behind the other are found together.
LEMMA ChainWhole ==
    ASSUME NEW n \in Nat, NEW found, NEW values, NEW off \in [0..n -> Nat],
           AreFound(n, found, values, off)
    PROVE  Chain(n, found, off[0]) = Found([i \in 1..n |-> values[i]], off[n])
<1>1. PICK g : /\ \A at : Chain(n, found, at) = g[1][at]
               /\ \A i \in 1..n + 1, a \in Nat : g[i][a] = ChainStep(n, found, g, i, a)
    BY ChainSteps
<1>2. PICK z \in Nat : z = off[n]
    <2>1. n \in 0..n
        OBVIOUS
    <2> QED BY <2>1
<1>3. ASSUME NEW i \in 1..n, FoundFrom(g[i + 1][off[i]], values, n, i + 1, z)
      PROVE  FoundFrom(g[i][off[i - 1]], values, n, i, z)
    <2>1. i \in 1..n + 1 /\ i - 1 \in 0..n /\ ~(i > n)
        OBVIOUS
    <2>2. PICK a \in Nat : a = off[i - 1]
        BY <2>1
    <2>3. PICK v : v = <<values[i]>>
        OBVIOUS
    <2>4. PICK r : r = found[i][a]
        OBVIOUS
    <2>5. r = [ok |-> TRUE, value |-> v, next |-> off[i]]
        BY <2>2, <2>3, <2>4, Zenon DEF AreFound, Found
    <2>6. r.ok /\ r.value = v /\ r.next = off[i]
        BY <2>5
    <2>7. g[i][a] = ChainStep(n, found, g, i, a)
        BY <1>1, <2>1
    <2>8. g[i][a] = Before(v, g[i + 1][off[i]])
        BY <2>1, <2>4, <2>6, <2>7, Zenon DEF ChainStep
    <2>9. FoundFrom(Before(<<values[i]>>, g[i + 1][off[i]]), values, n, i, z)
        BY <1>3, FoundOneMore
    <2> QED BY <2>2, <2>3, <2>8, <2>9, Zenon
<1>7. FoundFrom(g[n + 1][off[n]], values, n, n + 1, z)
    <2>1. n + 1 \in 1..n + 1 /\ n + 1 > n
        OBVIOUS
    <2>2. g[n + 1][z] = ChainStep(n, found, g, n + 1, z)
        BY <1>1, <2>1
    <2>3. g[n + 1][z] = [ok |-> TRUE, value |-> <<>>, next |-> z]
        BY <2>1, <2>2, Zenon DEF ChainStep, Found
    <2>4. /\ <<>> \in Seq({values[j] : j \in 1..n})
          /\ Len(<<>>) = n + 1 - (n + 1) /\ 1..Len(<<>>) = {}
        OBVIOUS
    <2> QED BY <1>2, <2>3, <2>4 DEF FoundFrom
<1>8. PICK D : D = {d \in Nat :
                      /\ d <= n
                      /\ ~FoundFrom(g[(n + 1) - d][off[n - d]], values, n, (n + 1) - d, z)}
    OBVIOUS
<1>9. D = {}
    <2> SUFFICES ASSUME D # {} PROVE FALSE
        OBVIOUS
    <2>1. D \in SUBSET Nat
        BY <1>8
    <2>2. PICK d \in D : \A e \in D : d <= e
        BY <2>1, LeastNumber
    <2>3. /\ d \in Nat /\ d <= n
          /\ ~FoundFrom(g[(n + 1) - d][off[n - d]], values, n, (n + 1) - d, z)
        BY <1>8, <2>2
    <2>4. d # 0
        <3>1. (n + 1) - 0 = n + 1 /\ n - 0 = n
            OBVIOUS
        <3> QED BY <1>7, <2>3, <3>1
    <2>5. PICK i \in 1..n : i = (n + 1) - d /\ i - 1 = n - d
        <3>1. (n + 1) - d \in 1..n /\ ((n + 1) - d) - 1 = n - d
            BY <2>3, <2>4
        <3> QED BY <3>1
    <2>6. ~FoundFrom(g[i][off[i - 1]], values, n, i, z)
        BY <2>3, <2>5
    <2>7. ~FoundFrom(g[i + 1][off[i]], values, n, i + 1, z)
        BY <1>3, <2>6
    <2>8. d - 1 \in Nat /\ d - 1 <= n /\ (n + 1) - (d - 1) = i + 1 /\ n - (d - 1) = i
        <3>1. PICK e \in Nat : e = d
            BY <2>3
        <3>2. e # 0 /\ e <= n /\ i = (n + 1) - e
            BY <2>3, <2>4, <2>5, <3>1, Zenon
        <3>3. e - 1 \in Nat /\ e - 1 <= n /\ (n + 1) - (e - 1) = i + 1 /\ n - (e - 1) = i
            BY <3>2
        <3> QED BY <3>1, <3>3, Zenon
    <2>9. d - 1 \in D
        BY <1>8, <2>7, <2>8
    <2> QED BY <2>2, <2>3, <2>9
<1>10. n \in Nat /\ n <= n /\ (n + 1) - n = 1 /\ n - n = 0
    OBVIOUS
<1>11. FoundFrom(g[1][off[0]], values, n, 1, z)
    BY <1>8, <1>9, <1>10
<1>15. PICK V : V = {values[j] : j \in 1..n}
    OBVIOUS
<1>16. PICK t : /\ Chain(n, found, off[0]) = [ok |-> TRUE, value |-> t, next |-> z]
                /\ t \in Seq(V) /\ Len(t) = n + 1 - 1
                /\ \A k \in 1..Len(t) : t[k] = values[1 + k - 1]
    BY <1>1, <1>11, <1>15, Zenon DEF FoundFrom
<1>17. t = [k \in 1..n |-> values[k]]
    <2>1. Len(t) = n
        BY <1>16
    <2>2. \A k \in 1..n : t[k] = values[k]
        <3> SUFFICES ASSUME NEW k \in 1..n PROVE t[k] = values[k]
            OBVIOUS
        <3>1. 1 + k - 1 = k
            OBVIOUS
        <3> QED BY <1>16, <2>1, <3>1
    <2>3. PICK s \in Seq(V) : s = t /\ Len(s) = n
        BY <1>16, <2>1
    <2>4. s = [k \in 1..n |-> s[k]]
        BY <2>3
    <2>5. [k \in 1..n |-> s[k]] = [k \in 1..n |-> values[k]]
        BY <2>2, <2>3, Zenon
    <2> QED BY <2>3, <2>4, <2>5, Zenon
<1> QED BY <1>2, <1>16, <1>17, Zenon DEF Found

\* The values can stand in fields like these, and stand in the bytes between off[i - 1]
\* and off[i].
Stand(format, values, body, off) ==
    /\ format \in Seq(FieldNames) /\ off \in [0..Len(format) -> Nat]
    /\ \A i \in 1..Len(format) :
          LET b == Field(format[i], values[i])
          IN  /\ Holds(format[i], values[i])
              /\ off[i] = off[i - 1] + Len(b) /\ off[i] <= Len(body)
              /\ \A j \in 1..Len(b) : body[off[i - 1] + j] = b[j]

\* The fields from the c-th on.
IsPart(part, format, c) ==
    /\ part \in Seq(FieldNames) /\ c \in Nat /\ c + Len(part) <= Len(format)
    /\ \A i \in 1..Len(part) : part[i] = format[c + i]

\* Fields that stand one behind the other are found, from each of them on.
LEMMA UnpackPart ==
    ASSUME NEW format, NEW values, NEW body \in Seq(Byte), NEW off,
           Stand(format, values, body, off),
           NEW part, NEW c, IsPart(part, format, c)
    PROVE  Unpack(body, off[c], part)
           = Found([i \in 1..Len(part) |-> values[c + i]], off[c + Len(part)])
<1>0. /\ part \in Seq(FieldNames) /\ c \in Nat
      /\ \A i \in 1..Len(part) : part[i] = format[c + i]
    BY DEF IsPart
<1>1. PICK m \in Nat : m = Len(part) /\ DOMAIN part = 1..m
    BY <1>0
<1>2. PICK n \in Nat : n = Len(format)
    BY DEF Stand
<1>3. off \in [0..n -> Nat] /\ c + m <= n
    BY <1>1, <1>2 DEF Stand, IsPart
<1>4. PICK found : found = [i \in 1..m |-> [a \in Nat |-> FieldAt(body, a, part[i])]]
    OBVIOUS
<1>5. PICK w : w = [i \in 1..m |-> values[c + i]]
    OBVIOUS
<1>6. PICK at : at = [i \in 0..m |-> off[c + i]]
    OBVIOUS
<1>7. at \in [0..m -> Nat] /\ at[0] = off[c] /\ at[m] = off[c + m]
    <2>1. \A i \in 0..m : c + i \in 0..n
        BY <1>0, <1>3
    <2>2. c + 0 = c /\ 0 \in 0..m /\ m \in 0..m
        BY <1>0
    <2> QED BY <1>3, <1>6, <2>1, <2>2
<1>8. ASSUME NEW i \in 1..m PROVE found[i][at[i - 1]] = Found(<<w[i]>>, at[i])
    <2>1. /\ i - 1 \in 0..m /\ i \in 0..m /\ c + i \in 1..n
          /\ c + (i - 1) = (c + i) - 1 /\ (c + i) - 1 \in 0..n
        BY <1>0, <1>3
    <2>2. PICK k \in 1..n : k = c + i
        BY <2>1
    <2>3. PICK a \in Nat : a = off[k - 1] /\ at[i - 1] = a
        BY <1>3, <1>6, <2>1, <2>2
    <2>4. PICK f, v : f = part[i] /\ f = format[k] /\ v = values[k]
        BY <1>0, <1>1, <2>2
    <2>5. f \in FieldNames
        <3>1. part[i] \in FieldNames
            BY <1>0, <1>1
        <3> QED BY <2>4, <3>1
    <2>6. PICK b \in Seq(Byte) : b = Field(f, v)
        <3>1. Holds(f, v)
            BY <1>2, <2>4 DEF Stand
        <3> QED BY <2>5, <3>1, FieldBytes
    <2>7. /\ Holds(f, v) /\ off[k] = a + Len(b) /\ a + Len(b) <= Len(body)
          /\ \A j \in 1..Len(b) : body[a + j] = b[j]
        BY <1>2, <2>3, <2>4, <2>6 DEF Stand
    <2>8. /\ IsThere(body, a, f) /\ Extent(body, a, f) = Len(Field(f, v))
          /\ ValueAt(body, a, f) = v
        <3>1. /\ a + Len(Field(f, v)) <= Len(body)
              /\ \A j \in 1..Len(Field(f, v)) : body[a + j] = Field(f, v)[j]
            BY <2>6, <2>7, Zenon
        <3> QED BY <2>5, <2>7, <3>1, FieldValue, ZenonT(40)
    <2>9. a + Extent(body, a, f) = off[k]
        BY <2>6, <2>7, <2>8
    <2>10. FieldAt(body, a, f) = Found(<<v>>, off[k])
        BY <2>8, <2>9, Zenon DEF FieldAt
    <2>11. found[i][a] = FieldAt(body, a, f)
        BY <1>4, <2>4
    <2>12. w[i] = v /\ at[i] = off[k]
        BY <1>5, <1>6, <2>1, <2>2, <2>4
    <2> QED BY <2>3, <2>10, <2>11, <2>12, Zenon
<1>9. Chain(m, found, at[0]) = Found([i \in 1..m |-> w[i]], at[m])
    <2>1. PICK x \in [0..m -> Nat] : x = at
        BY <1>7
    <2>2. AreFound(m, found, w, x)
        BY <1>8, <2>1, Zenon DEF AreFound
    <2>3. Chain(m, found, x[0]) = Found([i \in 1..m |-> w[i]], x[m])
        BY ONLY <2>2, ChainWhole
    <2> QED BY <2>1, <2>3, Zenon
<1>10. [i \in 1..m |-> w[i]] = [i \in 1..m |-> values[c + i]]
    BY <1>5
<1>11. Unpack(body, off[c], part) = Chain(m, found, off[c])
    BY <1>1, <1>4, Zenon DEF Unpack
<1> QED BY <1>1, <1>7, <1>9, <1>10, <1>11, Zenon

\* The bytes p stand in the body from place a on.
IsAt(body, a, p) ==
    /\ p \in Seq(Byte) /\ a + Len(p) <= Len(body)
    /\ \A j \in 1..Len(p) : body[a + j] = p[j]

\* The fields can hold the values.
Hold(format, values) ==
    format \in Seq(FieldNames) /\ \A i \in DOMAIN format : Holds(format[i], values[i])

\* Packed values at a place.
LEMMA StandAt ==
    ASSUME NEW format, NEW values, Hold(format, values),
           NEW body \in Seq(Byte), NEW a \in Nat, IsAt(body, a, Pack(format, values))
    PROVE  \E off : /\ Stand(format, values, body, off)
                    /\ off[0] = a /\ off[Len(format)] = a + Len(Pack(format, values))
<1>0. format \in Seq(FieldNames) /\ \A i \in DOMAIN format : Holds(format[i], values[i])
    BY DEF Hold
<1>1. PICK n \in Nat : n = Len(format) /\ DOMAIN format = 1..n
    BY <1>0
<1>2. PICK p \in Seq(Byte) : p = Pack(format, values)
    BY <1>0, PackPlaces
<1>3. PICK at \in [0..n -> Nat] : IsLayout(format, values, p, at)
    BY <1>0, <1>1, <1>2, PackPlaces
<1>4. PICK off : off = [i \in 0..n |-> a + at[i]]
    OBVIOUS
<1>5. off \in [0..n -> Nat]
    BY <1>4
<1>6. off[0] = a /\ off[n] = a + Len(p)
    <2>1. 0 \in 0..n /\ n \in 0..n /\ at[0] = 0 /\ at[n] = Len(p)
        BY <1>1, <1>3 DEF IsLayout
    <2>2. off[0] = a + at[0] /\ off[n] = a + at[n]
        BY <1>4, <2>1
    <2>3. a + 0 = a
        OBVIOUS
    <2> QED BY <2>1, <2>2, <2>3, Zenon
<1>7. ASSUME NEW i \in 1..n
      PROVE  LET b == Field(format[i], values[i])
             IN  /\ Holds(format[i], values[i])
                 /\ off[i] = off[i - 1] + Len(b) /\ off[i] <= Len(body)
                 /\ \A j \in 1..Len(b) : body[off[i - 1] + j] = b[j]
    <2>1. format[i] \in FieldNames /\ Holds(format[i], values[i])
        BY <1>0, <1>1
    <2>2. PICK b \in Seq(Byte) : b = Field(format[i], values[i])
        BY <2>1, FieldBytes
    <2>3. /\ at[i] = at[i - 1] + Len(b) /\ at[i] <= Len(p)
          /\ \A j \in 1..Len(b) : p[at[i - 1] + j] = b[j]
        BY <1>1, <1>3, <2>2, Zenon DEF IsLayout
    <2>4. PICK x \in Nat, y \in Nat : x = at[i - 1] /\ y = at[i]
        <3>1. i - 1 \in 0..n /\ i \in 0..n
            OBVIOUS
        <3> QED BY <3>1
    <2>5. off[i - 1] = a + x /\ off[i] = a + y
        BY <1>4, <2>4
    <2>6. Len(b) \in Nat /\ Len(p) \in Nat /\ Len(body) \in Nat /\ a + Len(p) <= Len(body)
        BY <1>2 DEF IsAt
    <2>7. y = x + Len(b) /\ y <= Len(p)
        BY <2>3, <2>4
    <2>8. off[i] = off[i - 1] + Len(b) /\ off[i] <= Len(body)
        BY ONLY <2>5, <2>6, <2>7, a \in Nat, x \in Nat, y \in Nat
    <2>9. ASSUME NEW j \in 1..Len(b) PROVE body[off[i - 1] + j] = b[j]
        <3>1. j \in Nat /\ x + j \in 1..Len(p) /\ a + (x + j) = (a + x) + j
            BY ONLY <2>6, <2>7, a \in Nat, x \in Nat, j \in 1..Len(b)
        <3>2. body[a + (x + j)] = p[x + j]
            BY <1>2, <3>1, Zenon DEF IsAt
        <3>3. p[x + j] = b[j]
            BY <2>3, <2>4, Zenon
        <3> QED BY <2>5, <3>1, <3>2, <3>3, Zenon
    <2> QED BY <2>1, <2>2, <2>8, <2>9, Zenon
<1>8. Stand(format, values, body, off)
    BY <1>0, <1>1, <1>5, <1>7, Zenon DEF Stand
<1> QED BY <1>1, <1>2, <1>6, <1>8, Zenon

\* What was packed is what is unpacked, wherever it stands.
LEMMA UnpackAt ==
    ASSUME NEW format \in Seq(FieldNames), NEW values, Fills(format, values),
           NEW body \in Seq(Byte), NEW a \in Nat, IsAt(body, a, Pack(format, values))
    PROVE  Unpack(body, a, format) = Found(values, a + Len(Pack(format, values)))
<1>1. PICK n \in Nat : n = Len(format) /\ DOMAIN format = 1..n
    OBVIOUS
<1>2. PICK z : z = a + Len(Pack(format, values))
    OBVIOUS
<1>3. PICK off : Stand(format, values, body, off) /\ off[0] = a /\ off[n] = z
    <2>1. Hold(format, values)
        BY DEF Fills, Hold
    <2>2. \E off : /\ Stand(format, values, body, off)
                   /\ off[0] = a /\ off[Len(format)] = a + Len(Pack(format, values))
        BY <2>1, StandAt, Zenon
    <2> QED BY <1>1, <1>2, <2>2, Zenon
<1>4. IsPart(format, format, 0) /\ 0 + n = n
    BY <1>1 DEF IsPart
<1>5. Unpack(body, off[0], format) = Found([i \in 1..n |-> values[0 + i]], off[0 + n])
    <2>1. Unpack(body, off[0], format)
          = Found([i \in 1..Len(format) |-> values[0 + i]], off[0 + Len(format)])
        BY ONLY <1>3, <1>4, UnpackPart, SMTT(30)
    <2> QED BY <1>1, <2>1, Zenon
<1>6. [i \in 1..n |-> values[0 + i]] = values
    <2>1. [i \in 1..n |-> values[0 + i]] = [i \in 1..n |-> values[i]]
        OBVIOUS
    <2> QED BY <1>1, <2>1, Zenon DEF Fills
<1> QED BY <1>2, <1>3, <1>4, <1>5, <1>6, Zenon

\* The server makes of every request that the client library can send the request
\* that was sent: the two have the layouts of the messages twice, in Python and in
\* C (prof_client.py:482-580, ps-uif-handler.c:31-243).
THEOREM RequestsAreUnderstood ==
    ASSUME NEW r, IsRequest(r)
    PROVE  ParseRequest(TypeOf(PackRequest(r)), BodyOf(PackRequest(r))) = r
<1>1. PICK kind \in DOMAIN Types : kind = r.kind
    BY DEF IsRequest
<1>2. PICK args : args = r.args
    OBVIOUS
<1>3. TypeOf(PackRequest(r)) = Types[kind]
    BY <1>1, RequestMessage
<1>4. PICK body : body = BodyOf(PackRequest(r))
    OBVIOUS
<1>5. CASE kind \in DOMAIN ClientRequest
    <2>1. kind \in DOMAIN ServerRequest /\ ServerRequest[kind] = ClientRequest[kind]
        BY <1>5, LayoutsAgree
    <2>2. PICK format : format = ServerRequest[kind]
        OBVIOUS
    <2>3. Suits(format, args) /\ body = Pack(format, args)
        BY <1>1, <1>2, <1>4, <1>5, <2>1, <2>2, RequestBody, RequestMessage DEF BodyOfRequest
    <2>4. Fills(format, args) /\ format \in Seq(FieldNames)
        BY <1>1, <1>2, <1>5, <2>1, <2>2, LayoutsAgree DEF IsRequest
    <2>5. PICK u : u = Unpack(body, 0, format)
        OBVIOUS
    <2>6. u.ok /\ u.value = args
        <3>1. body \in Seq(Byte) /\ 0 \in Nat
            BY <2>3, PackLayout
        <3>2. IsAt(body, 0, body)
            BY <3>1 DEF IsAt
        <3>3. u = Found(args, 0 + Len(body))
            BY <2>3, <2>4, <2>5, <3>1, <3>2, UnpackAt, Zenon
        <3> QED BY <3>3 DEF Found
    <2>7. ParseRequest(Types[kind], body) = [kind |-> kind, args |-> args]
        BY <2>1, <2>2, <2>5, <2>6, KindOfType, ZenonT(40) DEF ParseRequest
    <2>8. r = [kind |-> r.kind, args |-> r.args]
        BY DEF IsRequest
    <2> QED BY <1>1, <1>2, <1>3, <1>4, <2>7, <2>8, Zenon
<1>6. CASE kind \notin DOMAIN ClientRequest
    <2>1. kind \notin DOMAIN ServerRequest
        BY <1>6 DEF ClientRequest, ServerRequest
    <2>2. PICK u : u = Found(<<>>, 0)
        OBVIOUS
    <2>3. u.ok /\ u.value = <<>>
        BY <2>2 DEF Found
    <2>4. ParseRequest(Types[kind], body) = [kind |-> kind, args |-> <<>>]
        BY <2>1, <2>2, <2>3, KindOfType, ZenonT(40) DEF ParseRequest
    <2>5. r = [kind |-> r.kind, args |-> r.args]
        BY DEF IsRequest
    <2>6. args = <<>>
        <3>1. args = [i \in DOMAIN <<>> |-> args[i]]
            BY <1>1, <1>2, <1>6 DEF IsRequest, Fills
        <3> QED BY <3>1
    <2> QED BY <1>1, <1>2, <1>3, <1>4, <2>4, <2>5, <2>6, Zenon
<1> QED BY <1>5, <1>6

-----------------------------------------------------------------------------
(* Answers and their messages.                                             *)

\* A sequence is its first n elements and the others behind them.
LEMMA Rejoined ==
    ASSUME NEW x, NEW n \in Nat, NEW m \in Nat
    PROVE  [i \in 1..n |-> x[i]] \o [i \in 1..m |-> x[n + i]] = [i \in 1..n + m |-> x[i]]
<1>1. PICK V : V = {x[i] : i \in 1..n + m}
    OBVIOUS
<1>2. PICK a \in Seq(V) : a = [i \in 1..n |-> x[i]] /\ Len(a) = n
    <2>1. \A i \in 1..n : i \in 1..n + m
        OBVIOUS
    <2>2. [i \in 1..n |-> x[i]] \in Seq(V) /\ Len([i \in 1..n |-> x[i]]) = n
        BY <1>1, <2>1
    <2> QED BY <2>2
<1>3. PICK b \in Seq(V) : b = [i \in 1..m |-> x[n + i]] /\ Len(b) = m
    <2>1. \A i \in 1..m : n + i \in 1..n + m
        OBVIOUS
    <2>2. [i \in 1..m |-> x[n + i]] \in Seq(V) /\ Len([i \in 1..m |-> x[n + i]]) = m
        BY <1>1, <2>1
    <2> QED BY <2>2
<1>4. PICK c : c = a \o b
    OBVIOUS
<1>5. /\ c \in Seq(V) /\ Len(c) = n + m
      /\ \A i \in 1..n : c[i] = a[i]
      /\ \A j \in 1..m : c[n + j] = b[j]
    <2>1. c \in Seq(V) /\ Len(c) = Len(a) + Len(b)
        BY <1>4, Joined
    <2>2. \A i \in 1..Len(a) : c[i] = a[i]
        BY <1>4, Joined
    <2>3. \A j \in 1..Len(b) : c[Len(a) + j] = b[j]
        BY <1>4, Joined
    <2> QED BY <1>2, <1>3, <2>1, <2>2, <2>3
<1>6. ASSUME NEW i \in 1..n + m PROVE c[i] = x[i]
    <2>1. CASE i <= n
        <3>1. i \in 1..n
            BY <2>1
        <3> QED BY <1>2, <1>5, <3>1
    <2>2. CASE i > n
        <3>1. i - n \in 1..m /\ n + (i - n) = i
            BY <2>2
        <3>2. c[n + (i - n)] = b[i - n] /\ b[i - n] = x[n + (i - n)]
            BY <1>3, <1>5, <3>1
        <3> QED BY <3>1, <3>2
    <2> QED BY <2>1, <2>2
<1>7. c = [i \in 1..n + m |-> c[i]]
    BY <1>5
<1>8. [i \in 1..n + m |-> c[i]] = [i \in 1..n + m |-> x[i]]
    BY <1>6, Zenon
<1> QED BY <1>2, <1>3, <1>4, <1>7, <1>8, Zenon

\* An item that the server can pack.
IsItem(kind, x) == /\ kind = "get_stats" => x[3] \in Nat
                   /\ Fills(ServerItem(kind, x), x)

\* The fields that the client library reads of an item are those that the server packs.
LEMMA ItemsAgree ==
    ASSUME NEW kind \in Lists, NEW x, IsItem(kind, x), NEW first,
           first = [i \in 1..Len(ClientItem(kind)) |-> x[i]]
    PROVE  /\ ClientItem(kind) \in Seq(FieldNames)
           /\ ClientRest(kind, first) \in Seq(FieldNames)
           /\ ServerItem(kind, x) = ClientItem(kind) \o ClientRest(kind, first)
<1>1. \A f, g, h \in FieldNames :
          /\ <<>> \in Seq(FieldNames)
          /\ <<f>> \in Seq(FieldNames) /\ <<f>> \o <<>> = <<f>>
          /\ <<f, g>> \in Seq(FieldNames) /\ <<f, g>> \o <<>> = <<f, g>>
          /\ <<f, g, h>> \in Seq(FieldNames) /\ Len(<<f, g, h>>) = 3
          /\ <<f, f, g, g>> \in Seq(FieldNames)
    OBVIOUS
<1>2. "u8" \in FieldNames /\ "u32" \in FieldNames /\ "u64" \in FieldNames /\ "str" \in FieldNames
    BY DEF FieldNames
<1> HIDE DEF FieldNames
<1>3. CASE kind = "loaded_classes"
    <2>1. ClientItem(kind) = <<"str">>
        BY <1>3 DEF ClientItem
    <2>2. ServerItem(kind, x) = <<"str">> /\ ClientRest(kind, first) = <<>>
        BY <1>3 DEF ServerItem, ClientRest
    <2> QED BY <1>1, <1>2, <2>1, <2>2, Zenon
<1>4. CASE kind = "class_methods"
    <2>1. ClientItem(kind) = <<"str">>
        BY <1>4 DEF ClientItem
    <2>2. ServerItem(kind, x) = <<"str">> /\ ClientRest(kind, first) = <<>>
        BY <1>4 DEF ServerItem, ClientRest
    <2> QED BY <1>1, <1>2, <2>1, <2>2, Zenon
<1>5. CASE kind = "get_async_errors"
    <2>1. ClientItem(kind) = <<"u64", "str">>
        BY <1>5 DEF ClientItem
    <2>2. ServerItem(kind, x) = <<"u64", "str">> /\ ClientRest(kind, first) = <<>>
        BY <1>5 DEF ServerItem, ClientRest
    <2> QED BY <1>1, <1>2, <2>1, <2>2, Zenon
<1>6. CASE kind = "list_instrumented"
    <2>1. ClientItem(kind) = <<"u8", "u32", "u64">>
        BY <1>6 DEF ClientItem
    <2>2. first[1] = x[1]
        <3>1. Len(ClientItem(kind)) = 3
            BY <1>1, <1>2, <2>1, Zenon
        <3> QED BY <3>1
    <2>3. PICK y : y = IF x[1] = 0 THEN <<"str", "str">> ELSE <<"u32", "u32", "str", "str">>
        OBVIOUS
    <2>4. ServerItem(kind, x) = <<"u8", "u32", "u64">> \o y
        BY <1>6, <2>3 DEF ServerItem
    <2>5. ClientRest(kind, first) = y
        BY <1>6, <2>2, <2>3 DEF ClientRest
    <2>6. y \in Seq(FieldNames)
        BY <1>1, <1>2, <2>3, Zenon
    <2> QED BY <1>1, <1>2, <2>1, <2>4, <2>5, <2>6, Zenon
<1>7. CASE kind = "get_stats"
    <2>1. ClientItem(kind) = <<"u64", "str", "u32">>
        BY <1>7 DEF ClientItem
    <2>2. first[3] = x[3]
        <3>1. Len(ClientItem(kind)) = 3
            BY <1>1, <1>2, <2>1, Zenon
        <3> QED BY <3>1
    <2>3. PICK y : y = [i \in 1..3 * x[3] |-> "u64"]
        OBVIOUS
    <2>4. ServerItem(kind, x) = <<"u64", "str", "u32">> \o y
        BY <1>7, <2>3 DEF ServerItem
    <2>5. ClientRest(kind, first) = y
        BY <1>7, <2>2, <2>3 DEF ClientRest
    <2>6. y \in Seq(FieldNames)
        <3>1. PICK n \in Nat : n = 3 * x[3]
            BY <1>7 DEF IsItem
        <3>2. [i \in 1..n |-> "u64"] \in Seq(FieldNames)
            BY <1>2
        <3> QED BY <2>3, <3>1, <3>2
    <2> QED BY <1>1, <1>2, <2>1, <2>4, <2>5, <2>6, Zenon
<1> QED BY <1>3, <1>4, <1>5, <1>6, <1>7 DEF Lists

\* An item is found as it was packed.
LEMMA ItemFound ==
    ASSUME NEW kind \in Lists, NEW x, IsItem(kind, x),
           NEW body \in Seq(Byte), NEW a \in Nat, IsAt(body, a, Pack(ServerItem(kind, x), x))
    PROVE  ItemAt(body, a, kind) = Found(<<x>>, a + Len(Pack(ServerItem(kind, x), x)))
<1>1. PICK ci : ci = ClientItem(kind)
    OBVIOUS
<1>2. PICK y : y = [i \in 1..Len(ci) |-> x[i]]
    OBVIOUS
<1>3. PICK cr : cr = ClientRest(kind, y)
    OBVIOUS
<1>4. PICK f : f = ServerItem(kind, x)
    OBVIOUS
<1>5. ci \in Seq(FieldNames) /\ cr \in Seq(FieldNames) /\ f = ci \o cr
    BY <1>1, <1>2, <1>3, <1>4, ItemsAgree
<1>6. PICK c \in Nat, m \in Nat : c = Len(ci) /\ m = Len(cr)
    BY <1>5
<1>7. /\ f \in Seq(FieldNames) /\ Len(f) = c + m
      /\ \A i \in 1..c : f[i] = ci[i]
      /\ \A j \in 1..m : f[c + j] = cr[j]
    <2> HIDE DEF FieldNames
    <2>1. PICK p \in Seq(FieldNames), q \in Seq(FieldNames) : p = ci /\ q = cr
        BY <1>5
    <2>2. PICK r : r = p \o q
        OBVIOUS
    <2>3. r \in Seq(FieldNames) /\ Len(r) = Len(p) + Len(q)
        BY <2>2, Joined
    <2>4. \A i \in 1..Len(p) : r[i] = p[i]
        BY <2>2, Joined
    <2>5. \A j \in 1..Len(q) : r[Len(p) + j] = q[j]
        BY <2>2, Joined
    <2> QED BY <1>5, <1>6, <2>1, <2>2, <2>3, <2>4, <2>5, Zenon
<1>8. /\ \A i \in DOMAIN f : Holds(f[i], x[i])
      /\ x = [i \in 1..c + m |-> x[i]]
    <2>1. DOMAIN f = 1..c + m
        BY <1>7
    <2>2. x = [i \in DOMAIN f |-> x[i]] /\ \A i \in DOMAIN f : Holds(f[i], x[i])
        BY <1>4, Zenon DEF IsItem, Fills
    <2> QED BY <2>1, <2>2, Zenon
<1>9. PICK z : z = a + Len(Pack(f, x))
    OBVIOUS
<1>10. PICK off : Stand(f, x, body, off) /\ off[0] = a /\ off[Len(f)] = z
    <2>1. IsAt(body, a, Pack(f, x))
        BY <1>4, Zenon
    <2>2. Hold(f, x)
        BY <1>7, <1>8 DEF Hold
    <2> QED BY ONLY <1>9, <2>1, <2>2, StandAt
<1>11. PICK first : first = Unpack(body, a, ci)
    OBVIOUS
<1>12. first = Found(y, off[c])
    <2>1. IsPart(ci, f, 0)
        BY <1>5, <1>6, <1>7 DEF IsPart
    <2>2. Unpack(body, off[0], ci) = Found([i \in 1..Len(ci) |-> x[0 + i]], off[0 + Len(ci)])
        BY ONLY <1>10, <2>1, UnpackPart
    <2>3. [i \in 1..Len(ci) |-> x[0 + i]] = y /\ 0 + Len(ci) = c
        BY <1>2, <1>6
    <2> QED BY <1>10, <1>11, <2>2, <2>3, Zenon
<1>13. PICK w : w = [i \in 1..m |-> x[c + i]]
    OBVIOUS
<1>14. PICK rest : rest = Unpack(body, off[c], cr)
    OBVIOUS
<1>15. rest = Found(w, z)
    <2>1. IsPart(cr, f, c)
        BY <1>5, <1>6, <1>7 DEF IsPart
    <2>2. Unpack(body, off[c], cr) = Found([i \in 1..Len(cr) |-> x[c + i]], off[c + Len(cr)])
        BY ONLY <1>10, <2>1, UnpackPart
    <2> QED BY <1>6, <1>7, <1>10, <1>13, <1>14, <2>2, Zenon
<1>16. /\ first.ok /\ first.value = y /\ first.next = off[c]
       /\ rest.ok /\ rest.value = w /\ rest.next = z
    BY <1>12, <1>15 DEF Found
<1>17. y \o w = x
    <2>1. [i \in 1..c |-> x[i]] \o [i \in 1..m |-> x[c + i]] = [i \in 1..c + m |-> x[i]]
        BY ONLY Rejoined
    <2>2. y \o w = [i \in 1..c + m |-> x[i]]
        BY <1>2, <1>6, <1>13, <2>1, Zenon
    <2> QED BY <1>8, <2>2, Zenon
<1>18. ItemAt(body, a, kind) = Found(<<x>>, z)
    <2>1. first = Unpack(body, a, ClientItem(kind))
        BY <1>1, <1>11, Zenon
    <2>2. rest = Unpack(body, first.next, ClientRest(kind, first.value))
        BY <1>3, <1>14, <1>16, Zenon
    <2>3. ItemAt(body, a, kind)
          = IF first.ok /\ rest.ok THEN Found(<<first.value \o rest.value>>, rest.next) ELSE Short
        BY <2>1, <2>2, Zenon DEF ItemAt
    <2> QED BY <1>16, <1>17, <2>3, Zenon
<1> QED BY <1>4, <1>9, <1>18, Zenon

\* The bytes of an item, and of the items of an answer.
ItemBytes(kind, x) == Pack(ServerItem(kind, x), x)
ItemsBytes(kind, n, items) == FlattenSeq([i \in 1..n |-> ItemBytes(kind, items[i])])
AreItems(kind, n, items) == \A i \in 1..n : IsItem(kind, items[i])

LEMMA ItemIsBytes ==
    ASSUME NEW kind \in Lists, NEW x, IsItem(kind, x)
    PROVE  ItemBytes(kind, x) \in Seq(Byte)
<1>1. PICK first : first = [i \in 1..Len(ClientItem(kind)) |-> x[i]]
    OBVIOUS
<1>2. PICK p \in Seq(FieldNames), q \in Seq(FieldNames) : ServerItem(kind, x) = p \o q
    BY <1>1, ItemsAgree
<1>3. PICK f : f = ServerItem(kind, x)
    OBVIOUS
<1>4. f \in Seq(FieldNames)
    <2> HIDE DEF FieldNames
    <2> QED BY <1>2, <1>3, Joined
<1>5. \A i \in DOMAIN f : Holds(f[i], x[i])
    BY <1>3, Zenon DEF IsItem, Fills
<1>6. Pack(f, x) \in Seq(Byte)
    BY <1>4, <1>5, PackPlaces
<1> QED BY <1>3, <1>6, Zenon DEF ItemBytes

\* The items of an answer are found as they were packed.
LEMMA ItemsFound ==
    ASSUME NEW kind \in Lists, NEW n \in Nat, NEW items, AreItems(kind, n, items),
           NEW body \in Seq(Byte), NEW a \in Nat, IsAt(body, a, ItemsBytes(kind, n, items))
    PROVE  ItemsAt(body, a, kind, n)
           = Found([i \in 1..n |-> items[i]], a + Len(ItemsBytes(kind, n, items)))
<1>1. PICK seqs : seqs = [i \in 1..n |-> ItemBytes(kind, items[i])]
    OBVIOUS
<1>2. seqs \in [1..n -> Seq(Byte)] /\ \A i \in 1..n : seqs[i] = ItemBytes(kind, items[i])
    <2>1. \A i \in 1..n : ItemBytes(kind, items[i]) \in Seq(Byte)
        BY ItemIsBytes DEF AreItems
    <2> QED BY <1>1, <2>1
<1>3. PICK flat \in Seq(Byte) : flat = ItemsBytes(kind, n, items) /\ flat = FlattenSeq(seqs)
    BY <1>1, <1>2, FlatPlaces DEF ItemsBytes
<1>4. PICK at \in [0..n -> Nat] : IsPlaced(n, seqs, flat, at)
    BY <1>2, <1>3, FlatPlaces
<1>5. PICK off : off = [i \in 0..n |-> a + at[i]]
    OBVIOUS
<1>6. off \in [0..n -> Nat]
    BY <1>5
<1>7. off[0] = a /\ off[n] = a + Len(flat)
    <2>1. 0 \in 0..n /\ n \in 0..n /\ at[0] = 0 /\ at[n] = Len(flat)
        BY <1>4 DEF IsPlaced
    <2>2. off[0] = a + at[0] /\ off[n] = a + at[n]
        BY <1>5, <2>1
    <2>3. a + 0 = a
        OBVIOUS
    <2> QED BY <2>1, <2>2, <2>3, Zenon
<1>8. PICK found : found = [i \in 1..n |-> [b \in Nat |-> ItemAt(body, b, kind)]]
    OBVIOUS
<1>9. ASSUME NEW i \in 1..n PROVE found[i][off[i - 1]] = Found(<<items[i]>>, off[i])
    <2>1. PICK x \in Nat, y \in Nat : x = at[i - 1] /\ y = at[i]
        <3>1. i - 1 \in 0..n /\ i \in 0..n
            OBVIOUS
        <3> QED BY <3>1
    <2>2. off[i - 1] = a + x /\ off[i] = a + y
        BY <1>5, <2>1
    <2>3. PICK b \in Seq(Byte) : b = seqs[i] /\ b = ItemBytes(kind, items[i])
        BY <1>2
    <2>4. y = x + Len(b) /\ y <= Len(flat) /\ \A j \in 1..Len(b) : flat[x + j] = b[j]
        BY <1>4, <2>1, <2>3, Zenon DEF IsPlaced
    <2>5. /\ a + Len(flat) <= Len(body)
          /\ \A j \in 1..Len(flat) : body[a + j] = flat[j]
        BY <1>3, Zenon DEF IsAt
    <2>6. PICK c \in Nat : c = a + x
        OBVIOUS
    <2>7. Len(b) \in Nat /\ Len(flat) \in Nat /\ Len(body) \in Nat
        OBVIOUS
    <2>8. c + Len(b) <= Len(body) /\ c + Len(b) = a + y
        BY ONLY <2>4, <2>5, <2>6, <2>7, a \in Nat, x \in Nat, y \in Nat
    <2>9. ASSUME NEW j \in 1..Len(b) PROVE body[c + j] = b[j]
        <3>1. j \in Nat /\ x + j \in 1..Len(flat) /\ a + (x + j) = c + j
            BY ONLY <2>4, <2>6, <2>7, a \in Nat, x \in Nat, j \in 1..Len(b)
        <3>2. body[a + (x + j)] = flat[x + j]
            BY <2>5, <3>1, Zenon
        <3>3. flat[x + j] = b[j]
            BY <2>4, Zenon
        <3> QED BY <3>1, <3>2, <3>3, Zenon
    <2>10. IsAt(body, c, b)
        BY <2>8, <2>9, Zenon DEF IsAt
    <2>11. PICK x1 : x1 = items[i]
        OBVIOUS
    <2>12. IsItem(kind, x1) /\ IsAt(body, c, Pack(ServerItem(kind, x1), x1))
        BY <2>3, <2>10, <2>11, Zenon DEF AreItems, ItemBytes
    <2>13. ItemAt(body, c, kind) = Found(<<x1>>, c + Len(Pack(ServerItem(kind, x1), x1)))
        BY ONLY <2>12, ItemFound
    <2>14. ItemAt(body, c, kind) = Found(<<x1>>, c + Len(b))
        BY <2>3, <2>11, <2>13, Zenon DEF ItemBytes
    <2>15. found[i][c] = ItemAt(body, c, kind)
        BY <1>8
    <2>16. off[i - 1] = c /\ off[i] = c + Len(b)
        BY <2>2, <2>6, <2>8, Zenon
    <2> QED BY <2>11, <2>14, <2>15, <2>16, Zenon
<1>10. AreFound(n, found, items, off)
    BY <1>9, Zenon DEF AreFound
<1>11. Chain(n, found, off[0]) = Found([i \in 1..n |-> items[i]], off[n])
    BY ONLY <1>6, <1>10, ChainWhole
<1>12. ItemsAt(body, a, kind, n) = Chain(n, found, a)
    BY <1>8, Zenon DEF ItemsAt
<1> QED BY <1>3, <1>7, <1>11, <1>12, Zenon

\* The code of a status is taken for that status.
LEMMA CodesAgree ==
    ASSUME NEW kind \in DOMAIN ServerStatus, NEW i \in DOMAIN ServerStatus[kind], NEW s,
           s = ServerStatus[kind][i]
    PROVE  Code(kind, s) \in Nat /\ ClientStatus(kind, Code(kind, s)) = s
<1>1. DOMAIN ServerStatus[kind] \in SUBSET (1..4)
    BY DEF ServerStatus
<1>2. PICK c : c = Code(kind, s)
    OBVIOUS
<1>3. c \in 0..3 /\ c + 1 \in DOMAIN ServerStatus[kind] /\ ServerStatus[kind][c + 1] = s
    <2>1. i - 1 \in 0..3 /\ (i - 1) + 1 = i
        BY <1>1
    <2>2. /\ (i - 1) + 1 \in DOMAIN ServerStatus[kind]
          /\ ServerStatus[kind][(i - 1) + 1] = s
        BY <2>1
    <2>3. \E j \in 0..3 : j + 1 \in DOMAIN ServerStatus[kind] /\ ServerStatus[kind][j + 1] = s
        BY <2>1, <2>2
    <2> QED BY <1>2, <2>3 DEF Code
<1>4. \E t : /\ t = ServerStatus[kind]
             /\ \/ c = 0 /\ s = t[1]
                \/ c = 1 /\ 2 \in DOMAIN t /\ s = t[2]
                \/ c = 2 /\ 3 \in DOMAIN t /\ s = t[3]
                \/ c = 3 /\ 4 \in DOMAIN t /\ s = t[4]
    <2>1. PICK t : t = ServerStatus[kind]
        OBVIOUS
    <2>2. c = 0 \/ c = 1 \/ c = 2 \/ c = 3
        BY <1>3
    <2>3. 0 + 1 = 1 /\ 1 + 1 = 2 /\ 2 + 1 = 3 /\ 3 + 1 = 4
        OBVIOUS
    <2> QED BY <1>3, <2>1, <2>2, <2>3, Zenon
<1> SUFFICES ClientStatus(kind, c) = s
    BY <1>2, <1>3
<1>5. CASE kind = "class_methods"
    <2>1. ServerStatus[kind] = <<"ok", "not_loaded">>
        BY <1>5 DEF ServerStatus
    <2>2. ClientStatus(kind, c) = IF c = 0 THEN "ok" ELSE IF c = 1 THEN "not_loaded" ELSE "error"
        BY <1>5 DEF ClientStatus
    <2> QED BY <1>4, <2>1, <2>2
<1>6. CASE kind = "instrument_method"
    <2>1. ServerStatus[kind] = <<"ok", "double", "error", "deferred">>
        BY <1>6 DEF ServerStatus
    <2>2. ClientStatus(kind, c) = IF c = 1 THEN "double"
                                ELSE IF c = 3 THEN "deferred"
                                ELSE IF c = 0 THEN "ok" ELSE "error"
        BY <1>6 DEF ClientStatus
    <2> QED BY <1>4, <2>1, <2>2
<1>7. CASE kind = "instrument_line"
    <2>1. ServerStatus[kind] = <<"ok", "error", "deferred">>
        BY <1>7 DEF ServerStatus
    <2>2. ClientStatus(kind, c) = IF c = 2 THEN "deferred" ELSE IF c = 0 THEN "ok" ELSE "error"
        BY <1>7 DEF ClientStatus
    <2> QED BY <1>4, <2>1, <2>2
<1>8. CASE kind = "deinstrument_method" \/ kind = "deinstrument_by_id"
    <2>1. ServerStatus[kind] = <<"ok", "error">>
        BY <1>8 DEF ServerStatus
    <2>2. ClientStatus(kind, c) = IF c = 0 THEN "ok" ELSE "error"
        BY <1>8 DEF ClientStatus
    <2> QED BY <1>4, <2>1, <2>2
<1>9. CASE kind = "resume"
    <2>1. ServerStatus[kind] = <<"ok", "nochange", "error">>
        BY <1>9 DEF ServerStatus
    <2>2. ClientStatus(kind, c) = IF c = 2 THEN "error" ELSE IF c = 0 THEN "ok" ELSE "nochange"
        BY <1>9 DEF ClientStatus
    <2> QED BY <1>4, <2>1, <2>2
<1>10. CASE kind = "pause_threads"
    <2>1. ServerStatus[kind] = <<"ok", "already_paused", "error", "race_failure">>
        BY <1>10 DEF ServerStatus
    <2>2. ClientStatus(kind, c) = IF c = 2 THEN "error"
                                ELSE IF c = 3 THEN "race_failure"
                                ELSE IF c = 0 THEN "ok" ELSE "already_paused"
        BY <1>10 DEF ClientStatus
    <2> QED BY <1>4, <2>1, <2>2
<1>12. \/ kind = "class_methods" \/ kind = "instrument_method" \/ kind = "instrument_line"
       \/ kind = "deinstrument_method" \/ kind = "deinstrument_by_id"
       \/ kind = "resume" \/ kind = "pause_threads"
    BY DEF ServerStatus
<1> QED BY <1>5, <1>6, <1>7, <1>8, <1>9, <1>10, <1>12

\* Records of one number and of two.
LEMMA NumbersFill ==
    ASSUME NEW f \in {"u32", "u64"}, NEW x \in Nat, NEW y \in Nat
    PROVE  /\ Fills(<<"u32">>, <<x>>) /\ <<"u32">> \in Seq(FieldNames)
           /\ Fills(<<"u32", f>>, <<x, y>>) /\ <<"u32", f>> \in Seq(FieldNames)
<1>1. <<"u32">> \in Seq(FieldNames) /\ <<"u32", f>> \in Seq(FieldNames)
    BY DEF FieldNames
<1>2. Fills(<<"u32">>, <<x>>)
    <2>1. PICK v : v = <<x>>
        OBVIOUS
    <2>2. v = [i \in DOMAIN <<"u32">> |-> v[i]]
        BY <2>1
    <2>3. \A i \in DOMAIN <<"u32">> : Holds(<<"u32">>[i], v[i])
        BY <2>1 DEF Holds
    <2> QED BY <2>1, <2>2, <2>3, Zenon DEF Fills
<1>3. Fills(<<"u32", f>>, <<x, y>>)
    <2>1. PICK v : v = <<x, y>>
        OBVIOUS
    <2>2. PICK g : g = <<"u32", f>>
        OBVIOUS
    <2>3. v = [i \in DOMAIN g |-> v[i]]
        BY <2>1, <2>2
    <2>4. \A i \in DOMAIN g : g[i] # "str" /\ v[i] \in Nat
        BY <2>1, <2>2
    <2>5. \A i \in DOMAIN g : Holds(g[i], v[i])
        BY <2>4, Zenon DEF Holds
    <2> QED BY <2>1, <2>2, <2>3, <2>5, Zenon DEF Fills
<1> QED BY <1>1, <1>2, <1>3

Plain == {"loaded_classes", "list_instrumented", "get_async_errors"}

\* What comes before the items of an answer.
HeadOf(kind, a) ==
    CASE kind \in Plain -> <<Len(a.items)>>
      [] kind = "get_stats" -> <<Len(a.items), a.number>>
      [] kind = "class_methods" -> <<Code(kind, a.status), Len(a.items)>>
      [] kind = "instrument_method" ->
            <<Code(kind, a.status), IF a.status = "error" THEN 0 ELSE a.number>>
      [] kind = "instrument_line" -> <<Code(kind, a.status), a.number>>
      [] kind = "get_status" -> <<a.number \div 2, a.number % 2>>
      [] OTHER -> <<Code(kind, a.status)>>

\* What the fields of an answer are made of.
AnswerParts(kind, a) ==
    /\ a = Outcome(a.status, a.number, a.items)
    /\ a.number \in Nat /\ Len(a.items) \in Nat /\ DOMAIN a.items = 1..Len(a.items)
    /\ a.items = [i \in 1..Len(a.items) |-> a.items[i]]
    /\ kind \notin {"get_stats", "get_status", "instrument_method", "instrument_line"} =>
          a.number = 0
    /\ kind \in DOMAIN ServerStatus =>
          Code(kind, a.status) \in Nat /\ ClientStatus(kind, Code(kind, a.status)) = a.status
    /\ kind \notin DOMAIN ServerStatus => a.status = "ok"
    /\ kind \notin Lists \/ a.status # "ok" => a.items = <<>>
    /\ AreItems(kind, Len(a.items), a.items)

LEMMA PartsOfAnswer ==
    ASSUME NEW kind, NEW a, IsAnswer(kind, a)
    PROVE  AnswerParts(kind, a)
<1>1. PICK n \in Nat : n = Len(a.items)
    BY DEF IsAnswer
<1>2. PICK items : items = [i \in 1..n |-> a.items[i]]
    OBVIOUS
<1>3. a = Outcome(a.status, a.number, items)
    BY <1>1, <1>2, Zenon DEF IsAnswer
<1>4. a.items = items
    BY <1>3 DEF Outcome
<1>5. DOMAIN items = 1..n
    BY <1>2
<1>6. kind \in DOMAIN ServerStatus =>
          Code(kind, a.status) \in Nat /\ ClientStatus(kind, Code(kind, a.status)) = a.status
    <2> SUFFICES ASSUME kind \in DOMAIN ServerStatus
                 PROVE  Code(kind, a.status) \in Nat
                        /\ ClientStatus(kind, Code(kind, a.status)) = a.status
        OBVIOUS
    <2>1. PICK i \in DOMAIN ServerStatus[kind] : a.status = ServerStatus[kind][i]
        BY Zenon DEF IsAnswer
    <2> QED BY <2>1, CodesAgree
<1>7. kind \notin DOMAIN ServerStatus => a.status = "ok"
    BY Zenon DEF IsAnswer
<1>8. AreItems(kind, n, a.items)
    <2>1. \A i \in 1..n : /\ kind = "get_stats" => a.items[i][3] \in Nat
                          /\ Fills(ServerItem(kind, a.items[i]), a.items[i])
        BY <1>4, <1>5, Zenon DEF IsAnswer
    <2> QED BY <2>1, Zenon DEF AreItems, IsItem
<1>9. /\ a.number \in Nat
      /\ kind \notin {"get_stats", "get_status", "instrument_method", "instrument_line"} =>
            a.number = 0
      /\ kind \notin Lists \/ a.status # "ok" => a.items = <<>>
    BY Zenon DEF IsAnswer
<1> QED BY <1>1, <1>2, <1>3, <1>4, <1>5, <1>6, <1>7, <1>8, <1>9, Zenon DEF AnswerParts

\* The client library reads the fields that the server packs.
LEMMA HeadsAgree ==
    ASSUME NEW kind \in DOMAIN Types, NEW a, AnswerParts(kind, a)
    PROVE  /\ ClientHead(kind) \in Seq(FieldNames)
           /\ Fills(ClientHead(kind), HeadOf(kind, a))
           /\ ServerHead(kind, a) = Pack(ClientHead(kind), HeadOf(kind, a))
<1> DEFINE Agree == /\ ClientHead(kind) \in Seq(FieldNames)
                    /\ Fills(ClientHead(kind), HeadOf(kind, a))
                    /\ ServerHead(kind, a) = Pack(ClientHead(kind), HeadOf(kind, a))
<1>1. PICK n \in Nat, m \in Nat : n = Len(a.items) /\ m = a.number
    BY DEF AnswerParts
<1>2. ASSUME NEW x \in Nat, ClientHead(kind) = <<"u32">>, HeadOf(kind, a) = <<x>>,
             ServerHead(kind, a) = Pack(<<"u32">>, <<x>>)
      PROVE  Agree
    BY <1>2, NumbersFill, Zenon
<1>3. ASSUME NEW f \in {"u32", "u64"}, NEW x \in Nat, NEW y \in Nat,
             ClientHead(kind) = <<"u32", f>>, HeadOf(kind, a) = <<x, y>>,
             ServerHead(kind, a) = Pack(<<"u32", f>>, <<x, y>>)
      PROVE  Agree
    BY <1>3, NumbersFill, Zenon
<1> HIDE DEF Agree
<1>4. CASE kind \in Plain
    <2>1. ClientHead(kind) = <<"u32">>
        BY <1>4 DEF Plain, ClientHead
    <2>2. HeadOf(kind, a) = <<n>>
        BY <1>1, <1>4 DEF Plain, HeadOf
    <2>3. ServerHead(kind, a) = Pack(<<"u32">>, <<n>>)
        BY <1>1, <1>4 DEF Plain, ServerHead
    <2>4. Agree
        BY <1>2, <2>1, <2>2, <2>3
    <2> QED BY <2>4 DEF Agree
<1>5. CASE kind = "get_stats"
    <2>1. ClientHead(kind) = <<"u32", "u32">>
        BY <1>5 DEF ClientHead
    <2>2. HeadOf(kind, a) = <<n, m>>
        BY <1>1, <1>5 DEF Plain, HeadOf
    <2>3. ServerHead(kind, a) = Pack(<<"u32", "u32">>, <<n, m>>)
        BY <1>1, <1>5 DEF ServerHead
    <2>4. Agree
        BY <1>3, <2>1, <2>2, <2>3
    <2> QED BY <2>4 DEF Agree
<1>6. CASE kind \in DOMAIN ServerStatus
    <2>1. PICK c \in Nat : c = Code(kind, a.status)
        BY <1>6 DEF AnswerParts
    <2>2. CASE kind = "class_methods"
        <3>1. ClientHead(kind) = <<"u32", "u32">>
            BY <2>2 DEF ClientHead
        <3>2. HeadOf(kind, a) = <<c, n>>
            BY <1>1, <2>1, <2>2 DEF Plain, HeadOf
        <3>3. ServerHead(kind, a) = Pack(<<"u32", "u32">>, <<c, n>>)
            BY <1>1, <2>1, <2>2 DEF ServerHead
        <3>4. Agree
            BY <1>3, <3>1, <3>2, <3>3
        <3> QED BY <3>4 DEF Agree
    <2>3. CASE kind = "instrument_method"
        <3>0. PICK y \in Nat : y = IF a.status = "error" THEN 0 ELSE a.number
            BY <1>1
        <3>1. ClientHead(kind) = <<"u32", "u64">>
            BY <2>3 DEF ClientHead
        <3>2. HeadOf(kind, a) = <<c, y>>
            BY <2>1, <2>3, <3>0 DEF Plain, HeadOf
        <3>3. ServerHead(kind, a) = Pack(<<"u32", "u64">>, <<c, y>>)
            BY <2>1, <2>3, <3>0 DEF ServerHead
        <3>4. Agree
            BY <1>3, <3>1, <3>2, <3>3
        <3> QED BY <3>4 DEF Agree
    <2>4. CASE kind = "instrument_line"
        <3>1. ClientHead(kind) = <<"u32", "u64">>
            BY <2>4 DEF ClientHead
        <3>2. HeadOf(kind, a) = <<c, m>>
            BY <1>1, <2>1, <2>4 DEF Plain, HeadOf
        <3>3. ServerHead(kind, a) = Pack(<<"u32", "u64">>, <<c, m>>)
            BY <1>1, <2>1, <2>4 DEF ServerHead
        <3>4. Agree
            BY <1>3, <3>1, <3>2, <3>3
        <3> QED BY <3>4 DEF Agree
    <2>5. CASE kind \in {"deinstrument_method", "deinstrument_by_id", "resume", "pause_threads"}
        <3>1. ClientHead(kind) = <<"u32">>
            BY <2>5 DEF ClientHead
        <3>2. HeadOf(kind, a) = <<c>>
            BY <2>1, <2>5 DEF Plain, HeadOf
        <3>3. ServerHead(kind, a) = Pack(<<"u32">>, <<c>>)
            BY <2>1, <2>5 DEF ServerHead
        <3>4. Agree
            BY <1>2, <3>1, <3>2, <3>3
        <3> QED BY <3>4 DEF Agree
    <2> QED BY <1>6, <2>2, <2>3, <2>4, <2>5 DEF ServerStatus
<1>7. CASE kind = "get_status"
    <2>0. PICK x \in Nat, y \in Nat : x = a.number \div 2 /\ y = a.number % 2
        BY <1>1
    <2>1. ClientHead(kind) = <<"u32", "u32">>
        BY <1>7 DEF ClientHead
    <2>2. HeadOf(kind, a) = <<x, y>>
        BY <1>7, <2>0 DEF Plain, HeadOf
    <2>3. ServerHead(kind, a) = Pack(<<"u32", "u32">>, <<x, y>>)
        BY <1>7, <2>0 DEF ServerHead
    <2>4. Agree
        BY <1>3, <2>1, <2>2, <2>3
    <2> QED BY <2>4 DEF Agree
<1>8. kind \in Plain \/ kind = "get_stats" \/ kind \in DOMAIN ServerStatus \/ kind = "get_status"
    BY DEF Types, Plain, ServerStatus
<1> QED BY <1>4, <1>5, <1>6, <1>7, <1>8

\* The items of an answer as bytes.
LEMMA ItemsAreBytes ==
    ASSUME NEW kind, NEW a, AnswerParts(kind, a)
    PROVE  /\ ItemsBytes(kind, Len(a.items), a.items) \in Seq(Byte)
           /\ kind \notin Lists => Len(ItemsBytes(kind, Len(a.items), a.items)) = 0
<1>1. PICK n \in Nat : n = Len(a.items)
    BY DEF AnswerParts
<1>2. PICK seqs : seqs = [i \in 1..n |-> ItemBytes(kind, a.items[i])]
    OBVIOUS
<1>3. kind \notin Lists => n = 0
    <2>1. kind \notin Lists => a.items = <<>>
        BY Zenon DEF AnswerParts
    <2> QED BY <1>1, <2>1
<1>4. seqs \in [1..n -> Seq(Byte)]
    <2>1. CASE kind \in Lists
        <3>1. \A i \in 1..n : ItemBytes(kind, a.items[i]) \in Seq(Byte)
            BY <1>1, <2>1, ItemIsBytes DEF AnswerParts, AreItems
        <3> QED BY <1>2, <3>1
    <2>2. CASE kind \notin Lists
        <3>1. 1..n = {}
            BY <1>3, <2>2
        <3> QED BY <1>2, <3>1
    <2> QED BY <2>1, <2>2
<1>5. PICK flat : flat = FlattenSeq(seqs)
    OBVIOUS
<1>6. flat \in Seq(Byte) /\ \E off \in [0..n -> Nat] : IsPlaced(n, seqs, flat, off)
    BY <1>4, <1>5, FlatPlaces
<1>7. n = 0 => Len(flat) = 0
    BY <1>6 DEF IsPlaced
<1>8. ItemsBytes(kind, n, a.items) = flat
    BY <1>2, <1>5, Zenon DEF ItemsBytes
<1> QED BY <1>1, <1>3, <1>6, <1>7, <1>8

\* What the client library finds in an answer: its head, and the items behind it.
HasAnswer(kind, a, body) ==
    \E z \in Nat :
        /\ Unpack(body, 0, ClientHead(kind)) = Found(HeadOf(kind, a), z)
        /\ kind \in Lists =>
              \E y : ItemsAt(body, z, kind, Len(a.items)) = Found(a.items, y)
        /\ kind \notin Lists => z = Len(body)

\* The message of an answer.
LEMMA AnswerMessage ==
    ASSUME NEW kind \in DOMAIN Types, NEW a, IsAnswer(kind, a)
    PROVE  /\ PackAnswer(kind, a) \in Seq(Byte)
           /\ TypeOf(PackAnswer(kind, a)) = Types[kind] + 1
           /\ Len(PackAnswer(kind, a)) = 4 + SizeOf(PackAnswer(kind, a))
           /\ SizeOf(PackAnswer(kind, a)) \in Nat
           /\ HasAnswer(kind, a, BodyOf(PackAnswer(kind, a)))
<1>1. AnswerParts(kind, a)
    BY PartsOfAnswer
<1>2. PICK n \in Nat : n = Len(a.items)
    BY <1>1 DEF AnswerParts
<1>3. PICK head0 : head0 = HeadOf(kind, a)
    OBVIOUS
<1>4. PICK ch \in Seq(FieldNames) : ch = ClientHead(kind)
    BY <1>1, HeadsAgree
<1>5. Fills(ch, head0) /\ ServerHead(kind, a) = Pack(ch, head0)
    BY <1>1, <1>3, <1>4, HeadsAgree, Zenon
<1>6. PICK h \in Seq(Byte) : h = ServerHead(kind, a)
    BY <1>5, PackPlaces DEF Fills
<1>7. PICK flat \in Seq(Byte) : flat = ItemsBytes(kind, n, a.items)
    BY <1>1, <1>2, ItemsAreBytes
<1>8. kind \notin Lists => Len(flat) = 0
    BY <1>1, <1>2, <1>7, ItemsAreBytes, Zenon
<1>9. PICK body : body = h \o flat
    OBVIOUS
<1>10. /\ body \in Seq(Byte) /\ Len(body) = Len(h) + Len(flat)
       /\ \A i \in 1..Len(h) : body[i] = h[i]
       /\ \A j \in 1..Len(flat) : body[Len(h) + j] = flat[j]
    <2> HIDE DEF Byte
    <2>1. body \in Seq(Byte) /\ Len(body) = Len(h) + Len(flat)
        BY <1>9, Joined
    <2>2. \A i \in 1..Len(h) : body[i] = h[i]
        BY <1>9, Joined
    <2>3. \A j \in 1..Len(flat) : body[Len(h) + j] = flat[j]
        BY <1>9, Joined
    <2> QED BY <2>1, <2>2, <2>3
<1>11. PICK type \in Nat : type = Types[kind] + 1
    <2>1. Types[kind] + 1 \in Nat
        BY TypesDiffer
    <2> QED BY <2>1
<1>12. PackAnswer(kind, a) = Message(type, body)
    <2>1. DOMAIN a.items = 1..n
        BY <1>1, <1>2 DEF AnswerParts
    <2>2. FlattenSeq([i \in DOMAIN a.items |-> Pack(ServerItem(kind, a.items[i]), a.items[i])])
          = flat
        BY <1>7, <2>1, Zenon DEF ItemsBytes, ItemBytes
    <2> QED BY <1>6, <1>9, <1>11, <2>2, Zenon DEF PackAnswer
<1>13. /\ Message(type, body) \in Seq(Byte)
       /\ Len(Message(type, body)) = 4 + Len(body)
       /\ TypeOf(Message(type, body)) = type
       /\ SizeOf(Message(type, body)) = Len(body)
       /\ BodyOf(Message(type, body)) = body
    BY <1>10, MessageBytes
<1>14. PICK z \in Nat : z = Len(h)
    OBVIOUS
<1>15. Unpack(body, 0, ch) = Found(head0, z)
    <2>1. Len(h) \in Nat /\ Len(flat) \in Nat
        OBVIOUS
    <2>2. 0 + Len(h) <= Len(body)
        BY <1>10, <2>1
    <2>3. \A j \in 1..Len(h) : 0 + j = j
        OBVIOUS
    <2>4. \A j \in 1..Len(h) : body[0 + j] = h[j]
        BY <1>10, <2>3
    <2>5. IsAt(body, 0, h)
        BY <2>2, <2>4 DEF IsAt
    <2>6. IsAt(body, 0, Pack(ch, head0)) /\ body \in Seq(Byte) /\ 0 \in Nat /\ Fills(ch, head0)
        BY <1>5, <1>6, <1>10, <2>5, Zenon
    <2>7. Unpack(body, 0, ch) = Found(head0, 0 + Len(Pack(ch, head0)))
        BY ONLY <2>6, UnpackAt
    <2>8. 0 + Len(h) = z
        BY <1>14
    <2> QED BY <1>5, <1>6, <2>7, <2>8, Zenon
<1>16. ASSUME kind \in Lists
       PROVE  \E y : ItemsAt(body, z, kind, n) = Found(a.items, y)
    <2>1. IsAt(body, z, flat)
        <3>1. z + Len(flat) <= Len(body)
            BY <1>10, <1>14
        <3> QED BY <1>10, <1>14, <3>1, Zenon DEF IsAt
    <2>2. /\ IsAt(body, z, ItemsBytes(kind, n, a.items)) /\ AreItems(kind, n, a.items)
          /\ body \in Seq(Byte)
        BY <1>1, <1>2, <1>7, <1>10, <2>1, Zenon DEF AnswerParts
    <2>3. ItemsAt(body, z, kind, n)
          = Found([i \in 1..n |-> a.items[i]], z + Len(ItemsBytes(kind, n, a.items)))
        <3>1. PICK items : items = a.items
            OBVIOUS
        <3>2. IsAt(body, z, ItemsBytes(kind, n, items)) /\ AreItems(kind, n, items)
            BY <2>2, <3>1, Zenon
        <3>3. ItemsAt(body, z, kind, n)
              = Found([i \in 1..n |-> items[i]], z + Len(ItemsBytes(kind, n, items)))
            BY ONLY <1>16, <2>2, <3>2, n \in Nat, z \in Nat, ItemsFound
        <3> QED BY <3>1, <3>3, Zenon
    <2>4. a.items = [i \in 1..n |-> a.items[i]]
        BY <1>1, <1>2, Zenon DEF AnswerParts
    <2> QED BY <2>3, <2>4, Zenon
<1>17. kind \notin Lists => z = Len(body)
    BY <1>8, <1>10, <1>14
<1>18. HasAnswer(kind, a, body)
    BY <1>2, <1>3, <1>4, <1>15, <1>16, <1>17, Zenon DEF HasAnswer
<1> QED BY <1>10, <1>11, <1>12, <1>13, <1>18

\* Two digits to base two.
LEMMA Halves == ASSUME NEW m \in Nat PROVE 2 * (m \div 2) + (m % 2) = m
OBVIOUS

\* The number that the client library makes of the head of an answer without items.
NumberOf(kind, v, s) ==
    CASE kind = "get_status" -> 2 * v[1] + v[2]
      [] Len(v) = 2 /\ s # "error" /\ kind # "get_status" -> v[2]
      [] OTHER -> 0

\* What the head of an answer says: its status, how many items there are and the number.
LEMMA HeadSays ==
    ASSUME NEW kind \in DOMAIN Types, NEW a, AnswerParts(kind, a),
           NEW v, v = HeadOf(kind, a), NEW s, s = ClientStatus(kind, v[1]), NEW number,
           number = NumberOf(kind, v, s)
    PROVE  /\ s = a.status
           /\ kind \in Lists =>
                /\ Len(a.items) = IF kind = "class_methods" THEN v[2] ELSE v[1]
                /\ a.number = IF kind = "get_stats" THEN v[2] ELSE 0
           /\ kind \notin Lists => number = IF a.status = "error" THEN 0 ELSE a.number
<1> DEFINE Says == /\ s = a.status
                   /\ kind \in Lists =>
                        /\ Len(a.items) = IF kind = "class_methods" THEN v[2] ELSE v[1]
                        /\ a.number = IF kind = "get_stats" THEN v[2] ELSE 0
                   /\ kind \notin Lists => number = IF a.status = "error" THEN 0 ELSE a.number
<1> SUFFICES Says
    OBVIOUS
<1>1. PICK n \in Nat, m \in Nat : n = Len(a.items) /\ m = a.number
    BY DEF AnswerParts
<1>0. number = CASE kind = "get_status" -> 2 * v[1] + v[2]
                 [] Len(v) = 2 /\ s # "error" /\ kind # "get_status" -> v[2]
                 [] OTHER -> 0
    BY DEF NumberOf
<1>2. CASE kind \in Plain
    <2>1. v = <<n>>
        BY <1>1, <1>2 DEF Plain, HeadOf
    <2>2. s = "ok" /\ a.status = "ok" /\ a.number = 0
        BY <1>2 DEF Plain, ClientStatus, AnswerParts, ServerStatus
    <2>3. kind \in Lists /\ kind # "class_methods" /\ kind # "get_stats"
        BY <1>2 DEF Plain, Lists
    <2> QED BY <1>1, <2>1, <2>2, <2>3
<1>3. CASE kind = "get_stats"
    <2>1. v = <<n, m>>
        BY <1>1, <1>3 DEF Plain, HeadOf
    <2>2. s = "ok" /\ a.status = "ok"
        BY <1>3 DEF ClientStatus, AnswerParts, ServerStatus
    <2>3. kind \in Lists
        BY <1>3 DEF Lists
    <2> QED BY <1>1, <1>3, <2>1, <2>2, <2>3
<1>4. CASE kind = "get_status"
    <2>1. v = <<m \div 2, m % 2>>
        BY <1>1, <1>4 DEF Plain, HeadOf
    <2>2. a.status = "ok" /\ s = "ok"
        BY <1>4 DEF ClientStatus, AnswerParts, ServerStatus
    <2>3. kind \notin Lists
        BY <1>4 DEF Lists
    <2>4. 2 * (m \div 2) + (m % 2) = m
        BY ONLY m \in Nat, Halves
    <2>5. 2 * v[1] + v[2] = m
        BY <2>1, <2>4
    <2> QED BY <1>0, <1>1, <1>4, <2>2, <2>3, <2>5
<1>5. CASE kind \in DOMAIN ServerStatus
    <2>1. PICK c \in Nat : c = Code(kind, a.status) /\ ClientStatus(kind, c) = a.status
        BY <1>5 DEF AnswerParts
    <2>2. CASE kind = "class_methods"
        <3>1. v = <<c, n>>
            BY <1>1, <2>1, <2>2 DEF Plain, HeadOf
        <3>2. a.number = 0 /\ kind \in Lists
            BY <2>2 DEF AnswerParts, Lists
        <3>3. s = a.status
            BY <2>1, <3>1
        <3> QED BY <1>1, <2>2, <3>1, <3>2, <3>3
    <2>3. CASE kind = "instrument_method"
        <3>1. v = <<c, IF a.status = "error" THEN 0 ELSE m>>
            BY <1>1, <2>1, <2>3 DEF Plain, HeadOf
        <3>2. kind \notin Lists /\ kind # "get_status"
            BY <2>3 DEF Lists
        <3>3. s = a.status /\ Len(v) = 2
            BY <2>1, <3>1
        <3>4. s # "error" => v[2] = m
            BY <3>1, <3>3
        <3> QED BY <1>0, <1>1, <3>2, <3>3, <3>4
    <2>4. CASE kind = "instrument_line"
        <3>1. v = <<c, m>>
            BY <1>1, <2>1, <2>4 DEF Plain, HeadOf
        <3>2. kind \notin Lists /\ kind # "get_status"
            BY <2>4 DEF Lists
        <3>3. s = a.status /\ Len(v) = 2 /\ v[2] = m
            BY <2>1, <3>1
        <3> QED BY <1>0, <1>1, <3>2, <3>3
    <2>5. CASE kind \in {"deinstrument_method", "deinstrument_by_id", "resume", "pause_threads"}
        <3>1. v = <<c>>
            BY <2>1, <2>5 DEF Plain, HeadOf
        <3>2. a.number = 0 /\ kind \notin Lists /\ kind # "get_status"
            BY <2>5 DEF AnswerParts, Lists
        <3>3. s = a.status /\ Len(v) = 1
            BY <2>1, <3>1
        <3> QED BY <1>0, <3>2, <3>3
    <2> QED BY <1>5, <2>2, <2>3, <2>4, <2>5 DEF ServerStatus
<1>6. kind \in Plain \/ kind = "get_stats" \/ kind \in DOMAIN ServerStatus \/ kind = "get_status"
    BY DEF Types, Plain, ServerStatus
<1> QED BY <1>2, <1>3, <1>4, <1>5, <1>6

\* The client library returns every answer as the server made it, but for the id of
\* an error: the two have the layouts of the answers twice, in Python and in C
\* (prof_client.py:206-596, uif-response.c:33-423, ProfilerRegistry.java:89-125).
THEOREM AnswersAreUnderstood ==
    ASSUME NEW kind \in DOMAIN Types, NEW a, IsAnswer(kind, a)
    PROVE  ReadAnswer(kind, TypeOf(PackAnswer(kind, a)), BodyOf(PackAnswer(kind, a)))
           = IF a.status = "error" THEN [a EXCEPT !.number = 0] ELSE a
<1>1. AnswerParts(kind, a)
    BY PartsOfAnswer
<1>2. PICK body, type : /\ body = BodyOf(PackAnswer(kind, a))
                        /\ type = TypeOf(PackAnswer(kind, a))
    OBVIOUS
<1>3. type = Types[kind] + 1 /\ HasAnswer(kind, a, body)
    BY <1>2, AnswerMessage
<1>4. PICK z \in Nat :
        /\ Unpack(body, 0, ClientHead(kind)) = Found(HeadOf(kind, a), z)
        /\ kind \in Lists => \E y : ItemsAt(body, z, kind, Len(a.items)) = Found(a.items, y)
        /\ kind \notin Lists => z = Len(body)
    BY <1>3, Zenon DEF HasAnswer
<1>5. PICK front, v : front = Unpack(body, 0, ClientHead(kind)) /\ v = HeadOf(kind, a)
    OBVIOUS
<1>6. front.ok /\ front.value = v /\ front.next = z
    BY <1>4, <1>5 DEF Found
<1>7. PICK n, s : /\ n = IF kind = "class_methods" THEN v[2] ELSE v[1]
                  /\ s = ClientStatus(kind, v[1])
    OBVIOUS
<1>8. PICK items : items = ItemsAt(body, z, kind, n)
    OBVIOUS
<1>9. PICK number : number = NumberOf(kind, v, s)
    OBVIOUS
<1>10. ReadAnswer(kind, type, body)
       = CASE type # Types[kind] + 1 \/ ~front.ok -> Raised
           [] type = Types[kind] + 1 /\ front.ok /\ kind \in Lists ->
                 IF s # "ok" THEN Outcome(s, 0, <<>>)
                 ELSE IF items.ok
                      THEN Outcome(s, IF kind = "get_stats" THEN v[2] ELSE 0, items.value)
                      ELSE Raised
           [] type = Types[kind] + 1 /\ front.ok /\ kind \notin Lists ->
                 IF z # Len(body) THEN Raised ELSE Outcome(s, number, <<>>)
    BY <1>5, <1>6, <1>7, <1>8, <1>9, Zenon DEF ReadAnswer, NumberOf
<1>11. /\ s = a.status
       /\ kind \in Lists =>
            /\ Len(a.items) = n
            /\ a.number = IF kind = "get_stats" THEN v[2] ELSE 0
       /\ kind \notin Lists => number = IF a.status = "error" THEN 0 ELSE a.number
    <2>1. /\ AnswerParts(kind, a) /\ v = HeadOf(kind, a) /\ s = ClientStatus(kind, v[1])
          /\ number = NumberOf(kind, v, s)
        BY <1>1, <1>5, <1>7, <1>9
    <2>2. /\ s = a.status
          /\ kind \in Lists =>
               /\ Len(a.items) = IF kind = "class_methods" THEN v[2] ELSE v[1]
               /\ a.number = IF kind = "get_stats" THEN v[2] ELSE 0
          /\ kind \notin Lists => number = IF a.status = "error" THEN 0 ELSE a.number
        BY ONLY <2>1, kind \in DOMAIN Types, HeadSays
    <2>3. n = IF kind = "class_methods" THEN v[2] ELSE v[1]
        BY <1>7
    <2> QED BY <2>2, <2>3, Zenon
<1>12. PICK x : x = IF a.status = "error" THEN [a EXCEPT !.number = 0] ELSE a
    OBVIOUS
<1>13. x = Outcome(s, IF s = "error" THEN 0 ELSE a.number, a.items)
    BY <1>1, <1>11, <1>12 DEF AnswerParts, Outcome
<1>14. CASE kind \in Lists
    <2>1. ReadAnswer(kind, type, body)
          = IF s # "ok" THEN Outcome(s, 0, <<>>)
            ELSE IF items.ok THEN Outcome(s, IF kind = "get_stats" THEN v[2] ELSE 0, items.value)
                             ELSE Raised
        BY <1>3, <1>6, <1>10, <1>14
    <2>2. CASE s # "ok"
        <3>1. a.items = <<>>
            BY <1>1, <1>11, <2>2 DEF AnswerParts
        <3>2. a.number = 0
            BY <1>1, <1>11, <1>14, <2>2 DEF AnswerParts, Lists, ServerStatus
        <3>3. ReadAnswer(kind, type, body) = Outcome(s, 0, <<>>)
            BY <2>1, <2>2, Zenon
        <3>4. (IF s = "error" THEN 0 ELSE a.number) = 0
            BY <3>2
        <3> QED BY <1>2, <1>12, <1>13, <3>1, <3>3, <3>4, Zenon
    <2>3. CASE s = "ok"
        <3>1. PICK y : items = Found(a.items, y)
            BY <1>4, <1>8, <1>11, <1>14, Zenon
        <3>2. items.ok /\ items.value = a.items
            BY <3>1 DEF Found
        <3>3. ReadAnswer(kind, type, body) = Outcome(s, a.number, a.items)
            BY <1>11, <1>14, <2>1, <2>3, <3>2, Zenon
        <3>4. (IF s = "error" THEN 0 ELSE a.number) = a.number
            BY <2>3
        <3> QED BY <1>2, <1>12, <1>13, <3>3, <3>4, Zenon
    <2> QED BY <2>2, <2>3
<1>15. CASE kind \notin Lists
    <2>1. ReadAnswer(kind, type, body)
          = IF z # Len(body) THEN Raised ELSE Outcome(s, number, <<>>)
        BY <1>3, <1>6, <1>10, <1>15
    <2>2. z = Len(body) /\ a.items = <<>>
        BY <1>1, <1>4, <1>15, Zenon DEF AnswerParts
    <2>3. ReadAnswer(kind, type, body) = Outcome(s, number, a.items)
        BY <2>1, <2>2, Zenon
    <2> QED BY <1>2, <1>11, <1>12, <1>13, <1>15, <2>3, Zenon
<1> QED BY <1>14, <1>15

-----------------------------------------------------------------------------
(* What a read and a write do with a sequence of bytes.                    *)

\* First and Others cut a sequence in two.
LEMMA CutBytes ==
    ASSUME NEW s \in Seq(Byte), NEW n \in Nat, n <= Len(s)
    PROVE  /\ First(s, n) \in Seq(Byte) /\ Len(First(s, n)) = n
           /\ Others(s, n) \in Seq(Byte)
  BY DEF First, Others

\* A read or a write takes a number of bytes that is there.
LEMMA SomeBytes ==
    ASSUME NEW a \in Nat, NEW b \in Int, NEW n \in Some(a, b)
    PROVE  n \in Nat /\ n > 0 /\ n <= a /\ n <= b
<1>1. Min({a, b}) \in {a, b} /\ Min({a, b}) <= a /\ Min({a, b}) <= b
  <2>1. \E x \in {a, b} : \A y \in {a, b} : x <= y
    OBVIOUS
  <2>2. QED BY <2>1 DEF Min
<1>2. QED BY <1>1 DEF Some

\* The size in a header is a number, whatever the bytes are.
LEMMA SizeIsNat ==
    ASSUME NEW s \in Seq(Byte), Len(s) = HeaderSize
    PROVE  SizeOf(s) \in Nat
<1>1. HeaderSize = 4 /\ Width.u32 = 2
  BY DEF HeaderSize, Width
<1>2. s[3] \in Byte
  <2>1. s \in Seq(Byte) /\ Len(s) = 4
    BY <1>1
  <2> HIDE DEF Byte
  <2>2. QED BY ONLY <2>1
<1>3. s[3][1] \in Nat
  BY <1>2 DEF Byte
<1>4. QED BY <1>1, <1>3 DEF SizeOf, NumberAt
-----------------------------------------------------------------------------
(* The invariant.                                                          *)

\* A header has bytes.
LEMMA HeaderIsNat == HeaderSize \in Nat /\ HeaderSize > 0
BY DEF HeaderSize, Width

\* A client that is accepted has a buffer for a header.
LEMMA InitIInv == Init => IInv
<1> SUFFICES ASSUME Init PROVE IInv
  OBVIOUS
<1>1. QED BY HeaderIsNat DEF Init, IInv, BuffersFit

\* What a client asks can be sent.
LEMMA AskedIsBytes ==
    ASSUME IInv, NEW k \in Clients, asked[k] # None
    PROVE  PackRequest(asked[k]) \in Seq(Byte)
BY RequestMessage, EnvsAssumption DEF IInv, E

\* A step of the listener: the buffer is big enough for what it says it will
\* read, and the header cannot be taken for a whole message that has a body.
LEMMA ReadKeeps ==
    ASSUME IInv, NEW k \in Clients, Read(k)
    PROVE  IInv'
<1> USE HeaderIsNat
<1>1. UNCHANGED <<env, asked, out>>
  BY DEF Read, library
<1>2. PICK n \in Some(Len(toServer[k]), expected[k] - Len(buf[k])) :
        LET got == buf[k] \o First(toServer[k], n)
            want == IF Len(got) = HeaderSize THEN HeaderSize + SizeOf(got) ELSE expected[k]
            tooLong == want > HeaderSize + MaxBody
        IN  \/ tooLong /\ CloseClient(k)
            \/ want > alloc[k] /\ E.faults /\ CloseClient(k)
            \/ /\ ~tooLong
               /\ TakeIn(k, got, want)
               /\ toServer' = [toServer EXCEPT ![k] = Others(@, n)]
               /\ UNCHANGED toClient
  BY DEF Read
<1> DEFINE got == buf[k] \o First(toServer[k], n)
           want == IF Len(got) = HeaderSize THEN HeaderSize + SizeOf(got) ELSE expected[k]
<1>3. toServer[k] \in Seq(Byte) /\ buf[k] \in Seq(Byte) /\ expected[k] \in Nat
  BY DEF IInv
<1>4. n \in Nat /\ n <= Len(toServer[k]) /\ n <= expected[k] - Len(buf[k])
  BY <1>3, SomeBytes
<1>5. First(toServer[k], n) \in Seq(Byte) /\ Len(First(toServer[k], n)) = n
      /\ Others(toServer[k], n) \in Seq(Byte)
  BY <1>3, <1>4, CutBytes
<1>6. got \in Seq(Byte) /\ Len(got) = Len(buf[k]) + n /\ Len(got) <= expected[k]
  <2>1. ASSUME NEW s \in Seq(Byte), NEW t \in Seq(Byte)
        PROVE  s \o t \in Seq(Byte) /\ Len(s \o t) = Len(s) + Len(t) /\ Len(s) \in Nat
    OBVIOUS
  <2>2. got \in Seq(Byte) /\ Len(got) = Len(buf[k]) + Len(First(toServer[k], n))
        /\ Len(buf[k]) \in Nat
    BY <1>3, <1>5, <2>1
  <2> HIDE DEF got
  <2>3. QED BY <1>3, <1>4, <1>5, <2>2
<1>7. want \in Nat /\ Len(got) <= want
  <2>1. want = IF Len(got) = HeaderSize THEN HeaderSize + SizeOf(got) ELSE expected[k]
    OBVIOUS
  <2> HIDE DEF got, want
  <2>2. Len(got) \in Nat
    BY <1>6
  <2>3. Len(got) = HeaderSize => SizeOf(got) \in Nat
    BY <1>6, SizeIsNat
  <2>4. QED BY <1>3, <1>6, <2>1, <2>2, <2>3
<1>8. CASE CloseClient(k)
  BY <1>1, <1>8 DEF CloseClient, IInv, BuffersFit, E
<1>9. CASE /\ TakeIn(k, got, want)
           /\ toServer' = [toServer EXCEPT ![k] = Others(@, n)]
  <2> HIDE DEF got, want
  <2>1. Grown(k, want) \in Nat /\ Grown(k, want) >= want /\ Grown(k, want) >= alloc[k]
    BY <1>7 DEF IInv, Grown
  <2>2. alloc' = [alloc EXCEPT ![k] = Grown(k, want)]
    BY <1>9 DEF TakeIn
  <2>3. CASE Len(got) = want
    <3>1. buf' = [buf EXCEPT ![k] = <<>>] /\ expected' = [expected EXCEPT ![k] = HeaderSize]
      BY <1>9, <2>3 DEF TakeIn
    <3>2. QED BY <1>1, <1>5, <1>9, <2>1, <2>2, <3>1 DEF IInv, BuffersFit, E
  <2>4. CASE Len(got) # want
    <3>1. buf' = [buf EXCEPT ![k] = got] /\ expected' = [expected EXCEPT ![k] = want]
      BY <1>9, <2>4 DEF TakeIn
    <3>2. Len(got) < want
      BY <1>6, <1>7, <2>4
    <3>3. QED BY <1>1, <1>5, <1>6, <1>7, <1>9, <2>1, <2>2, <3>1, <3>2, SMTT(30)
                 DEF IInv, BuffersFit, E
  <2>5. QED BY <2>3, <2>4
<1>10. QED BY <1>2, <1>8, <1>9

\* Every step keeps the invariant; only those of the listener touch a buffer.
LEMMA StepIInv == IInv /\ [Next]_vars => IInv'
<1> SUFFICES ASSUME IInv, [Next]_vars PROVE IInv'
  OBVIOUS
<1> USE HeaderIsNat
<1>1. ASSUME NEW k \in Clients, Begin(k) PROVE IInv'
  BY <1>1, RequestMessage, EnvsAssumption DEF Begin, IInv, BuffersFit, E, sockets, context
<1>2. ASSUME NEW k \in Clients, Send(k) PROVE IInv'
  <2>1. PICK n \in Some(Len(out[k]), E.cap - Len(toServer[k])) :
            /\ toServer' = [toServer EXCEPT ![k] = @ \o First(out[k], n)]
            /\ out' = [out EXCEPT ![k] = Others(@, n)]
    BY <1>2 DEF Send
  <2>2. n \in Nat /\ n <= Len(out[k])
    <3>1. E.cap - Len(toServer[k]) \in Int /\ Len(out[k]) \in Nat
      BY RequestMessage, EnvsAssumption DEF IInv, E
    <3>2. QED BY <2>1, <3>1, SomeBytes
  <2>3. /\ First(out[k], n) \in Seq(Byte) /\ Others(out[k], n) \in Seq(Byte)
        /\ toServer[k] \in Seq(Byte)
    BY <2>2, CutBytes DEF IInv
  <2>4. toServer[k] \o First(out[k], n) \in Seq(Byte)
    BY <2>3
  <2>5. UNCHANGED <<env, asked, buf, expected, alloc>>
    BY <1>2 DEF Send, context
  <2>6. QED BY <2>1, <2>3, <2>4, <2>5 DEF IInv, BuffersFit, E
<1>3. ASSUME NEW k \in Clients, Receive(k) PROVE IInv'
  BY <1>3 DEF Receive, IInv, BuffersFit, E, context
<1>4. ASSUME NEW k \in Clients, Broken(k) PROVE IInv'
  <2>1. UNCHANGED <<env, toServer, buf, expected, alloc>>
    BY <1>4 DEF Broken, context
  <2>2. PackRequest(asked[k]) \in Seq(Byte)
    BY <1>4, AskedIsBytes DEF Broken
  <2>3. /\ \/ asked' = asked \/ asked' = [asked EXCEPT ![k] = None]
        /\ \/ out' = [out EXCEPT ![k] = PackRequest(asked[k])]
           \/ out' = [out EXCEPT ![k] = <<>>]
    BY <1>4 DEF Broken
  <2>4. asked' \in [Clients -> E.requests \cup {None}]
    BY <2>3 DEF IInv
  <2>5. out' \in [Clients -> Seq(Byte)]
    <3>1. <<>> \in Seq(Byte) /\ out \in [Clients -> Seq(Byte)]
      BY DEF IInv
    <3> HIDE DEF Byte
    <3>2. QED BY <2>2, <2>3, <3>1
  <2>6. QED BY <2>1, <2>4, <2>5 DEF IInv, BuffersFit, E
<1>5. ASSUME NEW k \in Clients, Read(k) PROVE IInv'
  BY <1>5, ReadKeeps
<1>6. CASE EventLoop \/ LoadClass \/ WakeSpuriously \/ UNCHANGED vars
  BY <1>6 DEF EventLoop, Wait, Dispatch, Write, LoadClass, WakeSpuriously, vars, IInv,
              BuffersFit, E, library, sockets, context
<1>7. QED BY <1>1, <1>2, <1>3, <1>4, <1>5, <1>6 DEF Next, Library, Listener

\* The listener reads into buffers that are big enough, in every environment.
THEOREM BuffersFitHolds == Spec => []BuffersFit
<1>1. IInv => BuffersFit
  BY DEF IInv
<1>2. QED BY <1>1, InitIInv, StepIInv, PTL DEF Spec

\* A client that is stopped anywhere in its request has asked for nothing: no
\* handler takes an argument from bytes that have not come
\* (ps-uif-handler.c:31-243).
THEOREM CutOffIsRefusedHolds == Spec => []CutOffIsRefused
<1>1. IInv => CutOffIsRefused
    <2> SUFFICES ASSUME IInv, NEW k \in Clients, asked[k] # None,
                        NEW n \in HeaderSize..(Len(PackRequest(asked[k])) - 1)
                 PROVE  ParseRequest(TypeOf(PackRequest(asked[k])),
                                     BodyOf(First(PackRequest(asked[k]), n))) = Refused
        BY DEF CutOffIsRefused
    <2>1. PICK r : r = asked[k]
        OBVIOUS
    <2>2. IsRequest(r)
        BY <2>1, EnvsAssumption DEF IInv, E
    <2>3. HeaderSize = 4 /\ n \in 4..(Len(PackRequest(r)) - 1)
        BY <2>1, <2>2, RequestMessage
    <2> QED BY <2>1, <2>2, <2>3, RequestCut, Zenon DEF First
<1>2. QED BY <1>1, InitIInv, StepIInv, PTL DEF Spec

-----------------------------------------------------------------------------
(* The nodes of the queue.                                                 *)

\* A list of n nodes, s[1] to s[n], none of them twice.
IsList(first, n, s) ==
    /\ s \in [1..n -> Nodes]
    /\ \A i, j \in 1..n : s[i] = s[j] => i = j
    /\ first = IF n = 0 THEN 0 ELSE s[1]
    /\ \A i \in 1..n : next[s[i]] = IF i = n THEN 0 ELSE s[i + 1]

\* The queue s and the list f of the free nodes have what was made, each node once.
TwoLists(n, s, m, f) ==
    /\ IsList(head, n, s) /\ IsList(free, m, f)
    /\ tail = IF n = 0 THEN 0 ELSE s[n]
    /\ made \in 0..MaxNodes
    /\ next \in [Nodes -> 0..MaxNodes]
    /\ \A i \in 1..n, j \in 1..m : s[i] # f[j]
    /\ \A x \in Nodes : x <= made <=> (\E i \in 1..n : s[i] = x) \/ (\E j \in 1..m : f[j] = x)

QInv == \E n, m \in Nat : \E s \in [1..n -> Nodes], f \in [1..m -> Nodes] : TwoLists(n, s, m, f)

\* At first all nodes are free.
LEMMA InitQInv == ASSUME NEW none, InitQueue(none) PROVE QInv
<1> DEFINE m == InitialNodes
           s == [i \in 1..0 |-> 0]
           f == [i \in 1..m |-> m + 1 - i]
<1>1. /\ m \in Nat /\ MaxNodes \in Nat /\ m <= MaxNodes /\ head = 0 /\ tail = 0 /\ free = m
      /\ made = m /\ next = [k \in Nodes |-> IF k <= m THEN k - 1 ELSE 0]
    BY NodesAssumption DEF InitQueue
<1>2. f \in [1..m -> Nodes] /\ s \in [1..0 -> Nodes]
    BY <1>1 DEF Nodes
<1>3. next \in [Nodes -> 0..MaxNodes]
    BY <1>1 DEF Nodes
<1>4. IsList(head, 0, s)
    BY <1>1, <1>2 DEF IsList
<1>5. IsList(free, m, f)
    <2>1. \A i, j \in 1..m : f[i] = f[j] => i = j
        BY <1>1
    <2>2. \A i \in 1..m : next[f[i]] = IF i = m THEN 0 ELSE f[i + 1]
        BY <1>1, <1>2 DEF Nodes
    <2>3. free = IF m = 0 THEN 0 ELSE f[1]
        BY <1>1
    <2> QED BY <1>2, <2>1, <2>2, <2>3 DEF IsList
<1>6. \A x \in Nodes : x <= made <=> (\E i \in 1..0 : s[i] = x) \/ (\E j \in 1..m : f[j] = x)
    <2> SUFFICES ASSUME NEW x \in Nodes PROVE x <= m <=> \E j \in 1..m : f[j] = x
        BY <1>1
    <2>1. ASSUME x <= m PROVE \E j \in 1..m : f[j] = x
        <3>1. m + 1 - x \in 1..m /\ f[m + 1 - x] = x
            BY <1>1, <2>1 DEF Nodes
        <3> QED BY <3>1
    <2> QED BY <1>1, <2>1
<1>7. TwoLists(0, s, m, f)
    <2> HIDE DEF s, f
    <2> QED BY <1>1, <1>3, <1>4, <1>5, <1>6 DEF TwoLists
<1> QED BY <1>1, <1>2, <1>7 DEF QInv

\* The list t is s with the node x behind it, with x in front, or without its first.
Behind(t, n, s, x)  == t[n + 1] = x /\ \A i \in 1..n : t[i] = s[i]
InFront(t, n, s, x) == t[1] = x /\ \A i \in 1..n : t[i + 1] = s[i]
Rest(t, n, s)       == \A i \in 1..n - 1 : t[i] = s[i + 1]

\* There are such lists.
LEMMA ListOps ==
    ASSUME NEW n \in Nat, NEW s \in [1..n -> Nodes], NEW x \in Nodes
    PROVE  /\ \E t \in [1..n + 1 -> Nodes] : Behind(t, n, s, x)
           /\ \E t \in [1..n + 1 -> Nodes] : InFront(t, n, s, x)
           /\ \E t \in [1..n - 1 -> Nodes] : Rest(t, n, s)
<1>1. \E t \in [1..n + 1 -> Nodes] : Behind(t, n, s, x)
    <2> DEFINE t == [i \in 1..n + 1 |-> IF i = n + 1 THEN x ELSE s[i]]
    <2>1. t \in [1..n + 1 -> Nodes] /\ Behind(t, n, s, x)
        BY DEF Behind
    <2> QED BY <2>1
<1>2. \E t \in [1..n + 1 -> Nodes] : InFront(t, n, s, x)
    <2> DEFINE t == [i \in 1..n + 1 |-> IF i = 1 THEN x ELSE s[i - 1]]
    <2>1. t \in [1..n + 1 -> Nodes] /\ InFront(t, n, s, x)
        BY DEF InFront
    <2> QED BY <2>1
<1>3. \E t \in [1..n - 1 -> Nodes] : Rest(t, n, s)
    <2> DEFINE t == [i \in 1..n - 1 |-> s[i + 1]]
    <2>1. t \in [1..n - 1 -> Nodes] /\ Rest(t, n, s)
        BY DEF Rest
    <2> QED BY <2>1
<1> QED BY <1>1, <1>2, <1>3

\* What Nth steps through, as a function of how far it is behind the first.
NthStep(first, g, j) ==
    IF j = 0 THEN first ELSE IF g[j - 1] = 0 THEN 0 ELSE next[g[j - 1]]
IsNth(first, g) == g = [j \in 0..MaxNodes |-> NthStep(first, g, j)]

\* Stepping through a list gives its nodes, and 0 behind the last of them.
LEMMA NthOfList ==
    ASSUME NEW n \in Nat, NEW s \in [1..n -> Nodes], NEW first, IsList(first, n, s)
    PROVE  \A i \in 0..MaxNodes : Nth(first, i) = IF i < n THEN s[i + 1] ELSE 0
<1> DEFINE h == [i \in 0..MaxNodes |-> IF i < n THEN s[i + 1] ELSE 0]
           g == CHOOSE f : IsNth(first, f)
<1>1. MaxNodes \in Nat /\ 0 \notin Nodes
    BY NodesAssumption DEF Nodes
<1>2. ASSUME NEW j \in 0..MaxNodes PROVE h[j] = NthStep(first, h, j)
    <2>1. CASE j = 0
        BY <1>1, <2>1 DEF NthStep, IsList
    <2>2. CASE j > 0 /\ j - 1 < n
        <3>1. j - 1 \in 0..MaxNodes /\ j \in 1..n /\ (j - 1) + 1 = j
            BY <1>1, <2>2
        <3>2. h[j - 1] = s[j] /\ s[j] # 0
            BY <1>1, <2>2, <3>1
        <3>3. next[s[j]] = IF j = n THEN 0 ELSE s[j + 1]
            BY <3>1 DEF IsList
        <3>4. h[j] = IF j < n THEN s[j + 1] ELSE 0
            OBVIOUS
        <3> HIDE DEF h
        <3>5. NthStep(first, h, j) = IF j = n THEN 0 ELSE s[j + 1]
            BY <2>2, <3>2, <3>3 DEF NthStep
        <3> QED BY <3>1, <3>4, <3>5
    <2>3. CASE j > 0 /\ ~(j - 1 < n)
        <3>1. j - 1 \in 0..MaxNodes /\ ~(j < n)
            BY <1>1, <2>3
        <3>2. h[j - 1] = 0 /\ h[j] = 0
            BY <2>3, <3>1
        <3> HIDE DEF h
        <3> QED BY <2>3, <3>2 DEF NthStep
    <2> QED BY <2>1, <2>2, <2>3
<1>3. IsNth(first, h)
    <2> DEFINE e == [j \in 0..MaxNodes |-> NthStep(first, h, j)]
    <2>1. h = e
        <3>1. \A j \in 0..MaxNodes : h[j] = e[j]
            BY <1>2
        <3> QED BY <3>1
    <2> QED BY <2>1 DEF IsNth
<1>4. IsNth(first, g)
    <2> HIDE DEF h
    <2> QED BY <1>3
<1>5. \A j \in 0..MaxNodes : g[j] = NthStep(first, g, j)
    <2> HIDE DEF g
    <2> QED BY <1>4 DEF IsNth
<1> DEFINE D == {j \in 0..MaxNodes : g[j] # h[j]}
<1>6. D = {}
    <2> SUFFICES ASSUME D # {} PROVE FALSE
        OBVIOUS
    <2>1. D \in SUBSET Nat
        BY <1>1
    <2>2. PICK j \in D : \A i \in D : j <= i
        <3> HIDE DEF D
        <3> QED BY <2>1, LeastNumber
    <2>3. j \in 0..MaxNodes /\ g[j] # h[j]
        OBVIOUS
    <2> HIDE DEF g, h
    <2>4. j = 0 \/ (j - 1 \in 0..MaxNodes /\ g[j - 1] = h[j - 1])
        <3>1. j # 0 => j - 1 \in 0..MaxNodes /\ ~(j <= j - 1)
            BY <1>1, <2>3
        <3> QED BY <2>2, <3>1
    <2>5. NthStep(first, g, j) = NthStep(first, h, j)
        BY <2>4 DEF NthStep
    <2> QED BY <1>2, <1>5, <2>3, <2>5
<1>7. \A i \in 0..MaxNodes : Nth(first, i) = g[i]
    BY DEF Nth, IsNth, NthStep
<1> HIDE DEF g
<1> QED BY <1>6, <1>7

\* A list has no more nodes than there are.
LEMMA ListEnds ==
    ASSUME NEW n \in Nat, NEW s \in [1..n -> Nodes], NEW first, IsList(first, n, s)
    PROVE  /\ n <= MaxNodes
           /\ Nth(first, MaxNodes) = 0
           /\ \A x : x \in From(first) <=> \E i \in 1..n : s[i] = x
<1>1. MaxNodes \in Nat /\ 0 \notin Nodes
    BY NodesAssumption DEF Nodes
<1>2. n <= MaxNodes
    <2>1. s \in Injection(1..n, 1..MaxNodes)
        <3>1. s \in [1..n -> 1..MaxNodes] /\ DOMAIN s = 1..n
            BY DEF Nodes
        <3>2. \A i, j \in 1..n : s[i] = s[j] => i = j
            BY DEF IsList
        <3> QED BY <3>1, <3>2 DEF Injection, IsInjective
    <2>2. /\ IsFiniteSet(1..MaxNodes) /\ Cardinality(1..MaxNodes) = MaxNodes
          /\ Cardinality(1..n) = n
        <3>1. 0 \in Int /\ 1 \in Int /\ n \in Int /\ MaxNodes \in Int
            BY <1>1
        <3>2. /\ IsFiniteSet(1..MaxNodes)
              /\ Cardinality(1..MaxNodes) = IF 1 > MaxNodes THEN 0 ELSE MaxNodes - 1 + 1
              /\ Cardinality(1..n) = IF 1 > n THEN 0 ELSE n - 1 + 1
            BY <3>1, FS_Interval
        <3> QED BY <1>1, <3>2
    <2> QED BY <2>1, <2>2, FS_Injection
<1>3. \A i \in 0..MaxNodes : Nth(first, i) = IF i < n THEN s[i + 1] ELSE 0
    BY NthOfList
<1>4. Nth(first, MaxNodes) = 0
    BY <1>1, <1>2, <1>3
<1>5. ASSUME NEW i \in 1..n PROVE s[i] \in From(first)
    <2>1. i - 1 \in 0..MaxNodes /\ i - 1 < n /\ (i - 1) + 1 = i
        BY <1>1, <1>2
    <2>2. Nth(first, i - 1) = s[i] /\ s[i] # 0
        BY <1>1, <1>3, <2>1
    <2> QED BY <2>1, <2>2 DEF From
<1>6. ASSUME NEW x \in From(first) PROVE \E i \in 1..n : s[i] = x
    <2>1. PICK i \in 0..MaxNodes : x = Nth(first, i) /\ x # 0
        BY DEF From
    <2>2. i < n /\ x = s[i + 1]
        BY <1>3, <2>1
    <2>3. i + 1 \in 1..n
        BY <2>2
    <2> QED BY <2>2, <2>3
<1> QED BY <1>2, <1>4, <1>5, <1>6

\* What From makes of a list.
ListsEnd ==
    \A n \in Nat : \A s \in [1..n -> Nodes] : \A first :
        IsList(first, n, s) => \A x : x \in From(first) <=> \E i \in 1..n : s[i] = x

LEMMA ListsEndNow == ListsEnd
BY ListEnds DEF ListsEnd

LEMMA ListsEndNext == ListsEnd'
BY ListsEndNow, PTL

\* What is pushed goes behind the others, in a node that was free or is new.
LEMMA PushKeeps ==
    ASSUME QInv, NEW msg, Push(msg)
    PROVE  /\ QInv' /\ NewNode \in Nodes /\ NewNode \notin From(head)
           /\ From(head)' = From(head) \cup {NewNode}
<1>1. PICK n \in Nat, m \in Nat : \E s \in [1..n -> Nodes], f \in [1..m -> Nodes] : TwoLists(n, s, m, f)
    BY DEF QInv
<1>2. PICK s \in [1..n -> Nodes], f \in [1..m -> Nodes] : TwoLists(n, s, m, f)
    BY <1>1
<1>3. PICK x : x = NewNode
    OBVIOUS
<1>4. /\ MaxNodes \in Nat /\ Nodes = 1..MaxNodes /\ made \in 0..MaxNodes
      /\ next \in [Nodes -> 0..MaxNodes]
      /\ tail = IF n = 0 THEN 0 ELSE s[n]
      /\ head = IF n = 0 THEN 0 ELSE s[1]
      /\ free = IF m = 0 THEN 0 ELSE f[1]
      /\ \A i, j \in 1..n : s[i] = s[j] => i = j
      /\ \A i, j \in 1..m : f[i] = f[j] => i = j
    BY <1>2, NodesAssumption DEF TwoLists, IsList, Nodes
<1>5. /\ \A i \in 1..n : next[s[i]] = IF i = n THEN 0 ELSE s[i + 1]
      /\ \A i \in 1..m : next[f[i]] = IF i = m THEN 0 ELSE f[i + 1]
      /\ \A i \in 1..n, j \in 1..m : s[i] # f[j]
      /\ \A y \in Nodes : y <= made <=> (\E i \in 1..n : s[i] = y) \/ (\E j \in 1..m : f[j] = y)
    BY <1>2 DEF TwoLists, IsList
<1>6. /\ next' = [k \in Nodes |-> IF k = x THEN 0 ELSE IF k = tail THEN x ELSE next[k]]
      /\ head' = IF tail # 0 THEN head ELSE x
      /\ tail' = x
    BY <1>3 DEF Push
<1>7. \/ m > 0 /\ x = f[1] /\ free' = next[free] /\ made' = made
      \/ m = 0 /\ x = made + 1 /\ made < MaxNodes /\ free' = 0 /\ made' = made + 1
    BY <1>3, <1>4 DEF Push, AllocNode, NewNode
<1>8. x \in Nodes /\ made' \in 0..MaxNodes /\ n + 1 \in Nat
    <2>1. MaxNodes \in Nat /\ Nodes = 1..MaxNodes /\ made \in 0..MaxNodes
        BY <1>4
    <2>2. CASE m > 0 /\ x = f[1] /\ made' = made
        <3>1. 1 \in 1..m
            BY <2>2
        <3> QED BY <2>1, <2>2, <3>1
    <2>3. CASE x = made + 1 /\ made < MaxNodes /\ made' = made + 1
        BY <2>1, <2>3
    <2> QED BY <1>7, <2>2, <2>3
<1>s. PICK s2 \in [1..n + 1 -> Nodes] : Behind(s2, n, s, x)
    BY <1>8, ListOps
<1>a. s2[n + 1] = x /\ \A i \in 1..n : s2[i] = s[i]
    BY <1>s DEF Behind
<1>e. PICK m2 \in Nat : m2 = IF m = 0 THEN 0 ELSE m - 1
    OBVIOUS
<1>f. PICK f2 \in [1..m2 -> Nodes] :
          \/ m = 0 /\ m2 = 0
          \/ m > 0 /\ m2 = m - 1 /\ Rest(f2, m, f)
    <2>1. CASE m = 0
        BY <1>e, <2>1
    <2>2. CASE m > 0
        <3>1. m - 1 \in Nat /\ \E t \in [1..m - 1 -> Nodes] : Rest(t, m, f)
            <4>1. m - 1 \in Nat
                BY <2>2
            <4>2. x \in Nodes
                BY <1>8
            <4> QED BY ONLY <4>1, <4>2, m \in Nat, f \in [1..m -> Nodes], ListOps
        <3> QED BY <1>e, <2>2, <3>1
    <2> QED BY <2>1, <2>2
<1>b. m > 0 => m2 = m - 1 /\ \A j \in 1..m2 : f2[j] = f[j + 1]
    BY <1>f DEF Rest
<1>c. m = 0 => m2 = 0
    BY <1>f
<1>9. (\A i \in 1..n : s[i] # x) /\ \A j \in 1..m2 : f2[j] \in Nodes /\ f2[j] # x
    <2>1. CASE m > 0 /\ x = f[1]
        <3>1. 1 \in 1..m /\ \A j \in 1..m2 : j + 1 \in 1..m /\ f2[j] = f[j + 1] /\ j + 1 # 1
            BY <1>b, <2>1
        <3>2. \A j \in 1..m2 : f2[j] # f[1]
            BY <1>4, <3>1
        <3>3. \A i \in 1..n : s[i] # f[1]
            BY <1>5, <3>1
        <3> QED BY <2>1, <3>2, <3>3
    <2>2. CASE m = 0 /\ x = made + 1
        <3>1. ASSUME NEW i \in 1..n PROVE s[i] # x
            <4>1. s[i] <= made
                BY <1>5
            <4> QED BY <1>4, <2>2, <4>1
        <3> QED BY <1>c, <2>2, <3>1
    <2> QED BY <1>7, <2>1, <2>2
<1>10. s2 \in [1..n + 1 -> Nodes] /\ f2 \in [1..m2 -> Nodes]
    OBVIOUS
<1>11. next' \in [Nodes -> 0..MaxNodes]
    <2>1. next \in [Nodes -> 0..MaxNodes] /\ Nodes = 1..MaxNodes /\ MaxNodes \in Nat
        BY <1>4
    <2>2. x \in 0..MaxNodes
        BY <1>8, <2>1
    <2>3. 0 \in 0..MaxNodes
        BY <2>1
    <2> QED BY <1>6, <2>1, <2>2, <2>3
<1>12. IsList(head, n + 1, s2)'
    <2>1. \A i, j \in 1..n + 1 : s2[i] = s2[j] => i = j
        <3> SUFFICES ASSUME NEW i \in 1..n + 1, NEW j \in 1..n + 1, s2[i] = s2[j] PROVE i = j
            OBVIOUS
        <3>1. i = n + 1 \/ i \in 1..n
            OBVIOUS
        <3>2. j = n + 1 \/ j \in 1..n
            OBVIOUS
        <3> QED BY <1>4, <1>9, <1>a, <3>1, <3>2
    <2>2. head' = s2[1]
        <3>1. CASE n = 0
            BY <1>4, <1>6, <1>a, <3>1
        <3>2. CASE n > 0
            <4>1. s[1] \in Nodes /\ s[n] \in Nodes /\ s2[1] = s[1]
                BY <1>a, <3>2
            <4> QED BY <1>4, <1>6, <3>2, <4>1, SMTT(30)
        <3> QED BY <3>1, <3>2
    <2>3. ASSUME NEW i \in 1..n + 1
          PROVE next'[s2[i]] = IF i = n + 1 THEN 0 ELSE s2[i + 1]
        <3>1. CASE i = n + 1
            BY <1>6, <1>8, <1>a, <3>1
        <3>2. CASE i = n
            <4>1. s2[i] = s[n] /\ s[n] = tail /\ s[n] # x /\ s[n] \in Nodes /\ s2[i + 1] = x
                BY <1>4, <1>9, <1>a, <3>2
            <4> QED BY <1>6, <3>2, <4>1
        <3>3. CASE i < n
            <4>1. /\ s2[i] = s[i] /\ s[i] # tail /\ s[i] # x /\ s[i] \in Nodes /\ i \in 1..n
                  /\ s2[i + 1] = s[i + 1]
                <5>1. i \in 1..n /\ n \in 1..n /\ i + 1 \in 1..n /\ i # n
                    BY <3>3
                <5>2. s[i] # x /\ s[i] \in Nodes /\ s2[i] = s[i] /\ s2[i + 1] = s[i + 1]
                    BY <1>9, <1>a, <5>1
                <5>3. s[i] # s[n] /\ tail = s[n]
                    <6>1. tail = s[n]
                        BY <1>4, <5>1
                    <6>2. s[i] = s[n] => i = n
                        BY <1>4, <5>1
                    <6> QED BY <5>1, <6>1, <6>2
                <5> QED BY <5>1, <5>2, <5>3
            <4> QED BY <1>5, <1>6, <3>3, <4>1
        <3> QED BY <3>1, <3>2, <3>3
    <2> QED BY <1>10, <2>1, <2>2, <2>3 DEF IsList
<1>13. IsList(free, m2, f2)'
    <2>1. CASE m = 0
        <3>1. m2 = 0 /\ free' = 0
            BY <1>7, <1>c, <2>1
        <3> QED BY <1>10, <3>1 DEF IsList
    <2>2. CASE m > 0
        <3>1. m2 = m - 1 /\ \A j \in 1..m2 : f2[j] = f[j + 1]
            BY <1>b, <2>2
        <3>2. \A i, j \in 1..m2 : f2[i] = f2[j] => i = j
            BY <1>4, <3>1, SMTT(30)
        <3>3. free' = IF m2 = 0 THEN 0 ELSE f2[1]
            <4>1. 1 \in 1..m /\ x = f[1] /\ free = x /\ free' = next[x]
                BY <1>4, <1>7, <2>2
            <4>2. free' = IF 1 = m THEN 0 ELSE f[1 + 1]
                <5>1. next[f[1]] = IF 1 = m THEN 0 ELSE f[1 + 1]
                    BY <1>5, <4>1
                <5> QED BY <4>1, <5>1
            <4>3. m2 # 0 => 1 \in 1..m2 /\ 1 + 1 = 2
                BY <3>1
            <4> QED BY <3>1, <4>2, <4>3
        <3>4. ASSUME NEW i \in 1..m2
              PROVE next'[f2[i]] = IF i = m2 THEN 0 ELSE f2[i + 1]
            <4>1. f2[i] = f[i + 1] /\ i + 1 \in 1..m /\ f2[i] # x /\ f2[i] \in Nodes
                BY <1>9, <3>1
            <4>2. f2[i] # tail
                <5>1. CASE n = 0
                    BY <1>4, <4>1, <5>1
                <5>2. CASE n > 0
                    <6>1. n \in 1..n /\ tail = s[n]
                        BY <1>4, <5>2
                    <6> QED BY <1>5, <4>1, <6>1
                <5> QED BY <5>1, <5>2
            <4>3. next'[f2[i]] = next[f[i + 1]]
                BY <1>6, <4>1, <4>2
            <4> QED BY <1>5, <3>1, <4>1, <4>3
        <3> QED BY <1>10, <3>2, <3>3, <3>4 DEF IsList
    <2> QED BY <2>1, <2>2
<1>14. \A i \in 1..n + 1, j \in 1..m2 : s2[i] # f2[j]
    <2>1. \A j \in 1..m2 : \E i \in 1..m : f2[j] = f[i]
        <3>1. CASE m = 0
            BY <1>c, <3>1
        <3>2. CASE m > 0
            <4>1. \A j \in 1..m2 : j + 1 \in 1..m /\ f2[j] = f[j + 1]
                BY <1>b, <3>2
            <4> QED BY <4>1
        <3> QED BY <3>1, <3>2
    <2>2. \A i \in 1..n + 1 : i = n + 1 \/ i \in 1..n
        OBVIOUS
    <2> SUFFICES ASSUME NEW i \in 1..n + 1, NEW j \in 1..m2 PROVE s2[i] # f2[j]
        OBVIOUS
    <2>3. CASE i = n + 1
        BY <1>9, <1>a, <2>3
    <2>4. CASE i \in 1..n
        BY <1>5, <1>a, <2>1, <2>4
    <2> QED BY <2>2, <2>3, <2>4
<1>15. ASSUME NEW y \in Nodes
       PROVE y <= made' <=> (\E i \in 1..n + 1 : s2[i] = y) \/ (\E j \in 1..m2 : f2[j] = y)
    <2>1. (\E i \in 1..n + 1 : s2[i] = y) <=> y = x \/ \E i \in 1..n : s[i] = y
        <3>1. s2[n + 1] = x /\ n + 1 \in 1..n + 1 /\ \A i \in 1..n : s2[i] = s[i] /\ i \in 1..n + 1
            BY <1>a
        <3>2. \A i \in 1..n + 1 : i = n + 1 \/ i \in 1..n
            OBVIOUS
        <3> QED BY <3>1, <3>2
    <2>2. CASE m = 0
        <3>1. m2 = 0
            BY <1>c, <2>2
        <3>2. ~ \E j \in 1..m2 : f2[j] = y
            BY <3>1
        <3>3. y <= made <=> \E i \in 1..n : s[i] = y
            BY <1>5, <2>2
        <3>4. y <= made' <=> y <= made \/ y = x
            BY <1>4, <1>7, <2>2
        <3> QED BY <2>1, <3>2, <3>3, <3>4
    <2>3. CASE m > 0
        <3>1. (\E j \in 1..m : f[j] = y) <=> y = x \/ \E j \in 1..m2 : f2[j] = y
            <4>1. m2 = m - 1 /\ \A j \in 1..m2 : f2[j] = f[j + 1] /\ j + 1 \in 1..m
                BY <1>b, <2>3
            <4>2. \A j \in 1..m : j = 1 \/ (j - 1 \in 1..m2 /\ f[j] = f2[j - 1])
                BY <2>3, <4>1
            <4>3. f[1] = x /\ 1 \in 1..m
                BY <1>7, <2>3
            <4>4. ASSUME NEW j \in 1..m, f[j] = y PROVE y = x \/ \E i \in 1..m2 : f2[i] = y
                BY <4>2, <4>3, <4>4
            <4> QED BY <4>1, <4>3, <4>4
        <3>2. made' = made
            BY <1>7, <2>3
        <3> QED BY <1>5, <2>1, <3>1, <3>2
    <2> QED BY <2>2, <2>3
<1>16. TwoLists(n + 1, s2, m2, f2)'
    <2>1. tail' = IF n + 1 = 0 THEN 0 ELSE s2[n + 1]
        BY <1>6, <1>a
    <2> QED BY <1>8, <1>11, <1>12, <1>13, <1>14, <1>15, <2>1 DEF TwoLists
<1>17. QInv'
    BY <1>8, <1>10, <1>16 DEF QInv
<1>18. \A y : y \in From(head) <=> \E i \in 1..n : s[i] = y
    <2>1. IsList(head, n, s) /\ ListsEnd
        BY <1>2, ListsEndNow, Zenon DEF TwoLists
    <2> QED BY <2>1, SMTT(30) DEF ListsEnd
<1>19. \A y : y \in From(head)' <=> \E i \in 1..n + 1 : s2[i] = y
    <2>1. IsList(head, n + 1, s2)' /\ ListsEnd'
        BY <1>12, ListsEndNext, Zenon
    <2>2. PICK k2 \in Nat : k2 = n + 1 /\ s2 \in [1..k2 -> Nodes]
        BY <1>8
    <2>3. IsList(head, k2, s2)'
        BY <2>1, <2>2, Zenon
    <2> QED BY <2>1, <2>2, <2>3, SMTT(30) DEF ListsEnd
<1>20. From(head)' = From(head) \cup {x}
    <2>1. \A y : (\E i \in 1..n + 1 : s2[i] = y) <=> (\E i \in 1..n : s[i] = y) \/ y = x
        <3>1. s2[n + 1] = x /\ n + 1 \in 1..n + 1 /\ \A i \in 1..n : s2[i] = s[i] /\ i \in 1..n + 1
            BY <1>a
        <3>2. \A i \in 1..n + 1 : i = n + 1 \/ i \in 1..n
            OBVIOUS
        <3> QED BY <3>1, <3>2
    <2> QED BY <1>18, <1>19, <2>1
<1>21. x \notin From(head)
    BY <1>9, <1>18
<1> QED BY <1>3, <1>8, <1>17, <1>20, <1>21

\* The first node of the queue becomes the first free one.
LEMMA PopKeeps ==
    ASSUME QInv, Pop
    PROVE  /\ QInv' /\ head \in From(head)
           /\ From(head)' = From(head) \ {head}
<1>1. PICK n \in Nat, m \in Nat : \E s \in [1..n -> Nodes], f \in [1..m -> Nodes] : TwoLists(n, s, m, f)
    BY DEF QInv
<1>2. PICK s \in [1..n -> Nodes], f \in [1..m -> Nodes] : TwoLists(n, s, m, f)
    BY <1>1
<1>3. PICK x : x = head
    OBVIOUS
<1>4. /\ MaxNodes \in Nat /\ Nodes = 1..MaxNodes /\ made \in 0..MaxNodes
      /\ next \in [Nodes -> 0..MaxNodes]
      /\ tail = IF n = 0 THEN 0 ELSE s[n]
      /\ head = IF n = 0 THEN 0 ELSE s[1]
      /\ free = IF m = 0 THEN 0 ELSE f[1]
      /\ \A i, j \in 1..n : s[i] = s[j] => i = j
      /\ \A i, j \in 1..m : f[i] = f[j] => i = j
    BY <1>2, NodesAssumption DEF TwoLists, IsList, Nodes
<1>5. /\ \A i \in 1..n : next[s[i]] = IF i = n THEN 0 ELSE s[i + 1]
      /\ \A i \in 1..m : next[f[i]] = IF i = m THEN 0 ELSE f[i + 1]
      /\ \A i \in 1..n, j \in 1..m : s[i] # f[j]
      /\ \A y \in Nodes : y <= made <=> (\E i \in 1..n : s[i] = y) \/ (\E j \in 1..m : f[j] = y)
    BY <1>2 DEF TwoLists, IsList
<1>6. n > 0 /\ x = s[1] /\ 1 \in 1..n /\ n \in 1..n /\ x \in Nodes
    <2>1. n > 0 /\ x = s[1]
        BY <1>3, <1>4 DEF Pop
    <2> QED BY <2>1
<1>7. /\ next' = [next EXCEPT ![x] = free]
      /\ head' = next[x]
      /\ tail' = IF next[x] = 0 THEN 0 ELSE tail
      /\ free' = x
      /\ made' = made
    BY <1>3 DEF Pop
<1>8. /\ next'[x] = free
      /\ \A y \in Nodes : y # x => next'[y] = next[y]
    BY <1>4, <1>6, <1>7
<1>e. PICK n2 \in Nat : n2 = n - 1
    BY <1>6
<1>s. PICK s2 \in [1..n2 -> Nodes] : Rest(s2, n, s)
    BY ONLY <1>e, <1>6, n \in Nat, s \in [1..n -> Nodes], ListOps
<1>a. \A i \in 1..n2 : s2[i] = s[i + 1] /\ i + 1 \in 1..n
    BY <1>e, <1>s DEF Rest
<1>f. PICK f2 \in [1..m + 1 -> Nodes] : InFront(f2, m, f, x)
    BY ONLY <1>6, m \in Nat, f \in [1..m -> Nodes], ListOps
<1>b. f2[1] = x /\ \A i \in 1..m : f2[i + 1] = f[i]
    BY <1>f DEF InFront
<1>c. \A i \in 1..m + 1 : i = 1 \/ (i - 1 \in 1..m /\ f2[i] = f[i - 1])
    <2> SUFFICES ASSUME NEW i \in 1..m + 1, i # 1 PROVE i - 1 \in 1..m /\ f2[i] = f[i - 1]
        OBVIOUS
    <2>1. i - 1 \in 1..m /\ (i - 1) + 1 = i
        OBVIOUS
    <2> QED BY <1>b, <2>1
<1>9. /\ \A i \in 1..n2 : s2[i] # x
      /\ \A i \in 1..m : f[i] # x
    <2>1. ASSUME NEW i \in 1..n2 PROVE s2[i] # x
        <3>1. i + 1 # 1
            OBVIOUS
        <3> QED BY <1>4, <1>6, <1>a, <3>1
    <2>2. \A i \in 1..m : f[i] # x
        BY <1>5, <1>6
    <2> QED BY <2>1, <2>2
<1>10. next' \in [Nodes -> 0..MaxNodes]
    <2>1. free \in 0..MaxNodes
        <3>1. CASE m = 0
            BY <1>4, <3>1
        <3>2. CASE m > 0
            <4>1. 1 \in 1..m
                BY <3>2
            <4>2. free = f[1] /\ f[1] \in Nodes
                BY <1>4, <3>2, <4>1
            <4> QED BY <1>4, <4>2
        <3> QED BY <3>1, <3>2
    <2> QED BY <1>4, <1>6, <1>7, <2>1
<1>11. next[x] = (IF n2 = 0 THEN 0 ELSE s2[1]) /\ (next[x] = 0 <=> n2 = 0)
    <2>1. next[s[1]] = IF 1 = n THEN 0 ELSE s[1 + 1]
        BY <1>5, <1>6
    <2>2. CASE n = 1
        BY <1>6, <1>e, <2>1, <2>2
    <2>3. CASE n # 1
        <3>1. n2 # 0 /\ 1 \in 1..n2
            BY <1>6, <1>e, <2>3
        <3>2. s2[1] = s[1 + 1] /\ s2[1] \in Nodes /\ 0 \notin Nodes
            BY <1>4, <1>a, <3>1
        <3> QED BY <1>6, <2>1, <2>3, <3>1, <3>2
    <2> QED BY <2>2, <2>3
<1>12. IsList(head, n2, s2)'
    <2>1. ASSUME NEW i \in 1..n2, NEW j \in 1..n2, s2[i] = s2[j] PROVE i = j
        <3>1. i + 1 = j + 1
            BY <1>4, <1>a, <2>1
        <3> QED BY <3>1
    <2>2. head' = IF n2 = 0 THEN 0 ELSE s2[1]
        BY <1>7, <1>11
    <2>3. ASSUME NEW i \in 1..n2
          PROVE next'[s2[i]] = IF i = n2 THEN 0 ELSE s2[i + 1]
        <3>1. next'[s2[i]] = next[s[i + 1]]
            BY <1>8, <1>9, <1>a
        <3>2. next[s[i + 1]] = IF i + 1 = n THEN 0 ELSE s[(i + 1) + 1]
            BY <1>5, <1>a
        <3>3. CASE i = n2
            BY <1>e, <3>1, <3>2, <3>3
        <3>4. CASE i # n2
            <4>1. i + 1 \in 1..n2 /\ i + 1 # n
                BY <1>e, <3>4
            <4> QED BY <1>a, <3>1, <3>2, <3>4, <4>1
        <3> QED BY <3>3, <3>4
    <2> QED BY <2>1, <2>2, <2>3 DEF IsList
<1>13. IsList(free, m + 1, f2)'
    <2>1. ASSUME NEW i \in 1..m + 1, NEW j \in 1..m + 1, f2[i] = f2[j] PROVE i = j
        <3>1. CASE i = 1
            <4>1. j = 1
                BY <1>9, <1>b, <1>c, <2>1, <3>1
            <4> QED BY <3>1, <4>1
        <3>2. CASE j = 1
            <4>1. i = 1
                BY <1>9, <1>b, <1>c, <2>1, <3>2
            <4> QED BY <3>2, <4>1
        <3>3. CASE i # 1 /\ j # 1
            <4>1. f[i - 1] = f[j - 1] /\ i - 1 \in 1..m /\ j - 1 \in 1..m
                BY <1>c, <2>1, <3>3
            <4>2. i - 1 = j - 1
                BY <1>4, <4>1
            <4> QED BY <4>2
        <3> QED BY <3>1, <3>2, <3>3
    <2>2. m + 1 # 0 /\ free' = f2[1]
        BY <1>7, <1>b
    <2>3. ASSUME NEW i \in 1..m + 1
          PROVE next'[f2[i]] = IF i = m + 1 THEN 0 ELSE f2[i + 1]
        <3>1. CASE i = 1
            <4>1. next'[f2[i]] = IF m = 0 THEN 0 ELSE f[1]
                BY <1>4, <1>8, <1>b, <3>1
            <4>2. CASE m = 0
                BY <3>1, <4>1, <4>2
            <4>3. CASE m > 0
                <5>1. 1 \in 1..m
                    BY <4>3
                <5>2. f2[1 + 1] = f[1]
                    BY <1>b, <5>1
                <5> QED BY <3>1, <4>1, <4>3, <5>2
            <4> QED BY <4>2, <4>3
        <3>2. CASE i # 1
            <4>1. i - 1 \in 1..m /\ f2[i] = f[i - 1] /\ (i - 1) + 1 = i
                BY <1>c, <3>2
            <4>2. next'[f2[i]] = next[f[i - 1]]
                BY <1>8, <1>9, <4>1
            <4>3. next[f[i - 1]] = IF i - 1 = m THEN 0 ELSE f[i]
                BY <1>5, <4>1
            <4>4. CASE i = m + 1
                <5>1. i - 1 = m
                    BY <4>4
                <5> QED BY <4>2, <4>3, <4>4, <5>1
            <4>5. CASE i # m + 1
                <5>1. i \in 1..m /\ i - 1 # m
                    BY <4>5
                <5> QED BY <1>b, <4>2, <4>3, <4>5, <5>1
            <4> QED BY <4>4, <4>5
        <3> QED BY <3>1, <3>2
    <2> QED BY <2>1, <2>2, <2>3 DEF IsList
<1>14. ASSUME NEW i \in 1..n2, NEW j \in 1..m + 1 PROVE s2[i] # f2[j]
    <2>1. s2[i] = s[i + 1] /\ i + 1 \in 1..n /\ s2[i] # x
        BY <1>9, <1>a
    <2>2. CASE j = 1
        BY <1>b, <2>1, <2>2
    <2>3. CASE j - 1 \in 1..m /\ f2[j] = f[j - 1]
        BY <1>5, <2>1, <2>3
    <2> QED BY <1>c, <2>2, <2>3
<1>15. ASSUME NEW y \in Nodes
       PROVE y <= made' <=> (\E i \in 1..n2 : s2[i] = y) \/ (\E j \in 1..m + 1 : f2[j] = y)
    <2>1. (\E i \in 1..n : s[i] = y) <=> y = x \/ \E i \in 1..n2 : s2[i] = y
        <3>1. \A i \in 1..n : i = 1 \/ (i - 1 \in 1..n2 /\ s[i] = s2[i - 1])
            <4> SUFFICES ASSUME NEW i \in 1..n, i # 1 PROVE i - 1 \in 1..n2 /\ s[i] = s2[i - 1]
                OBVIOUS
            <4>1. i - 1 \in 1..n2 /\ (i - 1) + 1 = i
                BY <1>e
            <4> QED BY <1>a, <4>1
        <3> QED BY <1>6, <1>a, <3>1
    <2>2. (\E j \in 1..m + 1 : f2[j] = y) <=> y = x \/ \E j \in 1..m : f[j] = y
        <3>1. 1 \in 1..m + 1 /\ \A j \in 1..m : j + 1 \in 1..m + 1
            OBVIOUS
        <3> QED BY <1>b, <1>c, <3>1
    <2> QED BY <1>5, <1>7, <2>1, <2>2
<1>16. tail' = IF n2 = 0 THEN 0 ELSE s2[n2]
    <2>1. CASE n2 = 0
        BY <1>7, <1>11, <2>1
    <2>2. CASE n2 # 0
        <3>1. n2 \in 1..n2 /\ n2 + 1 = n
            BY <1>e, <2>2
        <3>2. s2[n2] = s[n]
            BY <1>a, <3>1
        <3>3. tail = s[n]
            BY <1>4, <1>6
        <3> QED BY <1>7, <1>11, <2>2, <3>2, <3>3
    <2> QED BY <2>1, <2>2
<1>17. TwoLists(n2, s2, m + 1, f2)'
    <2>1. made' \in 0..MaxNodes
        BY <1>4, <1>7
    <2> QED BY <1>10, <1>12, <1>13, <1>14, <1>15, <1>16, <2>1 DEF TwoLists
<1>18. m + 1 \in Nat
    OBVIOUS
<1>19. QInv'
    BY <1>17, <1>18 DEF QInv
<1>20. \A y : y \in From(head) <=> \E i \in 1..n : s[i] = y
    <2>1. IsList(head, n, s) /\ ListsEnd
        BY <1>2, ListsEndNow, Zenon DEF TwoLists
    <2> QED BY <2>1, SMTT(30) DEF ListsEnd
<1>21. \A y : y \in From(head)' <=> \E i \in 1..n2 : s2[i] = y
    <2>1. IsList(head, n2, s2)' /\ ListsEnd'
        BY <1>12, ListsEndNext, Zenon
    <2> QED BY <2>1, SMTT(30) DEF ListsEnd
<1>22. From(head)' = From(head) \ {x}
    <2>1. \A i \in 1..n : i = 1 \/ (i - 1 \in 1..n2 /\ s[i] = s2[i - 1])
        <3> SUFFICES ASSUME NEW i \in 1..n, i # 1 PROVE i - 1 \in 1..n2 /\ s[i] = s2[i - 1]
            OBVIOUS
        <3>1. i - 1 \in 1..n2 /\ (i - 1) + 1 = i
            BY <1>e
        <3> QED BY <1>a, <3>1
    <2>2. \A y : (\E i \in 1..n2 : s2[i] = y) <=> (\E i \in 1..n : s[i] = y) /\ y # x
        BY <1>6, <1>9, <1>a, <2>1, SMTT(30)
    <2> QED BY <1>20, <1>21, <2>2, SMTT(30)
<1>23. x \in From(head)
    BY <1>6, <1>20
<1> QED BY <1>3, <1>19, <1>22, <1>23

\* The two lists are what NodesAreKept says.
LEMMA QInvKeeps == QInv => NodesAreKept
<1> SUFFICES ASSUME QInv PROVE NodesAreKept
    OBVIOUS
<1>1. PICK n \in Nat, m \in Nat : \E s \in [1..n -> Nodes], f \in [1..m -> Nodes] : TwoLists(n, s, m, f)
    BY DEF QInv
<1>2. PICK s \in [1..n -> Nodes], f \in [1..m -> Nodes] : TwoLists(n, s, m, f)
    BY <1>1
<1>3. /\ IsList(head, n, s) /\ IsList(free, m, f)
      /\ tail = IF n = 0 THEN 0 ELSE s[n]
      /\ made \in 0..MaxNodes
      /\ \A i \in 1..n, j \in 1..m : s[i] # f[j]
      /\ \A x \in Nodes : x <= made <=> (\E i \in 1..n : s[i] = x) \/ (\E j \in 1..m : f[j] = x)
    BY <1>2 DEF TwoLists
<1>4. /\ Nth(head, MaxNodes) = 0
      /\ \A x : x \in From(head) <=> \E i \in 1..n : s[i] = x
    BY <1>3, ListEnds
<1>5. /\ Nth(free, MaxNodes) = 0
      /\ \A x : x \in From(free) <=> \E i \in 1..m : f[i] = x
    BY <1>3, ListEnds
<1>6. MaxNodes \in Nat /\ Nodes = 1..MaxNodes
    BY NodesAssumption DEF Nodes
<1>7. From(head) \cup From(free) = 1..made
    <2>1. ASSUME NEW x \in From(head) \cup From(free) PROVE x \in 1..made
        <3>1. (\E i \in 1..n : s[i] = x) \/ (\E j \in 1..m : f[j] = x)
            BY <1>4, <1>5
        <3>2. x \in Nodes
            BY <3>1
        <3>3. x <= made
            BY <1>3, <3>1, <3>2
        <3> QED BY <1>3, <1>6, <3>2, <3>3
    <2>2. ASSUME NEW x \in 1..made PROVE x \in From(head) \cup From(free)
        <3>1. x \in Nodes /\ x <= made
            BY <1>3, <1>6
        <3> QED BY <1>3, <1>4, <1>5, <3>1
    <2> QED BY <2>1, <2>2
<1>8. From(head) \cap From(free) = {}
    BY <1>3, <1>4, <1>5
<1>9. head = (IF n = 0 THEN 0 ELSE s[1]) /\ (n > 0 => 1 \in 1..n /\ n \in 1..n /\ next[s[n]] = 0)
    <2>1. n > 0 => 1 \in 1..n /\ n \in 1..n
        OBVIOUS
    <2> QED BY <1>3, <2>1 DEF IsList
<1>10. (head = 0) = (tail = 0)
    BY <1>3, <1>6, <1>9
<1>11. tail # 0 => tail \in From(head) /\ next[tail] = 0
    BY <1>3, <1>4, <1>9
<1> QED BY <1>4, <1>5, <1>7, <1>8, <1>10, <1>11 DEF NodesAreKept

\* What a step does with the queue.
LEMMA QueueSteps ==
    ASSUME [Next]_vars
    PROVE  \/ \E msg : Push(msg)
           \/ Pop
           \/ UNCHANGED <<head, tail, free, next, made>>
<1> DEFINE Same == UNCHANGED <<head, tail, free, next, made>>
<1>1. UNCHANGED queueVars => Same
    BY DEF queueVars
<1>2. ASSUME NEW k \in Clients, Begin(k) \/ Send(k) \/ Receive(k) \/ Broken(k) PROVE Same
    BY <1>1, <1>2 DEF Begin, Send, Receive, Broken
<1>3. ASSUME NEW k \in Clients, Read(k) PROVE (\E msg : Push(msg)) \/ Same
    <2> DEFINE Done == (\E msg : Push(msg)) \/ Same
    <2>1. ASSUME CloseClient(k) PROVE Done
        BY <1>1, <2>1 DEF CloseClient
    <2>2. ASSUME NEW got, NEW want, TakeIn(k, got, want) PROVE Done
        <3>1. UNCHANGED queueVars \/ Handle(k, got)
            BY <2>2 DEF TakeIn
        <3> QED BY <1>1, <3>1 DEF Handle
    <2>3. CloseClient(k) \/ \E got, want : TakeIn(k, got, want)
        BY <1>3 DEF Read
    <2> QED BY <2>1, <2>2, <2>3
<1>4. CASE Wait
    BY <1>4 DEF Wait, Sleep
<1>5. CASE Dispatch
    BY <1>5 DEF Dispatch
<1>6. CASE Write
    BY <1>1, <1>6 DEF Write
<1>7. CASE LoadClass
    BY <1>1, <1>7 DEF LoadClass
<1>8. CASE WakeSpuriously
    BY <1>8 DEF WakeSpuriously
<1>9. CASE UNCHANGED vars
    BY <1>1, <1>9 DEF vars
<1> QED
    BY <1>2, <1>3, <1>4, <1>5, <1>6, <1>7, <1>8, <1>9 DEF Next, Library, Listener, EventLoop

\* No step breaks the lists.
LEMMA StepQInv == QInv /\ [Next]_vars => QInv'
<1> SUFFICES ASSUME QInv, [Next]_vars PROVE QInv'
    OBVIOUS
<1>1. CASE UNCHANGED <<head, tail, free, next, made>>
    <2>1. ASSUME NEW n \in Nat, NEW m \in Nat, NEW s \in [1..n -> Nodes],
                 NEW f \in [1..m -> Nodes], TwoLists(n, s, m, f)
          PROVE  TwoLists(n, s, m, f)'
        BY <1>1, <2>1 DEF TwoLists, IsList
    <2> QED BY <2>1 DEF QInv
<1> QED BY <1>1, QueueSteps, PushKeeps, PopKeeps

\* No node of the queue is lost and none is in both lists, however many messages
\* were sent and taken (ev-queue.c:38-54, 120-175).
THEOREM NodesAreKeptHolds == Spec => []NodesAreKept
<1>1. Init => QInv
    BY InitQInv DEF Init
<1>2. QInv /\ [Next]_vars => QInv'
    BY StepQInv
<1> QED BY <1>1, <1>2, QInvKeeps, PTL DEF Spec

-----------------------------------------------------------------------------
(* Calls.                                                                  *)

\* The messages of a client in the queue, with their nodes.
Post(k) == {<<x, item[x]>> : x \in {y \in From(head) : item[y].conn = k}}

\* What the event loop has still to write to a client.
Writing(k) == IF cur.conn = k THEN cur.out ELSE <<>>

\* Nothing of a client is with the event loop, with the listener or on its way back.
NotQueued(k) == Post(k) = {} /\ cur.conn # k
NotArrived(k) == toServer[k] = <<>> /\ buf[k] = <<>> /\ expected[k] = HeaderSize
NotAnswered(k) == toClient[k] = <<>> /\ inn[k] = <<>>

\* The bytes of a message that are at three places, one behind the other, and a place
\* with n bytes more.
All(a, b, c) == (a \o b) \o c
More(a, b, n) == a \o First(b, n)

\* The client is in no call.
Idle(k) ==
    /\ asked[k] = None
    /\ out[k] = <<>> /\ toClient[k] = <<>> /\ NotArrived(k) /\ NotQueued(k)

\* Its connection was closed before the request was whole.
Cut(k) ==
    /\ asked[k] # None /\ answer[k] = None /\ k \in lost
    /\ NotArrived(k) /\ NotQueued(k) /\ NotAnswered(k)

\* The bytes of the request are with the client, in the socket and with the listener.
Going(k) ==
    LET whole == PackRequest(asked[k]) IN
    /\ asked[k] # None /\ answer[k] = None /\ k \notin lost
    /\ NotQueued(k) /\ NotAnswered(k)
    /\ All(buf[k], toServer[k], out[k]) = whole
    /\ Len(buf[k]) < Len(whole)
    /\ expected[k] = IF Len(buf[k]) < HeaderSize THEN HeaderSize ELSE Len(whole)

\* The request is in the queue.
Waiting(k) ==
    /\ asked[k] # None /\ answer[k] = None /\ k \notin lost
    /\ \E x \in Nodes : Post(k) = {<<x, [conn |-> k, request |-> asked[k]]>>}
    /\ cur.conn # k
    /\ out[k] = <<>> /\ NotArrived(k) /\ NotAnswered(k)

\* The bytes of the answer are with the event loop, in the socket and with the client.
Coming(k) ==
    /\ asked[k] # None /\ k \notin lost
    /\ Post(k) = {} /\ out[k] = <<>> /\ NotArrived(k)
    /\ \E a \in E.results[asked[k].kind] :
        LET whole == PackAnswer(asked[k].kind, a) IN
        /\ answer[k] = [request |-> asked[k], answer |-> a]
        /\ All(inn[k], toClient[k], Writing(k)) = whole
        /\ Len(inn[k]) < Len(whole)

\* The request or the answer was dropped for want of memory: the client waits for ever.
Dropped(k) ==
    /\ asked[k] # None /\ k \notin lost /\ out[k] = <<>>
    /\ NotArrived(k) /\ NotQueued(k) /\ NotAnswered(k)

Link(k) == Idle(k) \/ Cut(k) \/ Going(k) \/ Waiting(k) \/ Coming(k) \/ Dropped(k)

\* Each client is at one place of its call, and the queue and the event loop have
\* messages of clients only.
Typed ==
    /\ inn \in [Clients -> Seq(Byte)]
    /\ toClient \in [Clients -> Seq(Byte)]
    /\ DOMAIN answer = Clients /\ DOMAIN returned = Clients
    /\ DOMAIN item = Nodes
    /\ \A x \in From(head) : item[x].conn \in Clients \cup {None}
    /\ cur = [conn |-> cur.conn, out |-> cur.out]
    /\ \/ cur.conn = None
       \/ cur.conn \in Clients /\ cur.out \in Seq(Byte) /\ Len(cur.out) > 0

TInv == Typed /\ \A k \in Clients : Link(k)

\* A step of RemoteCall, or none.
RemoteStep == [Remote!Next]_<<asked, answer, Made>>

-----------------------------------------------------------------------------
\* One sequence behind another, and a third behind both.
LEMMA Associative ==
    ASSUME NEW x \in Seq(Byte), NEW y \in Seq(Byte), NEW z \in Seq(Byte),
           NEW d, d = x \o y, NEW e, e = y \o z
    PROVE  d \o z = x \o e
<1> HIDE DEF Byte
<1>1. (x \o y) \o z = x \o (y \o z)
    BY ConcatAssociative, SMTT(30)
<1> QED BY <1>1, Zenon

\* A sequence is what is cut off it and the rest.
LEMMA CutInTwo ==
    ASSUME NEW s \in Seq(Byte), NEW n \in Nat, n <= Len(s)
    PROVE  First(s, n) \o Others(s, n) = s
<1> HIDE DEF Byte
<1>1. SubSeq(s, 1, n) \o SubSeq(s, n + 1, Len(s)) = SubSeq(s, 1, Len(s))
    <2>1. /\ 1 \in 1..Len(s) + 1 /\ n \in 1 - 1..Len(s) /\ Len(s) \in n..Len(s)
        OBVIOUS
    <2> QED BY <2>1, ConcatAdjacentSubSeq
<1>2. SubSeq(s, 1, Len(s)) = s
    BY SubSeqFull
<1> QED BY <1>1, <1>2, Zenon DEF First, Others

\* A sequence with the first n bytes of another one behind it.
LEMMA MoreBytes ==
    ASSUME NEW a \in Seq(Byte), NEW b \in Seq(Byte), NEW n \in Nat, n <= Len(b)
    PROVE  /\ More(a, b, n) \in Seq(Byte) /\ Len(More(a, b, n)) = Len(a) + n
           /\ Others(b, n) \in Seq(Byte)
<1>1. PICK f \in Seq(Byte) : f = First(b, n) /\ Len(f) = n
    BY CutBytes
<1>2. PICK g : g = a \o f
    OBVIOUS
<1>3. g \in Seq(Byte) /\ Len(g) = Len(a) + Len(f)
    <2> HIDE DEF Byte
    <2> QED BY <1>2, Joined
<1>4. More(a, b, n) = g
    BY <1>1, <1>2, Zenon DEF More
<1>5. Others(b, n) \in Seq(Byte)
    BY CutBytes
<1> QED BY <1>1, <1>3, <1>4, <1>5

\* Bytes that go from one sequence behind another leave it as it is what both hold.
LEMMA Advanced ==
    ASSUME NEW a \in Seq(Byte), NEW b \in Seq(Byte), NEW c \in Seq(Byte), NEW n \in Nat
    PROVE  /\ n <= Len(b) => All(More(a, b, n), Others(b, n), c) = All(a, b, c)
           /\ n <= Len(c) => All(a, More(b, c, n), Others(c, n)) = All(a, b, c)
<1>1. ASSUME n <= Len(b) PROVE All(More(a, b, n), Others(b, n), c) = All(a, b, c)
    <2>1. PICK f \in Seq(Byte), o \in Seq(Byte) : f = First(b, n) /\ o = Others(b, n)
        BY <1>1, CutBytes
    <2>2. b = f \o o
        BY <1>1, <2>1, CutInTwo, Zenon
    <2>3. PICK g : g = a \o f
        OBVIOUS
    <2>4. g \o o = a \o b
        BY ONLY <2>2, <2>3, a \in Seq(Byte), f \in Seq(Byte), o \in Seq(Byte), Associative, SMTT(30)
    <2> QED BY <2>1, <2>3, <2>4, Zenon DEF All, More
<1>2. ASSUME n <= Len(c) PROVE All(a, More(b, c, n), Others(c, n)) = All(a, b, c)
    <2>1. PICK f \in Seq(Byte), o \in Seq(Byte) : f = First(c, n) /\ o = Others(c, n)
        BY <1>2, CutBytes
    <2>2. c = f \o o
        BY <1>2, <2>1, CutInTwo, Zenon
    <2>3. PICK d : d = a \o b
        OBVIOUS
    <2>4. PICK x \in Seq(Byte) : x = d
        <3> HIDE DEF Byte
        <3>1. d \in Seq(Byte)
            BY <2>3, Joined
        <3> QED BY <3>1
    <2>5. PICK e : e = b \o f
        OBVIOUS
    <2>6. d \o f = a \o e
        BY ONLY <2>3, <2>5, a \in Seq(Byte), b \in Seq(Byte), f \in Seq(Byte), Associative, SMTT(30)
    <2>7. PICK g : g = x \o f
        OBVIOUS
    <2>8. g \o o = x \o c
        BY ONLY <2>2, <2>7, x \in Seq(Byte), f \in Seq(Byte), o \in Seq(Byte), Associative, SMTT(30)
    <2> QED BY <2>1, <2>3, <2>4, <2>5, <2>6, <2>7, <2>8, Zenon DEF All, More
<1> QED BY <1>1, <1>2

\* What came first of a message: its bytes, and the message when nothing is missing.
ComesFirst(whole, a, b, c) ==
    /\ whole \in Seq(Byte) /\ Len(whole) = Len(a) + Len(b) + Len(c)
    /\ \A i \in 1..Len(a) : a[i] = whole[i]
    /\ Len(a) = Len(whole) => a = whole /\ b = <<>> /\ c = <<>>

\* The first of three is what comes first of all of them.
LEMMA Came ==
    ASSUME NEW a \in Seq(Byte), NEW b \in Seq(Byte), NEW c \in Seq(Byte)
    PROVE  ComesFirst(All(a, b, c), a, b, c)
<1>0. PICK whole : whole = All(a, b, c)
    OBVIOUS
<1> HIDE DEF Byte
<1>1. PICK d : d = a \o b
    OBVIOUS
<1>2. d \in Seq(Byte) /\ Len(d) = Len(a) + Len(b) /\ \A i \in 1..Len(a) : d[i] = a[i]
    BY <1>1, Joined
<1>3. whole = d \o c
    BY <1>0, <1>1, Zenon DEF All
<1>4. /\ whole \in Seq(Byte) /\ Len(whole) = Len(d) + Len(c)
      /\ \A i \in 1..Len(d) : whole[i] = d[i]
    <2>1. PICK x \in Seq(Byte) : x = d
        BY <1>2
    <2>2. PICK y : y = x \o c
        OBVIOUS
    <2>3. y \in Seq(Byte) /\ Len(y) = Len(x) + Len(c)
        BY <2>2, Joined
    <2>4. \A i \in 1..Len(x) : y[i] = x[i]
        BY <2>2, Joined
    <2>5. y = whole
        BY <1>3, <2>1, <2>2, Zenon
    <2> QED BY <2>1, <2>3, <2>4, <2>5, Zenon
<1>5. ASSUME NEW i \in 1..Len(a) PROVE a[i] = whole[i]
    <2>1. i \in 1..Len(d)
        BY <1>2
    <2> QED BY <1>2, <1>4, <2>1
<1>6. Len(whole) = Len(a) + Len(b) + Len(c)
    BY <1>2, <1>4
<1>7. ASSUME Len(a) = Len(whole) PROVE a = whole /\ b = <<>> /\ c = <<>>
    <2>1. Len(b) = 0 /\ Len(c) = 0
        BY <1>6, <1>7
    <2>2. b = <<>> /\ c = <<>>
        BY <2>1
    <2>3. a \o <<>> = a /\ a \o <<>> = a
        BY ConcatEmptySeq
    <2> QED BY <1>1, <1>3, <2>2, <2>3
<1>8. ComesFirst(whole, a, b, c)
    BY <1>4, <1>5, <1>6, <1>7 DEF ComesFirst
<1> QED BY <1>0, <1>8, Zenon

\* Before anything was sent.
LEMMA AllToCome ==
    ASSUME NEW whole \in Seq(Byte)
    PROVE  All(<<>>, <<>>, whole) = whole
<1>1. <<>> \o <<>> = <<>>
    OBVIOUS
<1>2. <<>> \o whole = whole
    <2> HIDE DEF Byte
    <2> QED BY ConcatEmptySeq
<1> QED BY <1>1, <1>2, Zenon DEF All

\* A message that is pushed is behind those of its client, and not with the others.
LEMMA PostPush ==
    ASSUME QInv, DOMAIN item = Nodes, NEW msg, Push(msg)
    PROVE  /\ DOMAIN item' = Nodes
           /\ \A k : msg.conn # k => Post(k)' = Post(k)
           /\ \A k : msg.conn = k => Post(k)' = Post(k) \cup {<<NewNode, msg>>}
           /\ \A x \in From(head)' : item'[x] = msg \/ (x \in From(head) /\ item'[x] = item[x])
<1>1. PICK n : n = NewNode
    OBVIOUS
<1>2. PICK S, T : S = From(head) /\ T = From(head)'
    OBVIOUS
<1>3. n \in Nodes /\ n \notin S /\ T = S \cup {n}
    BY <1>1, <1>2, PushKeeps
<1>4. item' = [item EXCEPT ![n] = msg]
    BY <1>1 DEF Push
<1>5. item'[n] = msg /\ \A x \in S : item'[x] = item[x]
    <2>1. \A x : x # n => item'[x] = item[x]
        <3> SUFFICES ASSUME NEW x, x # n PROVE item'[x] = item[x]
            OBVIOUS
        <3> QED BY <1>4
    <2> QED BY <1>3, <1>4, <2>1
<1>6. ASSUME NEW k
      PROVE  /\ Post(k) = {<<x, item[x]>> : x \in {y \in S : item[y].conn = k}}
             /\ Post(k)' = {<<x, item'[x]>> : x \in {y \in T : item'[y].conn = k}}
    BY <1>2, Zenon DEF Post
<1>7. ASSUME NEW k, msg.conn # k PROVE Post(k)' = Post(k)
    <2>1. {y \in T : item'[y].conn = k} = {y \in S : item[y].conn = k}
        BY <1>3, <1>5, <1>7
    <2>2. PICK R : R = {y \in S : item[y].conn = k}
        OBVIOUS
    <2>3. \A x \in R : item'[x] = item[x]
        BY <1>5, <2>2
    <2>4. {<<x, item'[x]>> : x \in R} = {<<x, item[x]>> : x \in R}
        BY <2>3
    <2> QED BY <1>6, <2>1, <2>2, <2>4, Zenon
<1>8. ASSUME NEW k, msg.conn = k PROVE Post(k)' = Post(k) \cup {<<n, msg>>}
    <2>1. {y \in T : item'[y].conn = k} = {y \in S : item[y].conn = k} \cup {n}
        BY <1>3, <1>5, <1>8
    <2>2. PICK R : R = {y \in S : item[y].conn = k}
        OBVIOUS
    <2>3. \A x \in R : item'[x] = item[x]
        BY <1>5, <2>2
    <2>4. {<<x, item'[x]>> : x \in R \cup {n}} = {<<x, item[x]>> : x \in R} \cup {<<n, msg>>}
        BY <1>5, <2>3
    <2> QED BY <1>6, <2>1, <2>2, <2>4, Zenon
<1>9. \A x \in T : item'[x] = msg \/ (x \in S /\ item'[x] = item[x])
    BY <1>3, <1>5
<1>10. DOMAIN item' = Nodes
    BY <1>4
<1> QED BY <1>1, <1>2, <1>7, <1>8, <1>9, <1>10

\* The message that is popped is taken from those of its client.
LEMMA PostPop ==
    ASSUME QInv, Pop
    PROVE  /\ head \in From(head) /\ From(head)' \subseteq From(head) /\ item' = item
           /\ \A k : item[head].conn # k => Post(k)' = Post(k)
           /\ \A k : item[head].conn = k => /\ <<head, item[head]>> \in Post(k)
                                            /\ Post(k)' = Post(k) \ {<<head, item[head]>>}
<1>1. PICK n, S, T : n = head /\ S = From(head) /\ T = From(head)'
    OBVIOUS
<1>2. n \in S /\ T = S \ {n}
    BY <1>1, PopKeeps
<1>3. item' = item
    BY DEF Pop
<1>4. ASSUME NEW k
      PROVE  /\ Post(k) = {<<x, item[x]>> : x \in {y \in S : item[y].conn = k}}
             /\ Post(k)' = {<<x, item[x]>> : x \in {y \in T : item[y].conn = k}}
    BY <1>1, <1>3, Zenon DEF Post
<1>5. ASSUME NEW k, item[n].conn # k PROVE Post(k)' = Post(k)
    <2>1. {y \in T : item[y].conn = k} = {y \in S : item[y].conn = k}
        BY <1>2, <1>5
    <2> QED BY <1>4, <2>1, Zenon
<1>6. ASSUME NEW k, item[n].conn = k
      PROVE  <<n, item[n]>> \in Post(k) /\ Post(k)' = Post(k) \ {<<n, item[n]>>}
    <2>1. {y \in T : item[y].conn = k} = {y \in S : item[y].conn = k} \ {n}
        BY <1>2, <1>6
    <2>2. PICK R : R = {y \in S : item[y].conn = k}
        OBVIOUS
    <2>3. n \in R
        BY <1>2, <1>6, <2>2
    <2>4. {<<x, item[x]>> : x \in R \ {n}} = {<<x, item[x]>> : x \in R} \ {<<n, item[n]>>}
        OBVIOUS
    <2>5. <<n, item[n]>> \in {<<x, item[x]>> : x \in R}
        BY <2>3
    <2> QED BY <1>4, <2>1, <2>2, <2>4, <2>5, Zenon
<1> QED BY <1>1, <1>2, <1>3, <1>5, <1>6

\* The messages of a client are the same as long as the queue is.
LEMMA PostSame ==
    ASSUME QInv, UNCHANGED <<head, tail, free, next, item, made>>
    PROVE  From(head)' = From(head) /\ \A k : Post(k)' = Post(k)
<1>1. PICK n \in Nat, m \in Nat : \E s \in [1..n -> Nodes], f \in [1..m -> Nodes] : TwoLists(n, s, m, f)
    BY DEF QInv
<1>2. PICK s \in [1..n -> Nodes], f \in [1..m -> Nodes] : TwoLists(n, s, m, f)
    BY <1>1
<1>3. IsList(head, n, s)
    BY <1>2 DEF TwoLists
<1>4. IsList(head, n, s)'
    BY <1>3 DEF IsList
<1>5. \A y : y \in From(head) <=> \E i \in 1..n : s[i] = y
    BY <1>3, ListsEndNow DEF ListsEnd
<1>6. \A y : y \in From(head)' <=> \E i \in 1..n : s[i] = y
    BY <1>4, ListsEndNext DEF ListsEnd
<1>7. From(head)' = From(head)
    BY <1>5, <1>6
<1> QED BY <1>7, Zenon DEF Post

\* Nothing changes for a client.
SameCall(k) == /\ asked'[k] = asked[k] /\ answer'[k] = answer[k]
               /\ out'[k] = out[k] /\ inn'[k] = inn[k]
SameSockets(k) == /\ toServer'[k] = toServer[k] /\ toClient'[k] = toClient[k]
                  /\ k \in lost' <=> k \in lost
SameContext(k) == buf'[k] = buf[k] /\ expected'[k] = expected[k]
SameLoop(k) == /\ Post(k)' = Post(k)
               /\ cur'.conn = k <=> cur.conn = k
               /\ cur.conn = k => cur'.out = cur.out
Same(k) == env' = env /\ SameCall(k) /\ SameSockets(k) /\ SameContext(k) /\ SameLoop(k)

LEMMA SameLink ==
    ASSUME NEW k, Same(k), Link(k)
    PROVE  Link(k)'
<1>1. /\ env' = env
      /\ asked'[k] = asked[k] /\ answer'[k] = answer[k]
      /\ out'[k] = out[k] /\ inn'[k] = inn[k]
      /\ toServer'[k] = toServer[k] /\ toClient'[k] = toClient[k]
      /\ k \in lost' <=> k \in lost
      /\ buf'[k] = buf[k] /\ expected'[k] = expected[k]
      /\ Post(k)' = Post(k)
      /\ cur'.conn = k <=> cur.conn = k
      /\ cur.conn = k => cur'.out = cur.out
    BY Zenon DEF Same, SameCall, SameSockets, SameContext, SameLoop
<1>2. NotQueued(k)' <=> NotQueued(k)
    BY <1>1, Zenon DEF NotQueued
<1>3. NotArrived(k)' <=> NotArrived(k)
    BY <1>1, Zenon DEF NotArrived
<1>4. NotAnswered(k)' <=> NotAnswered(k)
    BY <1>1, Zenon DEF NotAnswered
<1>5. CASE Idle(k)
    BY <1>1, <1>2, <1>3, <1>5, Zenon DEF Idle, Link
<1>6. CASE Cut(k)
    BY <1>1, <1>2, <1>3, <1>4, <1>6, Zenon DEF Cut, Link
<1>7. CASE Going(k)
    BY <1>1, <1>2, <1>4, <1>7, Zenon DEF Going, Link
<1>8. CASE Waiting(k)
    BY <1>1, <1>3, <1>4, <1>8, Zenon DEF Waiting, Link
<1>9. CASE Coming(k)
    <2>1. Writing(k)' = Writing(k)
        BY <1>1 DEF Writing
    <2>2. E' = E
        BY <1>1, Zenon DEF E
    <2> QED BY <1>1, <1>3, <1>9, <2>1, <2>2, Zenon DEF Coming, Link
<1>10. CASE Dropped(k)
    BY <1>1, <1>2, <1>3, <1>4, <1>10, Zenon DEF Dropped, Link
<1> QED BY <1>5, <1>6, <1>7, <1>8, <1>9, <1>10 DEF Link

\* A message whose size is that of the bytes behind its header.
IsWhole(whole) ==
    whole \in Seq(Byte) /\ SizeOf(whole) \in Nat /\ Len(whole) = 4 + SizeOf(whole)

\* What may be asked and answered.
LEMMA AskedIsWhole ==
    ASSUME IInv, NEW r \in E.requests
    PROVE  /\ r \in AllRequests /\ IsRequest(r) /\ r # None /\ IsWhole(PackRequest(r))
           /\ \A a \in E.results[r.kind] :
                /\ IsAnswer(r.kind, a) /\ a \in AllResults[r]
                /\ IsWhole(PackAnswer(r.kind, a))
                /\ [request |-> r, answer |-> a] # None
           /\ \A bytes \in Seq(Byte) : [request |-> r, bytes |-> bytes] # None
           /\ E.cap \in Nat
<1>1. PICK e \in DOMAIN Envs : e = env /\ E = Envs[e]
    BY DEF IInv, E
<1>2. r \in Envs[e].requests
    BY <1>1
<1>3. IsRequest(r) /\ (\A a \in Envs[e].results[r.kind] : IsAnswer(r.kind, a)) /\ Envs[e].cap \in Nat
    BY <1>2, EnvsAssumption
<1>4. /\ r # None /\ None \notin [request : {r}, bytes : Seq(Byte)]
      /\ None \notin [request : {r}, answer : Envs[e].results[r.kind]]
    BY <1>2, NoneAssumption
<1>5. r \in AllRequests
    BY <1>2 DEF AllRequests
<1>6. IsWhole(PackRequest(r))
    <2>1. PICK body \in Seq(Byte) : body = BodyOfRequest(r)
        BY <1>3, RequestBody
    <2> QED BY <1>3, <2>1, RequestMessage DEF IsWhole
<1>7. r.kind \in DOMAIN Types
    BY <1>3 DEF IsRequest
<1>8. ASSUME NEW a \in Envs[e].results[r.kind]
      PROVE  /\ IsAnswer(r.kind, a) /\ a \in AllResults[r]
             /\ IsWhole(PackAnswer(r.kind, a))
             /\ [request |-> r, answer |-> a] # None
    <2>1. IsAnswer(r.kind, a)
        BY <1>3
    <2>2. IsWhole(PackAnswer(r.kind, a))
        BY <1>7, <2>1, AnswerMessage DEF IsWhole
    <2>3. a \in AllResults[r]
        <3>1. e \in {d \in DOMAIN Envs : r \in Envs[d].requests}
            BY <1>2
        <3> QED BY <1>5, <3>1 DEF AllResults
    <2>4. [request |-> r, answer |-> a] # None
        BY <1>4
    <2> QED BY <2>1, <2>2, <2>3, <2>4
<1>9. \A bytes \in Seq(Byte) : [request |-> r, bytes |-> bytes] # None
    <2> HIDE DEF Byte
    <2> QED BY <1>4
<1> QED BY <1>1, <1>3, <1>4, <1>5, <1>6, <1>8, <1>9

\* The size of a message is told by its header.
LEMMA SizeTold ==
    ASSUME NEW whole, IsWhole(whole), NEW a \in Seq(Byte), Len(a) >= 4,
           \A i \in 1..Len(a) : a[i] = whole[i]
    PROVE  SizeOf(a) = SizeOf(whole)
<1>1. a[3] = whole[3]
    <2>1. 3 \in 1..Len(a)
        OBVIOUS
    <2> QED BY <2>1
<1>2. Width.u32 + 1 = 3
    BY DEF Width
<1> QED BY <1>1, <1>2, Zenon DEF SizeOf, NumberAt

\* A request that is packed and not sent is on its way.
LEMMA GoingAtFirst ==
    ASSUME NEW k, NEW r, r # None, IsWhole(PackRequest(r)),
           asked'[k] = r, out'[k] = PackRequest(r), answer'[k] = None, k \notin lost',
           NotArrived(k)', NotQueued(k)', NotAnswered(k)'
    PROVE  Going(k)'
<1>1. PICK whole : whole = PackRequest(r)
    OBVIOUS
<1>2. whole \in Seq(Byte) /\ Len(whole) >= 4 /\ Len(<<>>) = 0 /\ HeaderSize = 4
    BY <1>1 DEF IsWhole, HeaderSize, Width
<1>3. All(<<>>, <<>>, whole) = whole
    BY <1>2, AllToCome
<1>4. buf'[k] = <<>> /\ toServer'[k] = <<>> /\ expected'[k] = HeaderSize
    BY Zenon DEF NotArrived
<1>5. Len(buf'[k]) < Len(whole) /\ Len(buf'[k]) < HeaderSize
    BY <1>2, <1>4
<1>6. All(buf'[k], toServer'[k], out'[k]) = whole
    BY <1>1, <1>3, <1>4, Zenon
<1> QED BY <1>1, <1>4, <1>5, <1>6, Zenon DEF Going

\* A call begins where there was none.
LEMMA BeginLinks ==
    ASSUME IInv, QInv, TInv, NEW k \in Clients, Begin(k)
    PROVE  TInv' /\ RemoteStep
<1>1. PICK r \in E.requests : /\ asked' = [asked EXCEPT ![k] = r]
                              /\ out' = [out EXCEPT ![k] = PackRequest(r)]
    BY DEF Begin
<1>2. /\ asked[k] = None
      /\ inn' = [inn EXCEPT ![k] = <<>>]
      /\ answer' = [answer EXCEPT ![k] = None]
      /\ UNCHANGED <<env, returned, cur>> /\ UNCHANGED sockets /\ UNCHANGED context
      /\ UNCHANGED queueVars
    BY DEF Begin
<1>3. /\ UNCHANGED <<toServer, toClient, lost, buf, expected>>
      /\ UNCHANGED <<head, tail, free, next, item, made>>
    BY <1>2 DEF sockets, context, queueVars
<1>4. From(head)' = From(head) /\ \A j : Post(j)' = Post(j)
    BY <1>3, PostSame
<1>5. r # None /\ IsWhole(PackRequest(r)) /\ r \in AllRequests
    BY AskedIsWhole
<1>6. /\ asked \in [Clients -> E.requests \cup {None}] /\ out \in [Clients -> Seq(Byte)]
      /\ inn \in [Clients -> Seq(Byte)] /\ DOMAIN answer = Clients
    BY DEF IInv, TInv, Typed
<1>7. asked'[k] = r /\ out'[k] = PackRequest(r) /\ inn'[k] = <<>> /\ answer'[k] = None
    <2> HIDE DEF Byte
    <2> QED BY <1>1, <1>2, <1>6
<1>8. Idle(k)
    BY <1>2, Zenon DEF TInv, Link, Cut, Going, Waiting, Coming, Dropped, Idle
<1>9. NotArrived(k)' /\ NotQueued(k)' /\ NotAnswered(k)'
    BY <1>2, <1>3, <1>4, <1>7, <1>8, Zenon DEF Idle, NotArrived, NotQueued, NotAnswered
<1>10. Link(k)'
    <2>1. CASE k \in lost
        BY <1>3, <1>5, <1>7, <1>9, <2>1, Zenon DEF Cut, Link
    <2>2. CASE k \notin lost
        <3>1. Going(k)'
            BY <1>3, <1>5, <1>7, <1>9, <2>2, GoingAtFirst
        <3> QED BY <3>1, Zenon DEF Link
    <2> QED BY <2>1, <2>2
<1>11. ASSUME NEW j \in Clients, j # k PROVE Link(j)'
    <2>1. SameCall(j)
        BY <1>1, <1>2, <1>6, <1>11 DEF SameCall
    <2>2. SameSockets(j) /\ SameContext(j) /\ SameLoop(j)
        BY <1>2, <1>3, <1>4, Zenon DEF SameSockets, SameContext, SameLoop
    <2>3. Link(j)
        BY DEF TInv
    <2> QED BY <1>2, <2>1, <2>2, <2>3, SameLink DEF Same
<1>12. Typed'
    <2>1. inn' \in [Clients -> Seq(Byte)]
        <3>1. <<>> \in Seq(Byte)
            OBVIOUS
        <3> QED BY <1>2, <1>6, <3>1
    <2>2. DOMAIN answer' = Clients
        BY <1>2, <1>6
    <2>3. Typed
        BY DEF TInv
    <2> QED BY <1>2, <1>3, <1>4, <2>1, <2>2, <2>3, Zenon DEF Typed
<1>13. TInv'
    BY <1>10, <1>11, <1>12 DEF TInv
<1>14. RemoteStep
    <2>1. Made' = Made
        BY <1>2, Zenon DEF Made
    <2>2. asked' = [asked EXCEPT ![k] = asked'[k]] /\ asked'[k] \in AllRequests
        BY <1>1, <1>5, <1>7
    <2>3. Remote!Call(k)
        BY <1>2, <2>1, <2>2 DEF Remote!Call
    <2> QED BY <2>3 DEF Remote!Next, RemoteStep
<1> QED BY <1>13, <1>14

\* Bytes of a request go into the socket.
LEMMA SendLinks ==
    ASSUME IInv, QInv, TInv, NEW k \in Clients, Send(k)
    PROVE  TInv' /\ RemoteStep
<1>1. PICK n \in Some(Len(out[k]), E.cap - Len(toServer[k])) :
          /\ toServer' = [toServer EXCEPT ![k] = @ \o First(out[k], n)]
          /\ out' = [out EXCEPT ![k] = Others(@, n)]
    BY DEF Send
<1>2. /\ k \notin lost
      /\ UNCHANGED <<env, asked, inn, returned, toClient, lost, answer, cur>>
      /\ UNCHANGED context /\ UNCHANGED queueVars
    BY DEF Send, loop
<1>3. UNCHANGED <<buf, expected>> /\ UNCHANGED <<head, tail, free, next, item, made>>
    BY <1>2 DEF context, queueVars
<1>4. From(head)' = From(head) /\ \A j : Post(j)' = Post(j)
    BY <1>3, PostSame
<1>5. /\ out \in [Clients -> Seq(Byte)] /\ toServer \in [Clients -> Seq(Byte)]
      /\ buf \in [Clients -> Seq(Byte)]
    BY DEF IInv
<1>6. PICK o \in Seq(Byte), t \in Seq(Byte), b \in Seq(Byte) :
          o = out[k] /\ t = toServer[k] /\ b = buf[k]
    BY <1>5
<1>7. n \in Nat /\ n > 0 /\ n <= Len(o)
    <2>1. Len(o) \in Nat /\ E.cap - Len(t) \in Int
        BY EnvsAssumption DEF IInv, E
    <2> QED BY <1>1, <1>6, <2>1, SomeBytes
<1>8. toServer'[k] = More(t, o, n) /\ out'[k] = Others(o, n)
    <2> HIDE DEF Byte
    <2> QED BY <1>1, <1>5, <1>6 DEF More
<1>9. o # <<>>
    BY <1>7
<1>10. Going(k)
    BY <1>2, <1>6, <1>9, Zenon DEF TInv, Link, Idle, Cut, Waiting, Coming, Dropped
<1>11. PICK whole : whole = PackRequest(asked[k])
    OBVIOUS
<1>12. All(b, More(t, o, n), Others(o, n)) = All(b, t, o)
    BY <1>7, Advanced
<1>13. All(b, t, o) = whole
    BY <1>6, <1>10, <1>11, Zenon DEF Going
<1>14. NotQueued(k)' /\ NotAnswered(k)'
    BY <1>2, <1>4, <1>10, Zenon DEF Going, NotQueued, NotAnswered
<1>15. /\ asked'[k] # None /\ answer'[k] = None /\ k \notin lost'
       /\ All(buf'[k], toServer'[k], out'[k]) = whole
       /\ Len(buf'[k]) < Len(whole)
       /\ expected'[k] = IF Len(buf'[k]) < HeaderSize THEN HeaderSize ELSE Len(whole)
       /\ whole = PackRequest(asked'[k])
    BY <1>2, <1>3, <1>6, <1>8, <1>10, <1>11, <1>12, <1>13, Zenon DEF Going
<1>16. Link(k)'
    BY <1>14, <1>15, Zenon DEF Going, Link
<1>17. ASSUME NEW j \in Clients, j # k PROVE Link(j)'
    <2>1. toServer'[j] = toServer[j] /\ out'[j] = out[j]
        BY <1>1, <1>5, <1>17
    <2>2. SameCall(j) /\ SameSockets(j) /\ SameContext(j) /\ SameLoop(j)
        BY <1>2, <1>3, <1>4, <2>1, Zenon DEF SameCall, SameSockets, SameContext, SameLoop
    <2>3. Link(j)
        BY DEF TInv
    <2> QED BY <1>2, <2>2, <2>3, SameLink DEF Same
<1>18. Typed'
    <2>1. Typed
        BY DEF TInv
    <2> QED BY <1>2, <1>3, <1>4, <2>1, Zenon DEF Typed
<1>19. RemoteStep
    <2>1. Made' = Made
        BY <1>2, Zenon DEF Made
    <2> QED BY <1>2, <2>1, Zenon DEF RemoteStep
<1> QED BY <1>16, <1>17, <1>18, <1>19 DEF TInv

\* A request that is sent again is on its way, and the call that raises is over.
LEMMA BrokenLinks ==
    ASSUME IInv, QInv, TInv, NEW k \in Clients, Broken(k)
    PROVE  TInv' /\ RemoteStep
<1>1. \/ /\ lost' = lost \ {k}
         /\ out' = [out EXCEPT ![k] = PackRequest(asked[k])]
         /\ asked' = asked
      \/ /\ asked' = [asked EXCEPT ![k] = None]
         /\ out' = [out EXCEPT ![k] = <<>>]
         /\ lost' = lost
    BY DEF Broken
<1>2. /\ asked[k] # None /\ k \in lost
      /\ inn' = [inn EXCEPT ![k] = <<>>]
      /\ UNCHANGED <<env, returned, toServer, toClient, answer, cur>>
      /\ UNCHANGED context /\ UNCHANGED queueVars
    BY DEF Broken, loop
<1>3. UNCHANGED <<buf, expected>> /\ UNCHANGED <<head, tail, free, next, item, made>>
    BY <1>2 DEF context, queueVars
<1>4. From(head)' = From(head) /\ \A j : Post(j)' = Post(j)
    BY <1>3, PostSame
<1>5. /\ asked \in [Clients -> E.requests \cup {None}] /\ out \in [Clients -> Seq(Byte)]
      /\ inn \in [Clients -> Seq(Byte)]
    BY DEF IInv, TInv, Typed
<1>6. PICK r \in E.requests : r = asked[k]
    BY <1>2, <1>5
<1>7. IsWhole(PackRequest(r)) /\ r # None
    BY AskedIsWhole
<1>8. Cut(k)
    BY <1>2, Zenon DEF TInv, Link, Idle, Going, Waiting, Coming, Dropped
<1>9. inn'[k] = <<>>
    <2> HIDE DEF Byte
    <2> QED BY <1>2, <1>5
<1>10. NotArrived(k)' /\ NotQueued(k)' /\ NotAnswered(k)'
    BY <1>2, <1>3, <1>4, <1>8, <1>9, Zenon DEF Cut, NotArrived, NotQueued, NotAnswered
<1>11. Link(k)' /\ RemoteStep
    <2>0. Made' = Made
        BY <1>2, Zenon DEF Made
    <2>1. CASE /\ lost' = lost \ {k}
               /\ out' = [out EXCEPT ![k] = PackRequest(asked[k])]
               /\ asked' = asked
        <3>1. out'[k] = PackRequest(r)
            <4> HIDE DEF Byte
            <4> QED BY <1>5, <1>6, <2>1
        <3>2. asked'[k] = r /\ k \notin lost' /\ answer'[k] = None
            BY <1>2, <1>6, <1>8, <2>1 DEF Cut
        <3>3. Going(k)'
            BY <1>7, <1>10, <3>1, <3>2, GoingAtFirst
        <3>4. RemoteStep
            BY <1>2, <2>0, <2>1, Zenon DEF RemoteStep
        <3> QED BY <3>3, <3>4, Zenon DEF Link
    <2>2. CASE /\ asked' = [asked EXCEPT ![k] = None]
               /\ out' = [out EXCEPT ![k] = <<>>]
               /\ lost' = lost
        <3>1. asked'[k] = None /\ out'[k] = <<>>
            <4> HIDE DEF Byte
            <4> QED BY <1>5, <2>2
        <3>2. Idle(k)'
            BY <1>10, <3>1, Zenon DEF Idle, NotAnswered
        <3>3. Remote!Raise(k)
            BY <1>2, <1>8, <2>0, <2>2 DEF Remote!Raise, Cut
        <3>4. RemoteStep
            BY <3>3 DEF RemoteStep, Remote!Next
        <3> QED BY <3>2, <3>4, Zenon DEF Link
    <2> QED BY <1>1, <2>1, <2>2
<1>12. ASSUME NEW j \in Clients, j # k PROVE Link(j)'
    <2>1. /\ asked'[j] = asked[j] /\ out'[j] = out[j] /\ inn'[j] = inn[j]
          /\ j \in lost' <=> j \in lost
        <3>1. asked'[j] = asked[j] /\ (j \in lost' <=> j \in lost)
            BY <1>1, <1>5, <1>12
        <3>2. out'[j] = out[j] /\ inn'[j] = inn[j]
            BY <1>1, <1>2, <1>5, <1>12
        <3> QED BY <3>1, <3>2
    <2>2. SameCall(j) /\ SameSockets(j) /\ SameContext(j) /\ SameLoop(j)
        BY <1>2, <1>3, <1>4, <2>1, Zenon DEF SameCall, SameSockets, SameContext, SameLoop
    <2>3. Link(j)
        BY DEF TInv
    <2> QED BY <1>2, <2>2, <2>3, SameLink DEF Same
<1>13. Typed'
    <2>1. inn' \in [Clients -> Seq(Byte)]
        <3>1. <<>> \in Seq(Byte)
            OBVIOUS
        <3> QED BY <1>2, <1>5, <3>1
    <2>2. Typed
        BY DEF TInv
    <2> QED BY <1>2, <1>3, <1>4, <2>1, <2>2, Zenon DEF Typed
<1> QED BY <1>11, <1>12, <1>13 DEF TInv

\* How much of a message one read may make whole: recv and read ask for the rest of
\* the header, and then for the rest of the body.
LEMMA ReadsPart ==
    ASSUME NEW a \in Seq(Byte), NEW b \in Seq(Byte), NEW c \in Seq(Byte), NEW n \in Nat,
           n > 0, n <= Len(b), NEW whole, IsWhole(whole), whole = All(a, b, c),
           NEW got, got = More(a, b, n)
    PROVE  /\ got \in Seq(Byte) /\ Len(got) = Len(a) + n /\ Len(got) <= Len(whole)
           /\ Others(b, n) \in Seq(Byte)
           /\ All(got, Others(b, n), c) = whole
           /\ Len(got) >= 4 => SizeOf(got) = SizeOf(whole)
           /\ Len(got) = Len(whole) => got = whole /\ Others(b, n) = <<>> /\ c = <<>>
<1>1. PICK o \in Seq(Byte) : o = Others(b, n)
    BY MoreBytes
<1>2. got \in Seq(Byte) /\ Len(got) = Len(a) + n
    BY MoreBytes
<1>3. All(got, o, c) = whole
    BY <1>1, Advanced
<1>4. /\ whole \in Seq(Byte) /\ Len(whole) = Len(got) + Len(o) + Len(c)
      /\ \A i \in 1..Len(got) : got[i] = whole[i]
      /\ Len(got) = Len(whole) => got = whole /\ o = <<>> /\ c = <<>>
    <2>1. ComesFirst(All(got, o, c), got, o, c)
        BY <1>2, Came
    <2> QED BY <1>3, <2>1, Zenon DEF ComesFirst
<1>5. Len(got) >= 4 => SizeOf(got) = SizeOf(whole)
    BY <1>2, <1>4, SizeTold
<1>6. Len(got) <= Len(whole)
    <2>1. Len(got) \in Nat /\ Len(o) \in Nat /\ Len(c) \in Nat
        BY <1>1, <1>2
    <2> QED BY <1>4, <2>1
<1> QED BY <1>1, <1>2, <1>3, <1>4, <1>5, <1>6

\* What one call returned changes what that client made of it.
LEMMA MadeOne ==
    ASSUME NEW k \in Clients, NEW r, NEW got, NEW y, [request |-> r, bytes |-> got] # None,
           ReadAnswer(r.kind, TypeOf(got), BodyOf(got)) = y,
           returned'[k] = [request |-> r, bytes |-> got],
           \A j \in Clients : j # k => returned'[j] = returned[j]
    PROVE  Made' = [Made EXCEPT ![k] = y]
<1> DEFINE OfCall(x) == IF x = None THEN None
                        ELSE LET bytes == x.bytes
                             IN  ReadAnswer(x.request.kind, TypeOf(bytes), BodyOf(bytes))
<1>1. Made = [j \in Clients |-> OfCall(returned[j])]
    BY Zenon DEF Made
<1>2. Made' = [j \in Clients |-> OfCall(returned'[j])]
    BY Zenon DEF Made
<1>3. OfCall(returned'[k]) = y
    <2>1. PICK x : x = [request |-> r, bytes |-> got]
        OBVIOUS
    <2>2. x # None /\ x.request = r /\ x.bytes = got /\ returned'[k] = x
        BY <2>1
    <2> QED BY <2>2, Zenon
<1> HIDE DEF OfCall
<1>4. \A j \in Clients : j # k => OfCall(returned'[j]) = OfCall(returned[j])
    BY Zenon
<1> QED BY <1>1, <1>2, <1>3, <1>4

\* The call returns with the last byte of its answer.
LEMMA ReceiveLinks ==
    ASSUME IInv, QInv, TInv, NEW k \in Clients, Receive(k)
    PROVE  TInv' /\ RemoteStep
<1>1. PICK n \in Some(Len(toClient[k]), Wanted(k)) :
        LET got == inn[k] \o First(toClient[k], n)
        IN  /\ toClient' = [toClient EXCEPT ![k] = Others(@, n)]
            /\ IF Len(got) >= HeaderSize /\ Len(got) = HeaderSize + SizeOf(got)
               THEN /\ returned' = [returned EXCEPT ![k] = [request |-> asked[k], bytes |-> got]]
                    /\ asked' = [asked EXCEPT ![k] = None]
                    /\ inn' = [inn EXCEPT ![k] = <<>>]
               ELSE /\ inn' = [inn EXCEPT ![k] = got]
                    /\ UNCHANGED <<asked, returned>>
    BY DEF Receive
<1>2. /\ asked[k] # None /\ out[k] = <<>>
      /\ UNCHANGED <<env, out, toServer, lost, answer, cur>>
      /\ UNCHANGED context /\ UNCHANGED queueVars
    BY DEF Receive, loop
<1>3. UNCHANGED <<buf, expected>> /\ UNCHANGED <<head, tail, free, next, item, made>>
    BY <1>2 DEF context, queueVars
<1>4. From(head)' = From(head) /\ \A j : Post(j)' = Post(j)
    BY <1>3, PostSame
<1>5. /\ asked \in [Clients -> E.requests \cup {None}] /\ toClient \in [Clients -> Seq(Byte)]
      /\ inn \in [Clients -> Seq(Byte)] /\ DOMAIN returned = Clients
    BY DEF IInv, TInv, Typed
<1>6. PICK r \in E.requests : r = asked[k]
    BY <1>2, <1>5
<1>7. PICK a \in Seq(Byte), b \in Seq(Byte) : a = inn[k] /\ b = toClient[k]
    BY <1>5
<1>8. HeaderSize = 4 /\ Len(a) \in Nat /\ Len(b) \in Nat
    BY DEF HeaderSize, Width
<1>9. Coming(k)
    <2>1. ASSUME NotAnswered(k) PROVE FALSE
        <3>1. Len(toClient[k]) = 0 /\ Len(inn[k]) = 0
            BY <2>1 DEF NotAnswered
        <3>2. Wanted(k) = 4
            BY <1>8, <3>1 DEF Wanted
        <3>3. n \in Some(0, 4)
            BY <1>1, <3>1, <3>2
        <3>4. 0 \in Nat /\ 4 \in Int
            OBVIOUS
        <3>5. n \in Nat /\ n > 0 /\ n <= 0
            BY ONLY <3>3, <3>4, SomeBytes
        <3> QED BY ONLY <3>5
    <2> QED BY <1>2, <2>1, Zenon DEF TInv, Link, Idle, Cut, Going, Waiting, Dropped
<1>10. PICK answered \in E.results[r.kind] :
        /\ answer[k] = [request |-> r, answer |-> answered]
        /\ All(a, b, Writing(k)) = PackAnswer(r.kind, answered)
        /\ Len(a) < Len(PackAnswer(r.kind, answered))
    BY <1>6, <1>7, <1>9, Zenon DEF Coming
<1>11. PICK whole : whole = PackAnswer(r.kind, answered)
    OBVIOUS
<1>12. /\ IsWhole(whole) /\ IsAnswer(r.kind, answered) /\ answered \in AllResults[r]
       /\ [request |-> r, answer |-> answered] # None
    BY <1>11, AskedIsWhole
<1>13. whole \in Seq(Byte) /\ SizeOf(whole) \in Nat /\ Len(whole) = 4 + SizeOf(whole)
    BY <1>12 DEF IsWhole
<1>14. PICK c \in Seq(Byte) : c = Writing(k)
    <2>1. Writing(k) \in Seq(Byte)
        <3>1. cur.conn = k => cur.out \in Seq(Byte)
            BY NoneAssumption DEF TInv, Typed
        <3>2. <<>> \in Seq(Byte)
            OBVIOUS
        <3> QED BY <3>1, <3>2, Zenon DEF Writing
    <2> QED BY <2>1
<1>15. whole = All(a, b, c) /\ Len(a) < Len(whole)
    BY <1>10, <1>11, <1>14
<1>16. Wanted(k) \in Int /\ Len(a) + Wanted(k) <= Len(whole)
       /\ (Len(a) < 4 => Len(a) + Wanted(k) <= 4)
    <2>1. \A i \in 1..Len(a) : a[i] = whole[i]
        <3>1. ComesFirst(All(a, b, c), a, b, c)
            BY Came
        <3> QED BY <1>15, <3>1, Zenon DEF ComesFirst
    <2>2. Len(a) >= 4 => SizeOf(a) = SizeOf(whole)
        BY <1>12, <2>1, SizeTold
    <2>3. Wanted(k) = IF Len(a) < 4 THEN 4 - Len(a) ELSE 4 + SizeOf(a) - Len(a)
        BY <1>7, <1>8 DEF Wanted
    <2> QED BY <1>8, <1>13, <2>2, <2>3
<1>17. n \in Nat /\ n > 0 /\ n <= Len(b) /\ n <= Wanted(k)
    BY <1>1, <1>7, <1>8, <1>16, SomeBytes
<1>18. PICK got : got = More(a, b, n)
    OBVIOUS
<1>19. /\ got \in Seq(Byte) /\ Len(got) = Len(a) + n /\ Len(got) <= Len(whole)
       /\ Others(b, n) \in Seq(Byte)
       /\ All(got, Others(b, n), c) = whole
       /\ Len(got) >= 4 => SizeOf(got) = SizeOf(whole)
       /\ Len(got) = Len(whole) => got = whole /\ Others(b, n) = <<>> /\ c = <<>>
    BY <1>12, <1>15, <1>17, <1>18, ReadsPart
<1>20. /\ toClient' = [toClient EXCEPT ![k] = Others(b, n)]
       /\ \/ /\ Len(got) >= 4 /\ Len(got) = 4 + SizeOf(got)
             /\ returned' = [returned EXCEPT ![k] = [request |-> r, bytes |-> got]]
             /\ asked' = [asked EXCEPT ![k] = None]
             /\ inn' = [inn EXCEPT ![k] = <<>>]
          \/ /\ ~(Len(got) >= 4 /\ Len(got) = 4 + SizeOf(got))
             /\ inn' = [inn EXCEPT ![k] = got]
             /\ UNCHANGED <<asked, returned>>
    BY <1>1, <1>6, <1>7, <1>8, <1>18, Zenon DEF More
<1>21. toClient'[k] = Others(b, n)
    <2> HIDE DEF Byte
    <2> QED BY <1>5, <1>20
<1>22. Link(k)' /\ RemoteStep
    <2>1. CASE /\ Len(got) >= 4 /\ Len(got) = 4 + SizeOf(got)
               /\ returned' = [returned EXCEPT ![k] = [request |-> r, bytes |-> got]]
               /\ asked' = [asked EXCEPT ![k] = None]
               /\ inn' = [inn EXCEPT ![k] = <<>>]
        <3>1. Len(got) = Len(whole)
            BY <1>13, <1>19, <2>1
        <3>2. got = whole /\ toClient'[k] = <<>> /\ c = <<>>
            BY <1>19, <1>21, <3>1
        <3>3. cur.conn # k
            <4>1. cur.conn = k => Len(c) > 0
                BY <1>14, NoneAssumption DEF Writing, TInv, Typed
            <4>2. Len(c) = 0
                BY <3>2
            <4> QED BY <4>1, <4>2
        <3>4. asked'[k] = None
            BY <1>5, <2>1
        <3>5. NotArrived(k)' /\ NotQueued(k)' /\ out'[k] = <<>>
            BY <1>2, <1>3, <1>4, <1>9, <3>3, Zenon DEF Coming, NotArrived, NotQueued
        <3>6. Link(k)'
            BY <3>2, <3>4, <3>5, Zenon DEF Idle, Link
        <3>7. Made' = [Made EXCEPT ![k] = Meaning(r, answered)]
            <4>1. [request |-> r, bytes |-> got] # None
                BY <1>19, AskedIsWhole
            <4>2. ReadAnswer(r.kind, TypeOf(got), BodyOf(got)) = Meaning(r, answered)
                <5>1. r.kind \in DOMAIN Types
                    BY AskedIsWhole DEF IsRequest
                <5> QED BY <1>11, <1>12, <3>2, <5>1, AnswersAreUnderstood DEF Meaning
            <4>3. /\ returned'[k] = [request |-> r, bytes |-> got]
                  /\ \A j \in Clients : j # k => returned'[j] = returned[j]
                BY <1>5, <2>1
            <4> QED BY <4>1, <4>2, <4>3, MadeOne
        <3>8. Remote!Return(k)
            <4>1. answer[k].answer = answered /\ answer[k] # None
                BY <1>10, <1>12
            <4> QED BY <1>2, <1>6, <2>1, <3>7, <4>1 DEF Remote!Return
        <3> QED BY <3>6, <3>8 DEF RemoteStep, Remote!Next
    <2>2. CASE /\ ~(Len(got) >= 4 /\ Len(got) = 4 + SizeOf(got))
               /\ inn' = [inn EXCEPT ![k] = got]
               /\ UNCHANGED <<asked, returned>>
        <3>1. Len(got) < Len(whole)
            <4>1. Len(got) # Len(whole)
                BY <1>13, <1>19, <2>2
            <4>2. Len(got) \in Nat
                BY <1>19
            <4> QED BY <1>13, <1>19, <4>1, <4>2
        <3>2. inn'[k] = got
            <4> HIDE DEF Byte
            <4> QED BY <1>5, <2>2
        <3>3. Writing(k)' = c /\ E' = E
            BY <1>2, <1>14 DEF Writing, E
        <3>4. All(inn'[k], toClient'[k], Writing(k)') = whole /\ Len(inn'[k]) < Len(whole)
            BY <1>19, <1>21, <3>1, <3>2, <3>3, Zenon
        <3>5. NotArrived(k)' /\ Post(k)' = {} /\ out'[k] = <<>> /\ k \notin lost'
            BY <1>2, <1>3, <1>4, <1>9, Zenon DEF Coming, NotArrived
        <3>6. asked'[k] = r /\ asked'[k] # None /\ answer'[k] = [request |-> r, answer |-> answered]
            BY <1>2, <1>6, <1>10, <2>2
        <3>7. Coming(k)'
            BY <1>11, <3>3, <3>4, <3>5, <3>6, Zenon DEF Coming
        <3>8. Made' = Made
            BY <2>2, Zenon DEF Made
        <3>9. RemoteStep
            BY <1>2, <2>2, <3>8, Zenon DEF RemoteStep
        <3> QED BY <3>7, <3>9, Zenon DEF Link
    <2> QED BY <1>20, <2>1, <2>2
<1>23. ASSUME NEW j \in Clients, j # k PROVE Link(j)'
    <2>1. asked'[j] = asked[j] /\ inn'[j] = inn[j] /\ toClient'[j] = toClient[j]
        <3>1. asked'[j] = asked[j]
            BY <1>5, <1>20, <1>23
        <3>2. inn'[j] = inn[j]
            BY <1>5, <1>20, <1>23
        <3>3. toClient'[j] = toClient[j]
            BY <1>5, <1>20, <1>23
        <3> QED BY <3>1, <3>2, <3>3
    <2>2. SameCall(j) /\ SameSockets(j) /\ SameContext(j) /\ SameLoop(j)
        BY <1>2, <1>3, <1>4, <2>1, Zenon DEF SameCall, SameSockets, SameContext, SameLoop
    <2>3. Link(j)
        BY DEF TInv
    <2> QED BY <1>2, <2>2, <2>3, SameLink DEF Same
<1>24. Typed'
    <2>1. inn' \in [Clients -> Seq(Byte)] /\ toClient' \in [Clients -> Seq(Byte)]
        <3>1. <<>> \in Seq(Byte)
            OBVIOUS
        <3>2. inn' \in [Clients -> Seq(Byte)]
            <4> HIDE DEF Byte
            <4> QED BY <1>5, <1>19, <1>20, <3>1
        <3>3. toClient' \in [Clients -> Seq(Byte)]
            <4> HIDE DEF Byte
            <4> QED BY <1>5, <1>19, <1>20
        <3> QED BY <3>2, <3>3
    <2>2. DOMAIN returned' = Clients
        BY <1>5, <1>20
    <2>3. Typed
        BY DEF TInv
    <2> QED BY <1>2, <1>3, <1>4, <2>1, <2>2, <2>3, Zenon DEF Typed
<1> QED BY <1>22, <1>23, <1>24 DEF TInv

\* A connection that the listener closes takes with it what was sent on it.
LEMMA CloseLinks ==
    ASSUME IInv, QInv, TInv, NEW k \in Clients, Going(k), CloseClient(k),
           UNCHANGED env, UNCHANGED library, UNCHANGED loop
    PROVE  TInv' /\ RemoteStep
<1>1. /\ lost' = lost \cup {k}
      /\ toServer' = [toServer EXCEPT ![k] = <<>>]
      /\ toClient' = [toClient EXCEPT ![k] = <<>>]
      /\ buf' = [buf EXCEPT ![k] = <<>>]
      /\ expected' = [expected EXCEPT ![k] = HeaderSize]
      /\ UNCHANGED <<head, tail, free, next, item, made>>
    BY DEF CloseClient, queueVars
<1>2. UNCHANGED <<env, asked, out, inn, returned, answer, cur>>
    BY DEF library, loop
<1>3. From(head)' = From(head) /\ \A j : Post(j)' = Post(j)
    BY <1>1, PostSame
<1>4. /\ toServer \in [Clients -> Seq(Byte)] /\ toClient \in [Clients -> Seq(Byte)]
      /\ buf \in [Clients -> Seq(Byte)] /\ DOMAIN expected = Clients
    BY DEF IInv, TInv, Typed
<1>5. /\ toServer'[k] = <<>> /\ toClient'[k] = <<>> /\ buf'[k] = <<>>
      /\ expected'[k] = HeaderSize /\ k \in lost'
    <2> HIDE DEF Byte
    <2> QED BY <1>1, <1>4
<1>6. NotArrived(k)' /\ NotQueued(k)' /\ NotAnswered(k)'
    BY <1>2, <1>3, <1>5, Zenon DEF Going, NotArrived, NotQueued, NotAnswered
<1>7. Link(k)'
    BY <1>2, <1>5, <1>6, Zenon DEF Going, Cut, Link
<1>8. ASSUME NEW j \in Clients, j # k PROVE Link(j)'
    <2>1. toServer'[j] = toServer[j] /\ toClient'[j] = toClient[j]
        BY <1>1, <1>4, <1>8
    <2>2. buf'[j] = buf[j] /\ expected'[j] = expected[j] /\ (j \in lost' <=> j \in lost)
        BY <1>1, <1>4, <1>8
    <2>3. SameCall(j) /\ SameSockets(j) /\ SameContext(j) /\ SameLoop(j)
        BY <1>2, <1>3, <2>1, <2>2, Zenon DEF SameCall, SameSockets, SameContext, SameLoop
    <2>4. Link(j)
        BY DEF TInv
    <2> QED BY <1>2, <2>3, <2>4, SameLink DEF Same
<1>9. Typed'
    <2>1. toClient' \in [Clients -> Seq(Byte)]
        <3>1. <<>> \in Seq(Byte)
            OBVIOUS
        <3> HIDE DEF Byte
        <3> QED BY <1>1, <1>4, <3>1
    <2>2. Typed
        BY DEF TInv
    <2> QED BY <1>1, <1>2, <1>3, <2>1, <2>2, Zenon DEF Typed
<1>10. RemoteStep
    <2>1. Made' = Made
        BY <1>2, Zenon DEF Made
    <2> QED BY <1>2, <2>1, Zenon DEF RemoteStep
<1> QED BY <1>7, <1>8, <1>9, <1>10 DEF TInv

\* What the listener makes of a request that is whole, unless it has no memory.
LEMMA HandleWhole ==
    ASSUME IInv, NEW k, NEW r \in E.requests, NEW got, got = PackRequest(r), Handle(k, got)
    PROVE  Push([conn |-> k, request |-> r]) \/ UNCHANGED queueVars
<1>1. IsRequest(r)
    BY AskedIsWhole
<1>2. ParseRequest(TypeOf(got), BodyOf(got)) = r
    BY <1>1, RequestsAreUnderstood
<1>3. r # Refused
    BY <1>1 DEF IsRequest, Refused, Types
<1> QED BY <1>2, <1>3, Zenon DEF Handle

\* A request is in the queue, or dropped, as soon as it is whole.
LEMMA ReadLinks ==
    ASSUME IInv, QInv, TInv, NEW k \in Clients, Read(k)
    PROVE  TInv' /\ RemoteStep
<1>1. PICK n \in Some(Len(toServer[k]), expected[k] - Len(buf[k])) :
        LET got == buf[k] \o First(toServer[k], n)
            want == IF Len(got) = HeaderSize THEN HeaderSize + SizeOf(got) ELSE expected[k]
            tooLong == want > HeaderSize + MaxBody
        IN  \/ tooLong /\ CloseClient(k)
            \/ want > alloc[k] /\ E.faults /\ CloseClient(k)
            \/ /\ ~tooLong
               /\ TakeIn(k, got, want)
               /\ toServer' = [toServer EXCEPT ![k] = Others(@, n)]
               /\ UNCHANGED toClient
    BY DEF Read
<1>2. UNCHANGED env /\ UNCHANGED library /\ UNCHANGED loop
    BY DEF Read
<1>3. UNCHANGED <<env, asked, out, inn, returned, answer, cur>>
    BY <1>2 DEF library, loop
<1>4. /\ asked \in [Clients -> E.requests \cup {None}]
      /\ toServer \in [Clients -> Seq(Byte)] /\ buf \in [Clients -> Seq(Byte)]
      /\ out \in [Clients -> Seq(Byte)] /\ expected \in [Clients -> Nat]
    BY DEF IInv
<1>5. PICK a \in Seq(Byte), b \in Seq(Byte), c \in Seq(Byte) :
          a = buf[k] /\ b = toServer[k] /\ c = out[k]
    BY <1>4
<1>6. HeaderSize = 4 /\ Len(a) \in Nat /\ Len(b) \in Nat /\ expected[k] \in Nat
    BY <1>4 DEF HeaderSize, Width
<1>7. n \in Nat /\ n > 0 /\ n <= Len(b) /\ n <= expected[k] - Len(a)
    BY <1>1, <1>5, <1>6, SomeBytes
<1>8. Going(k)
    <2>1. b # <<>>
        BY <1>7
    <2> QED BY <1>5, <2>1, Zenon DEF TInv, Link, Idle, Cut, Waiting, Coming, Dropped, NotArrived
<1>9. PICK r \in E.requests : r = asked[k] /\ r # None
    BY <1>4, <1>8 DEF Going
<1>10. PICK whole : whole = PackRequest(r) /\ IsWhole(whole)
    BY AskedIsWhole
<1>11. /\ whole = All(a, b, c) /\ Len(a) < Len(whole)
       /\ expected[k] = IF Len(a) < HeaderSize THEN HeaderSize ELSE Len(whole)
    BY <1>5, <1>8, <1>9, <1>10, Zenon DEF Going
<1>12. whole \in Seq(Byte) /\ Len(whole) \in Nat /\ Len(whole) >= 4 /\ SizeOf(whole) = Len(whole) - 4
    BY <1>10 DEF IsWhole
<1>13. PICK got : got = More(a, b, n)
    OBVIOUS
<1>14. /\ got \in Seq(Byte) /\ Len(got) = Len(a) + n /\ Len(got) <= Len(whole)
       /\ Others(b, n) \in Seq(Byte)
       /\ All(got, Others(b, n), c) = whole
       /\ Len(got) >= 4 => SizeOf(got) = SizeOf(whole)
       /\ Len(got) = Len(whole) => got = whole /\ Others(b, n) = <<>> /\ c = <<>>
    BY <1>7, <1>10, <1>11, <1>13, ReadsPart
<1>15. PICK want : want = IF Len(got) = HeaderSize THEN HeaderSize + SizeOf(got) ELSE expected[k]
    OBVIOUS
<1>16. /\ want = IF Len(got) < HeaderSize THEN HeaderSize ELSE Len(whole)
       /\ Len(got) = want <=> Len(got) = Len(whole)
    <2>1. PICK m \in Nat : m = Len(whole) /\ m >= 4
        BY <1>12
    <2>2. PICK size : size = SizeOf(got)
        OBVIOUS
    <2>3. PICK x \in Nat : x = Len(a)
        BY <1>6
    <2>4. PICK l \in Nat : l = Len(got)
        BY <1>14
    <2>5. PICK expects \in Nat : expects = expected[k]
        BY <1>6
    <2>6. l = x + n /\ l <= m /\ (l >= 4 => size = m - 4)
        BY <1>12, <1>14, <2>1, <2>2, <2>3, <2>4
    <2>7. n > 0 /\ n <= expects - x
        BY <1>7, <2>3, <2>5
    <2>8. expects = IF x < 4 THEN 4 ELSE m
        BY <1>6, <1>11, <2>1, <2>3, <2>5
    <2>9. want = IF l = 4 THEN 4 + size ELSE expects
        BY <1>6, <1>15, <2>2, <2>4, <2>5
    <2>10. want = (IF l < 4 THEN 4 ELSE m) /\ (l = want <=> l = m)
        <3>1. want = IF l = 4 THEN m ELSE expects
            <4>1. l = 4 => 4 + size = m
                BY <2>6
            <4> QED BY <2>9, <4>1, Zenon
        <3>2. PICK i \in Nat : i = n
            BY <1>7
        <3>3. l = x + i /\ l <= m /\ m >= 4 /\ i > 0 /\ i <= expects - x
            BY <2>1, <2>6, <2>7, <3>2
        <3>4. CASE x < 4
            <4>1. expects = 4
                BY <2>8, <3>4
            <4>2. want = IF l = 4 THEN m ELSE 4
                BY <3>1, <4>1, Zenon
            <4>3. l <= 4
                BY ONLY <3>3, <4>1, x \in Nat
            <4> QED BY ONLY <3>3, <4>2, <4>3
        <3>5. CASE x >= 4
            <4>1. want = m
                BY <2>8, <3>1, <3>5
            <4> QED BY ONLY <3>3, <3>5, <4>1
        <3> QED BY <3>4, <3>5
    <2> QED BY <1>6, <2>1, <2>4, <2>10, Zenon
<1>17. \/ CloseClient(k)
       \/ /\ TakeIn(k, got, want)
          /\ toServer' = [toServer EXCEPT ![k] = Others(b, n)]
          /\ toClient' = toClient
    BY <1>1, <1>5, <1>13, <1>15, Zenon DEF More
<1>18. CASE CloseClient(k)
    BY <1>2, <1>8, <1>18, CloseLinks
<1>19. CASE /\ TakeIn(k, got, want)
            /\ toServer' = [toServer EXCEPT ![k] = Others(b, n)]
            /\ toClient' = toClient
    <2>1. lost' = lost /\ toServer'[k] = Others(b, n)
        <3> HIDE DEF Byte
        <3> QED BY <1>4, <1>19 DEF TakeIn
    <2>2. RemoteStep
        <3>1. Made' = Made
            BY <1>3, Zenon DEF Made
        <3> QED BY <1>3, <3>1, Zenon DEF RemoteStep
    <2>3. Typed
        BY DEF TInv
    <2>4. ASSUME NEW j \in Clients, j # k, Post(j)' = Post(j),
                 buf'[j] = buf[j], expected'[j] = expected[j]
          PROVE  Link(j)'
        <3>1. toServer'[j] = toServer[j]
            BY <1>4, <1>19, <2>4
        <3>2. SameCall(j) /\ SameSockets(j) /\ SameContext(j) /\ SameLoop(j)
            BY <1>3, <1>19, <2>1, <2>4, <3>1, Zenon
               DEF SameCall, SameSockets, SameContext, SameLoop
        <3>3. Link(j)
            BY DEF TInv
        <3> QED BY <1>3, <3>2, <3>3, SameLink DEF Same
    <2>5. CASE Len(got) = want
        <3>1. /\ buf' = [buf EXCEPT ![k] = <<>>]
              /\ expected' = [expected EXCEPT ![k] = HeaderSize]
              /\ Handle(k, got)
            BY <1>19, <2>5 DEF TakeIn
        <3>2. got = whole /\ toServer'[k] = <<>> /\ c = <<>>
            BY <1>14, <1>16, <2>1, <2>5
        <3>3. PICK msg : msg = [conn |-> k, request |-> r]
            OBVIOUS
        <3>4. buf'[k] = <<>> /\ expected'[k] = HeaderSize
            <4> HIDE DEF Byte
            <4> QED BY <1>4, <3>1
        <3>5. NotArrived(k)' /\ NotAnswered(k)' /\ out'[k] = <<>>
            BY <1>3, <1>5, <1>8, <1>19, <3>2, <3>4, Zenon DEF Going, NotArrived, NotAnswered
        <3>6. /\ asked'[k] = r /\ asked'[k] # None /\ answer'[k] = None /\ k \notin lost'
              /\ cur'.conn # k
            BY <1>3, <1>8, <1>9, <2>1, Zenon DEF Going, NotQueued
        <3>7. ASSUME NEW j \in Clients, j # k, Post(j)' = Post(j) PROVE Link(j)'
            <4>1. buf'[j] = buf[j] /\ expected'[j] = expected[j]
                BY <1>4, <3>1, <3>7
            <4> QED BY <2>4, <3>7, <4>1
        <3>8. CASE Push(msg)
            <4>1. msg.conn = k
                BY <3>3
            <4>2. /\ DOMAIN item' = Nodes
                  /\ \A j : msg.conn # j => Post(j)' = Post(j)
                  /\ Post(k)' = Post(k) \cup {<<NewNode, msg>>}
                  /\ \A x \in From(head)' : item'[x] = msg \/ (x \in From(head) /\ item'[x] = item[x])
                BY <2>3, <3>8, <4>1, PostPush DEF Typed
            <4>3. NewNode \in Nodes
                BY <3>8, PushKeeps
            <4>4. Post(k)' = {<<NewNode, msg>>}
                BY <1>8, <4>2 DEF Going, NotQueued
            <4>5. Waiting(k)'
                BY <3>3, <3>5, <3>6, <4>3, <4>4, Zenon DEF Waiting
            <4>6. ASSUME NEW j \in Clients, j # k PROVE Link(j)'
                <5>1. Post(j)' = Post(j)
                    BY <4>1, <4>2, <4>6
                <5> QED BY <3>7, <4>6, <5>1
            <4>7. Typed'
                <5>1. \A x \in From(head)' : item'[x].conn \in Clients \cup {None}
                    BY <2>3, <4>1, <4>2 DEF Typed
                <5> QED BY <1>3, <1>19, <2>3, <4>2, <5>1, Zenon DEF Typed
            <4> QED BY <2>2, <4>5, <4>6, <4>7 DEF TInv, Link
        <3>9. CASE UNCHANGED queueVars
            <4>1. UNCHANGED <<head, tail, free, next, item, made>>
                BY <3>9 DEF queueVars
            <4>2. From(head)' = From(head) /\ \A j : Post(j)' = Post(j)
                BY <4>1, PostSame
            <4>3. NotQueued(k)'
                BY <1>8, <3>6, <4>2, Zenon DEF Going, NotQueued
            <4>4. Dropped(k)'
                BY <3>5, <3>6, <4>3, Zenon DEF Dropped
            <4>5. ASSUME NEW j \in Clients, j # k PROVE Link(j)'
                BY <3>7, <4>2, <4>5
            <4>6. Typed'
                BY <1>3, <1>19, <2>3, <4>1, <4>2, Zenon DEF Typed
            <4> QED BY <2>2, <4>4, <4>5, <4>6 DEF TInv, Link
        <3> QED
            BY <1>10, <3>1, <3>2, <3>3, <3>8, <3>9, HandleWhole
    <2>6. CASE Len(got) # want
        <3>1. /\ buf' = [buf EXCEPT ![k] = got]
              /\ expected' = [expected EXCEPT ![k] = want]
              /\ UNCHANGED <<head, tail, free, next, item, made>>
            BY <1>19, <2>6 DEF TakeIn, queueVars
        <3>2. From(head)' = From(head) /\ \A j : Post(j)' = Post(j)
            BY <3>1, PostSame
        <3>3. buf'[k] = got /\ expected'[k] = want
            <4> HIDE DEF Byte
            <4> QED BY <1>4, <3>1
        <3>4. Len(got) < Len(whole)
            BY <1>12, <1>14, <1>16, <2>6
        <3>5. NotQueued(k)' /\ NotAnswered(k)'
            BY <1>3, <1>8, <1>19, <3>2, Zenon DEF Going, NotQueued, NotAnswered
        <3>6. /\ asked'[k] = r /\ asked'[k] # None /\ answer'[k] = None /\ k \notin lost'
              /\ out'[k] = c
            BY <1>3, <1>5, <1>8, <1>9, <2>1, Zenon DEF Going
        <3>7. /\ All(buf'[k], toServer'[k], out'[k]) = whole /\ Len(buf'[k]) < Len(whole)
              /\ expected'[k] = IF Len(buf'[k]) < HeaderSize THEN HeaderSize ELSE Len(whole)
            BY <1>14, <1>16, <2>1, <3>3, <3>4, <3>6, Zenon
        <3>8. Going(k)'
            BY <1>10, <3>5, <3>6, <3>7, Zenon DEF Going
        <3>9. ASSUME NEW j \in Clients, j # k PROVE Link(j)'
            <4>1. buf'[j] = buf[j] /\ expected'[j] = expected[j]
                BY <1>4, <3>1, <3>9
            <4> QED BY <2>4, <3>2, <3>9, <4>1
        <3>10. Typed'
            BY <1>3, <1>19, <2>3, <3>1, <3>2, Zenon DEF Typed
        <3> QED BY <2>2, <3>8, <3>9, <3>10 DEF TInv, Link
    <2> QED BY <2>5, <2>6
<1> QED BY <1>17, <1>18, <1>19

\* The event loop answers the client whose request it takes from the queue.
LEMMA DispatchLinks ==
    ASSUME IInv, QInv, TInv, Dispatch
    PROVE  TInv' /\ RemoteStep
<1>1. PICK m : m = item[head]
    OBVIOUS
<1>2. /\ Pop /\ cur.conn = None
      /\ UNCHANGED env /\ UNCHANGED library /\ UNCHANGED sockets /\ UNCHANGED context
      /\ \/ m.conn = None /\ UNCHANGED <<answer, cur>>
         \/ m.conn # None /\ UNCHANGED <<answer, cur>>
         \/ /\ m.conn # None
            /\ \E a \in E.results[m.request.kind] :
                /\ answer' = [answer EXCEPT ![m.conn] = [request |-> m.request, answer |-> a]]
                /\ \/ cur' = [conn |-> m.conn, out |-> PackAnswer(m.request.kind, a)]
                   \/ UNCHANGED cur
    BY <1>1 DEF Dispatch, NoAnswer
<1>3. UNCHANGED <<env, asked, out, inn, returned, toServer, toClient, lost, buf, expected>>
    BY <1>2 DEF library, sockets, context
<1>4. /\ head \in From(head) /\ From(head)' \subseteq From(head) /\ item' = item
      /\ \A k : m.conn # k => Post(k)' = Post(k)
      /\ \A k : m.conn = k => <<head, m>> \in Post(k) /\ Post(k)' = Post(k) \ {<<head, m>>}
    BY <1>1, <1>2, PostPop
<1>5. Typed
    BY DEF TInv
<1>6. m.conn \in Clients \cup {None} /\ DOMAIN answer = Clients
    BY <1>1, <1>4, <1>5 DEF Typed
<1>7. \A x \in From(head)' : item'[x].conn \in Clients \cup {None}
    BY <1>4, <1>5 DEF Typed
<1>8. Made' = Made
    BY <1>3, Zenon DEF Made
<1>9. ASSUME NEW j \in Clients, m.conn # j, answer'[j] = answer[j], cur'.conn # j
      PROVE  Link(j)'
    <2>1. cur.conn # j
        BY <1>2, NoneAssumption
    <2>2. Post(j)' = Post(j)
        BY <1>4, <1>9
    <2>3. SameCall(j) /\ SameSockets(j) /\ SameContext(j) /\ SameLoop(j)
        BY <1>3, <1>9, <2>1, <2>2, Zenon DEF SameCall, SameSockets, SameContext, SameLoop
    <2>4. Link(j)
        BY DEF TInv
    <2> QED BY <1>3, <2>3, <2>4, SameLink DEF Same
<1>10. CASE m.conn = None
    <2>1. UNCHANGED <<answer, cur>>
        BY <1>2, <1>10
    <2>2. ASSUME NEW j \in Clients PROVE Link(j)'
        <3>1. m.conn # j /\ answer'[j] = answer[j] /\ cur'.conn # j
            BY <1>2, <1>10, <2>1, NoneAssumption
        <3> QED BY <1>9, <3>1
    <2>3. Typed'
        BY <1>3, <1>4, <1>5, <1>7, <2>1, Zenon DEF Typed
    <2>4. RemoteStep
        BY <1>3, <1>8, <2>1, Zenon DEF RemoteStep
    <2> QED BY <2>2, <2>3, <2>4 DEF TInv
<1>11. CASE m.conn # None
    <2>1. PICK k \in Clients : k = m.conn
        BY <1>6, <1>11
    <2>2. <<head, m>> \in Post(k) /\ Post(k)' = Post(k) \ {<<head, m>>}
        BY <1>4, <2>1
    <2>3. Waiting(k)
        <3>1. Post(k) # {}
            BY <2>2
        <3> QED BY <3>1, Zenon DEF TInv, Link, Idle, Cut, Going, Coming, Dropped, NotQueued
    <2>4. PICK r \in E.requests : r = asked[k] /\ r # None
        <3>1. asked \in [Clients -> E.requests \cup {None}]
            BY DEF IInv
        <3> QED BY <2>3, <3>1 DEF Waiting
    <2>5. PICK x : Post(k) = {<<x, [conn |-> k, request |-> r]>>}
        BY <2>3, <2>4, Zenon DEF Waiting
    <2>6. m.request = r /\ Post(k)' = {}
        BY <2>2, <2>5
    <2>7. /\ NotArrived(k)' /\ NotAnswered(k)' /\ out'[k] = <<>> /\ k \notin lost'
          /\ asked'[k] = r /\ asked'[k] # None
        BY <1>3, <2>3, <2>4, Zenon DEF Waiting, NotArrived, NotAnswered
    <2>8. cur.conn # k
        BY <1>2, <2>1, NoneAssumption
    <2>9. ASSUME cur' = cur PROVE Link(k)'
        <3>1. NotQueued(k)'
            BY <2>6, <2>8, <2>9, Zenon DEF NotQueued
        <3> QED BY <2>7, <3>1, Zenon DEF Dropped, Link
    <2>10. ASSUME NEW j \in Clients, j # k, answer'[j] = answer[j], cur'.conn # j PROVE Link(j)'
        <3>1. m.conn # j
            BY <2>1, <2>10
        <3> QED BY <1>9, <2>10, <3>1
    <2>11. ASSUME NEW j \in Clients, cur' = cur PROVE cur'.conn # j
        BY <1>2, <2>11, NoneAssumption
    <2>12. CASE UNCHANGED <<answer, cur>>
        <3>1. ASSUME NEW j \in Clients, j # k PROVE Link(j)'
            <4>1. answer'[j] = answer[j] /\ cur'.conn # j
                BY <2>11, <2>12
            <4> QED BY <2>10, <3>1, <4>1
        <3>2. Typed'
            BY <1>3, <1>4, <1>5, <1>7, <2>12, Zenon DEF Typed
        <3>3. RemoteStep
            BY <1>3, <1>8, <2>12, Zenon DEF RemoteStep
        <3> QED BY <2>9, <2>12, <3>1, <3>2, <3>3 DEF TInv
    <2>13. ASSUME NEW a \in E.results[r.kind],
                  answer' = [answer EXCEPT ![k] = [request |-> r, answer |-> a]],
                  \/ cur' = [conn |-> k, out |-> PackAnswer(r.kind, a)]
                  \/ UNCHANGED cur
           PROVE  TInv' /\ RemoteStep
        <3>1. PICK whole : whole = PackAnswer(r.kind, a)
            OBVIOUS
        <3>2. /\ whole \in Seq(Byte) /\ Len(whole) > 0 /\ a \in AllResults[r] /\ r \in AllRequests
            <4>1. IsWhole(whole) /\ a \in AllResults[r] /\ r \in AllRequests
                BY <3>1, AskedIsWhole
            <4> QED BY <4>1 DEF IsWhole
        <3>3. answer'[k] = [request |-> r, answer |-> a] /\ DOMAIN answer' = Clients
            BY <1>6, <2>13
        <3>4. \A j \in Clients : j # k => answer'[j] = answer[j]
            BY <1>6, <2>13
        <3>5. RemoteStep
            <4>1. answer'[k] \in [request : {asked[k]}, answer : AllResults[asked[k]]]
                BY <2>4, <3>2, <3>3
            <4>2. answer' = [answer EXCEPT ![k] = answer'[k]]
                BY <2>13, <3>3, Zenon
            <4>3. asked[k] # None /\ answer[k] = None
                BY <2>3, Zenon DEF Waiting
            <4>4. Remote!CarryOut(k)
                BY <1>3, <1>8, <4>1, <4>2, <4>3 DEF Remote!CarryOut
            <4> QED BY <4>4 DEF RemoteStep, Remote!Next
        <3>6. CASE UNCHANGED cur
            <4>1. ASSUME NEW j \in Clients, j # k PROVE Link(j)'
                <5>1. answer'[j] = answer[j] /\ cur'.conn # j
                    BY <2>11, <3>4, <3>6, <4>1
                <5> QED BY <2>10, <4>1, <5>1
            <4>2. Typed'
                BY <1>3, <1>4, <1>5, <1>7, <3>3, <3>6, Zenon DEF Typed
            <4> QED BY <2>9, <3>5, <3>6, <4>1, <4>2 DEF TInv
        <3>7. CASE cur' = [conn |-> k, out |-> PackAnswer(r.kind, a)]
            <4>1. cur'.conn = k /\ cur'.out = whole /\ cur' = [conn |-> cur'.conn, out |-> cur'.out]
                BY <3>1, <3>7
            <4>2. inn'[k] = <<>> /\ toClient'[k] = <<>>
                BY <2>7, Zenon DEF NotAnswered
            <4>3. Writing(k)' = whole /\ E' = E
                BY <1>3, <4>1 DEF Writing, E
            <4>4. All(<<>>, <<>>, whole) = whole /\ Len(<<>>) < Len(whole)
                BY <3>2, AllToCome
            <4>5. All(inn'[k], toClient'[k], Writing(k)') = whole /\ Len(inn'[k]) < Len(whole)
                BY <4>2, <4>3, <4>4, Zenon
            <4>6. Coming(k)'
                BY <2>6, <2>7, <2>13, <3>1, <3>3, <4>3, <4>5, Zenon DEF Coming
            <4>7. ASSUME NEW j \in Clients, j # k PROVE Link(j)'
                <5>1. answer'[j] = answer[j] /\ cur'.conn # j
                    BY <3>4, <4>1, <4>7
                <5> QED BY <2>10, <4>7, <5>1
            <4>8. Typed'
                BY <1>3, <1>4, <1>5, <1>7, <3>2, <3>3, <4>1, Zenon DEF Typed
            <4> QED BY <3>5, <4>6, <4>7, <4>8 DEF TInv, Link
        <3> QED BY <2>13, <3>6, <3>7
    <2>14. CASE \E a \in E.results[m.request.kind] :
                /\ answer' = [answer EXCEPT ![k] = [request |-> m.request, answer |-> a]]
                /\ \/ cur' = [conn |-> k, out |-> PackAnswer(m.request.kind, a)]
                   \/ UNCHANGED cur
        <3>1. PICK a \in E.results[m.request.kind] :
                /\ answer' = [answer EXCEPT ![k] = [request |-> m.request, answer |-> a]]
                /\ \/ cur' = [conn |-> k, out |-> PackAnswer(m.request.kind, a)]
                   \/ UNCHANGED cur
            BY <2>14
        <3>2. /\ a \in E.results[r.kind]
              /\ answer' = [answer EXCEPT ![k] = [request |-> r, answer |-> a]]
              /\ \/ cur' = [conn |-> k, out |-> PackAnswer(r.kind, a)]
                 \/ UNCHANGED cur
            BY <2>6, <3>1, Zenon
        <3> QED BY <2>13, <3>2
    <2> QED BY <1>2, <1>11, <2>1, <2>12, <2>14, Zenon
<1> QED BY <1>10, <1>11

\* Bytes of an answer go into the socket.
LEMMA WriteLinks ==
    ASSUME IInv, QInv, TInv, Write
    PROVE  TInv' /\ RemoteStep
<1>1. Typed
    BY DEF TInv
<1>2. PICK k \in Clients : k = cur.conn
    BY <1>1 DEF Write, Typed
<1>3. PICK n \in Some(Len(cur.out), E.cap - Len(toClient[k])) :
        /\ toClient' = [toClient EXCEPT ![k] = @ \o First(cur.out, n)]
        /\ cur' = Written(n)
    BY <1>2 DEF Write
<1>4. /\ UNCHANGED <<env, toServer, lost, answer>>
      /\ UNCHANGED library /\ UNCHANGED context /\ UNCHANGED queueVars
    BY DEF Write
<1>5. /\ UNCHANGED <<env, asked, out, inn, returned, toServer, lost, buf, expected, answer>>
      /\ UNCHANGED <<head, tail, free, next, item, made>>
    BY <1>4 DEF library, context, queueVars
<1>6. From(head)' = From(head) /\ \A j : Post(j)' = Post(j)
    BY <1>5, PostSame
<1>7. /\ toClient \in [Clients -> Seq(Byte)] /\ inn \in [Clients -> Seq(Byte)]
      /\ asked \in [Clients -> E.requests \cup {None}]
    BY <1>1 DEF IInv, Typed
<1>8. PICK a \in Seq(Byte), b \in Seq(Byte), c \in Seq(Byte) :
          a = inn[k] /\ b = toClient[k] /\ c = cur.out
    <2>1. cur.out \in Seq(Byte)
        BY <1>1, <1>2, NoneAssumption DEF Typed
    <2> QED BY <1>7, <2>1
<1>9. n \in Nat /\ n > 0 /\ n <= Len(c)
    <2>1. Len(c) \in Nat /\ E.cap - Len(b) \in Int
        BY EnvsAssumption DEF IInv, E
    <2> QED BY <1>3, <1>8, <2>1, SomeBytes
<1>10. PICK o \in Seq(Byte) : o = Others(c, n) /\ Len(o) = Len(c) - n
    <2>1. Others(c, n) \in Seq(Byte) /\ Len(Others(c, n)) = Len(c) - n
        BY <1>9 DEF Others
    <2> QED BY <2>1
<1>11. toClient'[k] = More(b, c, n) /\ More(b, c, n) \in Seq(Byte)
    <2>1. More(b, c, n) \in Seq(Byte)
        BY <1>9, MoreBytes
    <2>2. toClient'[k] = More(b, c, n)
        <3> HIDE DEF Byte
        <3> QED BY <1>3, <1>7, <1>8 DEF More
    <2> QED BY <2>1, <2>2
<1>12. Coming(k)
    BY <1>2, Zenon DEF TInv, Link, Idle, Cut, Going, Waiting, Dropped, NotQueued
<1>13. \/ n = Len(c) /\ cur' = [conn |-> None, out |-> <<>>]
       \/ n # Len(c) /\ cur' = [conn |-> k, out |-> o]
    <2>1. cur = [conn |-> k, out |-> c]
        BY <1>1, <1>2, <1>8, Zenon DEF Typed
    <2> QED BY <1>3, <1>8, <1>10, <2>1 DEF Written
<1>14. Writing(k)' = o
    <2>1. CASE n = Len(c)
        <3>1. o = <<>>
            BY <1>10, <2>1
        <3>2. cur'.conn # k
            BY <1>13, <2>1, NoneAssumption
        <3> QED BY <3>1, <3>2 DEF Writing
    <2>2. CASE n # Len(c)
        BY <1>13, <2>2 DEF Writing
    <2> QED BY <2>1, <2>2
<1>15. Link(k)'
    <2>1. PICK r : r = asked[k]
        OBVIOUS
    <2>2. PICK y \in E.results[r.kind] :
            /\ answer[k] = [request |-> r, answer |-> y]
            /\ All(a, b, Writing(k)) = PackAnswer(r.kind, y)
            /\ Len(a) < Len(PackAnswer(r.kind, y))
        BY <1>8, <1>12, <2>1, Zenon DEF Coming
    <2>3. Writing(k) = c /\ E' = E
        BY <1>2, <1>5, <1>8 DEF Writing, E
    <2>4. All(a, More(b, c, n), o) = All(a, b, c)
        BY <1>9, <1>10, Advanced
    <2>5. All(inn'[k], toClient'[k], Writing(k)') = PackAnswer(r.kind, y)
        BY <1>5, <1>8, <1>11, <1>14, <2>2, <2>3, <2>4, Zenon
    <2>6. NotArrived(k)' /\ Post(k)' = {} /\ out'[k] = <<>> /\ k \notin lost'
        BY <1>5, <1>6, <1>12, Zenon DEF Coming, NotArrived
    <2>7. Coming(k)'
        BY <1>5, <1>8, <1>12, <2>1, <2>2, <2>3, <2>5, <2>6, Zenon DEF Coming
    <2> QED BY <2>7, Zenon DEF Link
<1>16. ASSUME NEW j \in Clients, j # k PROVE Link(j)'
    <2>1. toClient'[j] = toClient[j]
        BY <1>3, <1>7, <1>16
    <2>2. cur.conn # j /\ cur'.conn # j
        BY <1>2, <1>13, <1>16, NoneAssumption
    <2>3. SameCall(j) /\ SameSockets(j) /\ SameContext(j) /\ SameLoop(j)
        BY <1>5, <1>6, <2>1, <2>2, Zenon DEF SameCall, SameSockets, SameContext, SameLoop
    <2>4. Link(j)
        BY DEF TInv
    <2> QED BY <1>5, <2>3, <2>4, SameLink DEF Same
<1>17. Typed'
    <2>1. toClient' \in [Clients -> Seq(Byte)]
        <3>1. toClient' = [toClient EXCEPT ![k] = More(b, c, n)]
            BY <1>3, <1>8, Zenon DEF More
        <3> HIDE DEF Byte
        <3> QED BY <1>7, <1>11, <3>1
    <2>2. \/ cur'.conn = None
          \/ cur'.conn \in Clients /\ cur'.out \in Seq(Byte) /\ Len(cur'.out) > 0
        <3>1. n # Len(c) => Len(o) > 0
            BY <1>9, <1>10
        <3>2. CASE cur' = [conn |-> k, out |-> o] /\ n # Len(c)
            <4>1. cur'.conn = k /\ cur'.out = o
                BY <3>2
            <4> QED BY <3>1, <3>2, <4>1
        <3> QED BY <1>13, <3>2
    <2>3. cur' = [conn |-> cur'.conn, out |-> cur'.out]
        BY <1>13
    <2> QED BY <1>1, <1>5, <1>6, <2>1, <2>2, <2>3, Zenon DEF Typed
<1>18. RemoteStep
    <2>1. Made' = Made
        BY <1>5, Zenon DEF Made
    <2> QED BY <1>5, <2>1, Zenon DEF RemoteStep
<1> QED BY <1>15, <1>16, <1>17, <1>18 DEF TInv

\* The steps that are about no call.
LEMMA OtherLinks ==
    ASSUME IInv, QInv, TInv, LoadClass \/ Wait \/ WakeSpuriously \/ UNCHANGED vars
    PROVE  TInv' /\ RemoteStep
<1>1. /\ UNCHANGED <<env, asked, out, inn, returned>>
      /\ UNCHANGED <<toServer, toClient, lost, buf, expected, answer, cur>>
    BY DEF LoadClass, Wait, WakeSpuriously, vars, library, sockets, context, loop
<1>2. Typed /\ DOMAIN item = Nodes
    BY DEF TInv, Typed
<1>3. /\ DOMAIN item' = Nodes
      /\ \A k \in Clients : Post(k)' = Post(k)
      /\ \A x \in From(head)' : item'[x].conn \in Clients \cup {None}
    <2>1. CASE Push(ClassLoaded)
        <3>1. PICK msg : msg = ClassLoaded
            OBVIOUS
        <3>2. Push(msg) /\ msg.conn = None
            BY <2>1, <3>1 DEF ClassLoaded
        <3>3. /\ DOMAIN item' = Nodes
              /\ \A k : msg.conn # k => Post(k)' = Post(k)
              /\ \A x \in From(head)' : item'[x] = msg \/ (x \in From(head) /\ item'[x] = item[x])
            BY <1>2, <3>2, PostPush
        <3>4. \A k \in Clients : Post(k)' = Post(k)
            BY <3>2, <3>3, NoneAssumption
        <3> QED BY <1>2, <3>2, <3>3, <3>4 DEF Typed
    <2>2. CASE UNCHANGED <<head, tail, free, next, item, made>>
        <3>1. From(head)' = From(head) /\ \A j : Post(j)' = Post(j)
            BY <2>2, PostSame
        <3> QED BY <1>2, <2>2, <3>1 DEF Typed
    <2> QED
        BY <2>1, <2>2 DEF LoadClass, Wait, Sleep, WakeSpuriously, vars, queueVars
<1>4. ASSUME NEW j \in Clients PROVE Link(j)'
    <2>1. SameCall(j) /\ SameSockets(j) /\ SameContext(j) /\ SameLoop(j)
        BY <1>1, <1>3, Zenon DEF SameCall, SameSockets, SameContext, SameLoop
    <2>2. Link(j)
        BY DEF TInv
    <2> QED BY <1>1, <2>1, <2>2, SameLink DEF Same
<1>5. Typed'
    BY <1>1, <1>2, <1>3, Zenon DEF Typed
<1>6. RemoteStep
    <2>1. Made' = Made
        BY <1>1, Zenon DEF Made
    <2> QED BY <1>1, <2>1, Zenon DEF RemoteStep
<1> QED BY <1>4, <1>5, <1>6 DEF TInv

\* No call was made yet, and the queue is empty.
LEMMA InitTInv == Init => TInv /\ Remote!Init
<1> SUFFICES ASSUME Init PROVE TInv /\ Remote!Init
    OBVIOUS
<1>1. /\ asked = [k \in Clients |-> None] /\ answer = [k \in Clients |-> None]
      /\ returned = [k \in Clients |-> None]
      /\ out = [k \in Clients |-> <<>>] /\ inn = [k \in Clients |-> <<>>]
      /\ toServer = [k \in Clients |-> <<>>] /\ toClient = [k \in Clients |-> <<>>]
      /\ buf = [k \in Clients |-> <<>>] /\ expected = [k \in Clients |-> HeaderSize]
      /\ cur = [conn |-> None, out |-> <<>>] /\ lost = {}
      /\ InitQueue(ClassLoaded)
    BY DEF Init
<1>2. From(head) = {}
    <2>1. QInv
        BY <1>1, InitQInv
    <2>2. PICK n \in Nat, m \in Nat :
            \E s \in [1..n -> Nodes], f \in [1..m -> Nodes] : TwoLists(n, s, m, f)
        BY <2>1 DEF QInv
    <2>3. PICK s \in [1..n -> Nodes], f \in [1..m -> Nodes] : TwoLists(n, s, m, f)
        BY <2>2
    <2>4. IsList(head, n, s)
        BY <2>3 DEF TwoLists
    <2>5. n = 0
        <3>1. CASE n # 0
            <4>1. 1 \in 1..n /\ s[1] \in Nodes
                BY <3>1
            <4> QED BY <1>1, <2>4, <4>1 DEF IsList, InitQueue, Nodes
        <3> QED BY <3>1
    <2>6. \A x : x \in From(head) <=> \E i \in 1..n : s[i] = x
        BY <2>4, ListsEndNow DEF ListsEnd
    <2> QED BY <2>5, <2>6
<1>3. ASSUME NEW k \in Clients PROVE Idle(k)
    <2>1. Post(k) = {}
        BY <1>2 DEF Post
    <2>2. cur.conn # k
        BY <1>1, NoneAssumption
    <2> QED BY <1>1, <2>1, <2>2 DEF Idle, NotArrived, NotQueued
<1>4. Typed
    <2>1. <<>> \in Seq(Byte)
        OBVIOUS
    <2>2. inn \in [Clients -> Seq(Byte)] /\ toClient \in [Clients -> Seq(Byte)]
        <3> HIDE DEF Byte
        <3> QED BY <1>1, <2>1
    <2>3. DOMAIN item = Nodes
        BY <1>1 DEF InitQueue
    <2> QED BY <1>1, <1>2, <2>2, <2>3 DEF Typed
<1>5. Made = [k \in Clients |-> None]
    BY <1>1 DEF Made
<1>6. Remote!Init
    BY <1>1, <1>5 DEF Remote!Init
<1> QED BY <1>3, <1>4, <1>6 DEF TInv, Link

\* Every step is one of a call, or none.
LEMMA StepTInv == IInv /\ QInv /\ TInv /\ [Next]_vars => TInv' /\ RemoteStep
<1> SUFFICES ASSUME IInv, QInv, TInv, [Next]_vars PROVE TInv' /\ RemoteStep
    OBVIOUS
<1>1. CASE Library
    BY <1>1, BeginLinks, SendLinks, ReceiveLinks, BrokenLinks DEF Library
<1>2. CASE Listener
    BY <1>2, ReadLinks DEF Listener
<1>3. CASE Dispatch \/ Write
    BY <1>3, DispatchLinks, WriteLinks
<1>4. CASE LoadClass \/ Wait \/ WakeSpuriously \/ UNCHANGED vars
    BY <1>4, OtherLinks
<1> QED BY <1>1, <1>2, <1>3, <1>4 DEF Next, EventLoop

\* However many clients there are, whatever they ask and however their bytes are cut
\* up and mixed, every call is carried out at most once, as it was asked, and returns
\* the answer that was made for it: the sockets, the buffers of the listener, the
\* queue and the event loop together do what RemoteCall does (user-if.c:209-333,
\* ev-queue.c:120-175, prof-server-ev.c, prof_client.py:170-248).
THEOREM IsRemoteCallHolds == Spec => IsRemoteCall
<1>1. Init => IInv /\ QInv /\ TInv /\ Remote!Init
    BY InitIInv, InitQInv, InitTInv DEF Init
<1>2. IInv /\ QInv /\ TInv /\ [Next]_vars => IInv' /\ QInv' /\ TInv' /\ RemoteStep
    BY StepIInv, StepQInv, StepTInv
<1> QED BY <1>1, <1>2, PTL DEF Spec, IsRemoteCall, Remote!Spec, RemoteStep
=============================================================================
