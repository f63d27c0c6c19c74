---------------------------- MODULE WeaveProofs -----------------------------
(***************************************************************************)
(* That the probes of a method are balanced and its lines seen, for all    *)
(* classes and requests, and that a method runs with its probes as it does *)
(* without.                                                                *)
(***************************************************************************)
EXTENDS Weave, SequenceTheorems, FiniteSetTheorems, TLAPS

M == class[sig]
N == Len(M.code)
H == HasProbe

\* The line probes that run before instruction b, and how many method probes do.
P(b) == IF applied THEN LineProbes(asked, M.code[b].mark) ELSE <<>>
X(b) == IF H /\ M.code[b].op = "return" THEN 1 ELSE 0

LineOps == {"enterLine", "exitLine"}

\* The sequence s is the line probes p, e method probes, and the instruction x.
IsBlock(s, p, e, x) ==
    /\ Len(s) = Len(p) + e + 1
    /\ s[Len(p) + e + 1] = x
    /\ \A i \in 1..Len(p) : s[i] = p[i]
    /\ e = 1 => s[Len(p) + 1] = Exit

\* What the proofs use of the bytecode that runs.
Shape ==
    /\ Body.first = IF H THEN 0 ELSE 1
    /\ \A b \in 1..N :
          IsBlock(Body.blocks[b], P(b), X(b), M.code[b])
    /\ H => /\ Len(Body.blocks[0]) = 1 /\ Body.blocks[0][1] = Enter
            /\ Len(Body.blocks[N + 1]) = 2 /\ Body.blocks[N + 1][1] = Exit
            /\ Body.blocks[N + 1][2] = Rethrow
    /\ Body.table = IF H THEN Append(M.table, CatchAll(N)) ELSE M.table

\* The bytecode is what was made for the class and the request.
LoadedOK ==
    \/ loaded = None
    \/ /\ applied
       /\ loaded = [s \in DOMAIN class |-> Woven(class, asked, s)]
    \/ /\ applied => asked.methods = {} /\ DOMAIN asked.lines = {}
       /\ loaded = Plain(class)

\* Before the first instruction, at one, or in the handler of visitMaxs.
AtStart == H /\ at = <<0, 1>> /\ entered = 0 /\ exited = 0 /\ fired = <<>>

AtInstr ==
    /\ at[1] \in 1..N /\ at[2] \in 1..Len(P(at[1])) + X(at[1]) + 1
    /\ entered = IF H THEN 1 ELSE 0
    /\ exited = IF X(at[1]) = 1 /\ at[2] = Len(P(at[1])) + 2 THEN 1 ELSE 0
    /\ fired \in Seq([op : LineOps, id : Nat])
    /\ Len(fired) = IF at[2] <= Len(P(at[1])) THEN at[2] - 1 ELSE Len(P(at[1]))
    /\ \A i \in 1..Len(fired) : fired[i] = P(at[1])[i]

AtHandler ==
    /\ H /\ at[1] = N + 1 /\ at[2] \in {1, 2}
    /\ entered = 1 /\ exited = at[2] - 1 /\ thrown \in Kinds

IInv ==
    /\ class \in Classes /\ asked \in Requests /\ applied \in BOOLEAN
    /\ LoadedOK
    /\ sig # None => sig \in DOMAIN class /\ class[sig].code # <<>>
    /\ loaded = None => ~applied /\ sig = None
    /\ sig = None => outcome = None /\ entered = 0 /\ exited = 0 /\ fired = <<>>
    /\ at \in Nat \X Nat
    /\ Running => AtStart \/ AtInstr \/ AtHandler
    /\ outcome # None => /\ outcome \in Kinds \cup {"returned"}
                         /\ entered = exited /\ (entered = 1) = H /\ entered \in {0, 1}

-----------------------------------------------------------------------------
\* The elements of s are those of p and, behind them, those of q.
Joined(s, p, a, q, b) ==
    (\A i \in 1..a : s[i] = p[i]) /\ (\A j \in 1..b : s[a + j] = q[j])

\* A concatenation, by its parts.
LEMMA Concatenation ==
    ASSUME NEW U, NEW p \in Seq(U), NEW q \in Seq(U)
    PROVE  /\ p \o q \in Seq(U) /\ Len(p \o q) = Len(p) + Len(q)
           /\ Joined(p \o q, p, Len(p), q, Len(q))
<1>1. ASSUME NEW i \in 1..Len(p)
      PROVE (p \o q)[i] = p[i]
    OBVIOUS
<1>2. ASSUME NEW j \in 1..Len(q)
      PROVE (p \o q)[Len(p) + j] = q[j]
    OBVIOUS
<1> QED
    BY <1>1, <1>2, ConcatProperties DEF Joined

\* The parts of a block: line probes, a method probe or none, an instruction.
LEMMA ThreeParts ==
    ASSUME NEW U, NEW p \in Seq(U), NEW q \in Seq(U), NEW x \in U,
           Len(q) = 1 => q[1] = Exit
    PROVE  IsBlock(p \o q \o <<x>>, p, Len(q), x)
<1> DEFINE pq == p \o q
           z  == <<x>>
           s  == pq \o z
<1>1. Len(p) \in Nat /\ Len(q) \in Nat /\ z \in Seq(U) /\ Len(z) = 1 /\ z[1] = x
    OBVIOUS
<1>2. /\ pq \in Seq(U) /\ Len(pq) = Len(p) + Len(q)
      /\ Joined(pq, p, Len(p), q, Len(q))
    BY Concatenation, Zenon
<1>3. /\ Len(s) = Len(pq) + Len(z)
      /\ Joined(s, pq, Len(pq), z, Len(z))
    BY <1>1, <1>2, Concatenation, Zenon
<1>4. /\ Len(s) = Len(p) + Len(q) + 1
      /\ Joined(s, pq, Len(p) + Len(q), z, 1)
    BY <1>1, <1>2, <1>3, Zenon
<1>5. /\ 1 \in 1..1 /\ (Len(q) = 1 => 1 \in 1..Len(q) /\ Len(p) + 1 \in 1..Len(p) + Len(q))
      /\ \A i \in 1..Len(p) : i \in 1..Len(p) + Len(q)
    BY <1>1
<1> HIDE DEF s, pq, z
<1> QED
    <2>1. s[Len(p) + Len(q) + 1] = z[1]
        BY <1>4, <1>5, Zenon DEF Joined
    <2>2. ASSUME NEW i \in 1..Len(p) PROVE s[i] = p[i]
        BY <1>2, <1>4, <1>5, Zenon DEF Joined
    <2>3. ASSUME Len(q) = 1 PROVE s[Len(p) + 1] = q[1]
        BY <1>2, <1>4, <1>5, <2>3, Zenon DEF Joined
    <2> QED
        BY <1>1, <1>4, <2>1, <2>2, <2>3, Zenon DEF s, pq, z, IsBlock
\* The probes of a line are line probes.
LEMMA LineProbesType ==
    ASSUME NEW r, IsRequest(r), NEW mark
    PROVE  LineProbes(r, mark) \in Seq([op : LineOps, id : Nat])
<1>1. CASE mark \in DOMAIN r.lines
    BY <1>1 DEF LineProbes, IsRequest, LineOps
<1>2. CASE mark \notin DOMAIN r.lines
    BY <1>2, EmptySeq DEF LineProbes
<1> QED
    BY <1>1, <1>2

\* What is emitted for an instruction.
LEMMA BlockParts ==
    ASSUME NEW m, NEW r, IsRequest(r), NEW b, NEW exit \in {<<>>, <<Exit>>}
    PROVE  IsBlock(Block(m, r, exit, b), LineProbes(r, m.code[b].mark),
                   IF m.code[b].op = "return" THEN Len(exit) ELSE 0, m.code[b])
<1> DEFINE L == [op : LineOps, id : Nat]
           p == LineProbes(r, m.code[b].mark)
           q == IF m.code[b].op = "return" THEN exit ELSE <<>>
           e == IF m.code[b].op = "return" THEN Len(exit) ELSE 0
           x == m.code[b]
           U == L \cup {Exit, x}
           s == Block(m, r, exit, b)
<1>1. p \in Seq(L)
    BY LineProbesType
<1>2. s = p \o q \o <<x>>
    BY DEF Block
<1>3. q \in {<<>>, <<Exit>>} /\ Len(q) = e
    OBVIOUS
<1> HIDE DEF p, q, e, x, s
<1>4. L \subseteq U /\ Exit \in U /\ x \in U
    OBVIOUS
<1> HIDE DEF L, U
<1>5. p \in Seq(U)
    BY <1>1, <1>4, SeqMonotonic
<1>6. q \in Seq(U)
    <2>1. <<Exit>> \in Seq(U) /\ <<>> \in Seq(U)
        BY <1>4, EmptySeq
    <2> QED
        BY <1>3, <2>1, Zenon
<1>7. Len(q) = 1 => q[1] = Exit
    BY <1>3
<1>8. IsBlock(p \o q \o <<x>>, p, Len(q), x)
    BY <1>4, <1>5, <1>6, <1>7, ThreeParts, Zenon
<1> QED
    BY <1>2, <1>3, <1>8, Zenon DEF p, e, x, s

\* A method that runs has the shape above.
LEMMA ShapeHolds ==
    ASSUME IInv, sig # None
    PROVE  /\ Shape /\ IsMethod(M) /\ N \in Nat /\ N > 0
           /\ \A b \in 1..N : P(b) \in Seq([op : LineOps, id : Nat])
<1>1. /\ sig \in DOMAIN class /\ M.code # <<>> /\ class \in Classes /\ asked \in Requests
      /\ applied \in BOOLEAN
    BY DEF IInv, M
<1>2. IsMethod(M) /\ IsRequest(asked)
    BY <1>1, WeaveAssumption DEF M
<1>3. N \in Nat /\ N > 0 /\ M.code \in Seq([mark : Lines \cup {None}, op : Ops, to : 1..N])
    BY <1>1, <1>2 DEF IsMethod, N
<1>4. CASE loaded = Plain(class) /\ (applied => asked.methods = {} /\ DOMAIN asked.lines = {})
    <2>1. Body = [first |-> 1, blocks |-> [b \in DOMAIN M.code |-> <<M.code[b]>>],
                  table |-> M.table]
        BY <1>1, <1>4 DEF Plain, Body, M
    <2>2. ~H
        BY <1>4 DEF H, HasProbe
    <2>5. \A b \in 1..N : P(b) = <<>> /\ X(b) = 0
        <3> TAKE b \in 1..N
        <3>1. X(b) = 0
            BY <2>2 DEF X
        <3>2. applied => LineProbes(asked, M.code[b].mark) = <<>>
            BY <1>4 DEF LineProbes
        <3> QED
            BY <3>1, <3>2 DEF P
    <2>6. \A b \in 1..N : P(b) \in Seq([op : LineOps, id : Nat])
        BY <2>5, EmptySeq
    <2>3. DOMAIN M.code = 1..N
        BY <1>3 DEF N
    <2>4. Shape
        BY <1>3, <2>1, <2>2, <2>3, <2>5 DEF Shape, IsBlock
    <2> QED
        BY <1>2, <1>3, <2>4, <2>6
<1>5. CASE applied /\ loaded = [s \in DOMAIN class |-> Woven(class, asked, s)]
    <2>1. Body = IF H THEN WithProbes(M, asked) ELSE WithLineProbes(M, asked)
        BY <1>1, <1>5 DEF Woven, Body, M, H, HasProbe
    <2>2. \A b \in 1..N : P(b) = LineProbes(asked, M.code[b].mark)
        BY <1>5 DEF P
    <2>3. ASSUME H
          PROVE  /\ \A b \in 1..N : Body.blocks[b] = Block(M, asked, <<Exit>>, b)
                 /\ Body.blocks[0] = <<Enter>>
                 /\ Body.blocks[N + 1] = <<Exit, Rethrow>>
        <3>1. Body.blocks = [b \in 0..N + 1 |->
                        IF b = 0 THEN <<Enter>>
                        ELSE IF b = N + 1 THEN <<Exit, Rethrow>>
                        ELSE Block(M, asked, <<Exit>>, b)]
            <4>1. Body = WithProbes(M, asked)
                BY <2>1, <2>3
            <4> QED
                BY <4>1, Zenon DEF WithProbes, N
        <3>2. /\ 0 \in 0..N + 1 /\ N + 1 \in 0..N + 1 /\ N + 1 # 0
              /\ \A b \in 1..N : b \in 0..N + 1 /\ b # 0 /\ b # N + 1
            BY <1>3
        <3> QED
            BY <3>1, <3>2, Zenon
    <2>4. ASSUME ~H, NEW b \in 1..N
          PROVE  Body.blocks[b] = Block(M, asked, <<>>, b)
        BY <2>1, <2>4 DEF WithLineProbes, N
    <2>5. ASSUME NEW b \in 1..N
          PROVE  IsBlock(Body.blocks[b], P(b), X(b), M.code[b])
        <3>1. CASE H
            <4>1. X(b) = IF M.code[b].op = "return" THEN Len(<<Exit>>) ELSE 0
                BY <3>1 DEF X
            <4> QED
                BY <1>2, <2>2, <2>3, <3>1, <4>1, BlockParts, Zenon
        <3>2. CASE ~H
            <4>1. X(b) = IF M.code[b].op = "return" THEN Len(<<>>) ELSE 0
                BY <3>2 DEF X
            <4> QED
                BY <1>2, <2>2, <2>4, <3>2, <4>1, BlockParts, Zenon
        <3> QED
            BY <3>1, <3>2
    <2>8. ASSUME NEW b \in 1..N
          PROVE  P(b) \in Seq([op : LineOps, id : Nat])
        BY <1>2, <2>2, LineProbesType
    <2>6. H => /\ Len(Body.blocks[0]) = 1 /\ Body.blocks[0][1] = Enter
               /\ Len(Body.blocks[N + 1]) = 2 /\ Body.blocks[N + 1][1] = Exit
               /\ Body.blocks[N + 1][2] = Rethrow
        BY <2>3
    <2>7. /\ Body.first = IF H THEN 0 ELSE 1
          /\ Body.table = IF H THEN Append(M.table, CatchAll(N)) ELSE M.table
        BY <2>1 DEF WithProbes, WithLineProbes, Table, N
    <2> QED
        BY <1>2, <1>3, <2>5, <2>6, <2>7, <2>8 DEF Shape
<1> QED
    BY <1>4, <1>5 DEF IInv, LoadedOK

-----------------------------------------------------------------------------
(* Where an activation can be, and what it is about to run.                *)

AtLine ==
    AtInstr /\ at[2] <= Len(P(at[1])) /\ at[2] < Len(Body.blocks[at[1]])
    /\ Instr = P(at[1])[at[2]] /\ Instr \in [op : LineOps, id : Nat]

AtExit ==
    AtInstr /\ at[2] = Len(P(at[1])) + 1 /\ X(at[1]) = 1
    /\ at[2] < Len(Body.blocks[at[1]]) /\ Instr = Exit

AtOwn ==
    AtInstr /\ at[2] = Len(P(at[1])) + X(at[1]) + 1
    /\ at[2] = Len(Body.blocks[at[1]]) /\ Instr = M.code[at[1]]

AtLeave ==
    AtHandler /\ at = <<N + 1, 1>> /\ Len(Body.blocks[N + 1]) = 2 /\ Instr = Exit

AtRethrow == AtHandler /\ at = <<N + 1, 2>> /\ Instr = Rethrow

\* Every position is one of these.
LEMMA Positions ==
    ASSUME IInv, Running
    PROVE  \/ AtStart /\ Len(Body.blocks[0]) = 1 /\ Instr = Enter
           \/ AtLine \/ AtExit \/ AtOwn \/ AtLeave \/ AtRethrow
<1>1. sig # None
    BY DEF Running
<1>2. Shape /\ N \in Nat /\ N > 0
    BY <1>1, ShapeHolds
<1>3. at = <<at[1], at[2]>> /\ at[1] \in Nat /\ at[2] \in Nat
    BY DEF IInv
<1>4. CASE AtStart
    BY <1>2, <1>4 DEF AtStart, Shape, Instr
<1>5. CASE AtInstr
    <2> DEFINE b == at[1]
               o == at[2]
    <2>1. P(b) \in Seq([op : LineOps, id : Nat]) /\ IsBlock(Body.blocks[b], P(b), X(b), M.code[b])
        BY <1>1, <1>5, ShapeHolds DEF AtInstr, Shape
    <2>2. X(b) \in {0, 1} /\ Len(P(b)) \in Nat /\ o \in 1..Len(P(b)) + X(b) + 1
        BY <1>5, <2>1 DEF AtInstr, X
    <2>3. CASE o <= Len(P(b))
        <3>1. P(b)[o] \in [op : LineOps, id : Nat]
            <4>1. o \in 1..Len(P(b))
                BY <2>2, <2>3
            <4> QED
                BY <2>1, <4>1, ElementOfSeq
        <3>2. Body.blocks[b][o] = P(b)[o] /\ o < Len(Body.blocks[b])
            BY <2>1, <2>2, <2>3, SMTT(30) DEF IsBlock
        <3> QED
            BY <1>5, <2>3, <3>1, <3>2 DEF AtLine, Instr
    <2>4. CASE o = Len(P(b)) + 1 /\ X(b) = 1
        BY <1>5, <2>1, <2>2, <2>4 DEF AtExit, Instr, IsBlock
    <2>5. CASE o = Len(P(b)) + X(b) + 1
        BY <1>5, <2>1, <2>2, <2>5 DEF AtOwn, Instr, IsBlock
    <2> QED
        BY <2>2, <2>3, <2>4, <2>5
<1>6. CASE AtHandler
    <2>1. at = <<N + 1, 1>> \/ at = <<N + 1, 2>>
        BY <1>3, <1>6 DEF AtHandler
    <2>2. H
        BY <1>6 DEF AtHandler
    <2> QED
        BY <1>2, <1>6, <2>1, <2>2 DEF AtLeave, AtRethrow, Shape, Instr
<1> QED
    BY <1>4, <1>5, <1>6 DEF IInv

\* The exception table of the bytecode: the method's own entries come first, and
\* the catch-all takes what they do not, anywhere but in its handler.
LEMMA Taken ==
    ASSUME IInv, Running, NEW k \in Kinds
    PROVE  /\ Source!Takers(Body.table, N + 1, k) = {}
           /\ \A b \in 1..N :
                 /\ \A h \in Source!FirstTaker(Body.table, b, k) :
                       \/ h \in Source!FirstTaker(M.table, b, k) /\ Body.table[h] = M.table[h]
                          /\ Body.table[h].at \in 1..N
                       \/ H /\ Source!Takers(M.table, b, k) = {} /\ Body.table[h].at = N + 1
                 /\ Source!Takers(Body.table, b, k) = {} =>
                       ~H /\ Source!Takers(M.table, b, k) = {}
<1>1. /\ N \in Nat /\ M.table \in Seq(Handlers(N))
      /\ Body.table = IF H THEN Append(M.table, CatchAll(N)) ELSE M.table
    BY ShapeHolds DEF Running, Shape, IsMethod, N
<1>2. \A h \in DOMAIN M.table : M.table[h].to \in 1..N + 1 /\ M.table[h].at \in 1..N
    <2>1. \A h \in DOMAIN M.table : M.table[h] \in Handlers(N)
        BY <1>1, ElementOfSeq
    <2> QED
        BY <1>1, <2>1 DEF Handlers
<1>3. CASE ~H
    <2>1. Body.table = M.table
        BY <1>1, <1>3
    <2>2. Source!Takers(M.table, N + 1, k) = {}
        BY <1>1, <1>2 DEF Source!Takers
    <2>3. \A b \in 1..N : Source!FirstTaker(M.table, b, k) \subseteq DOMAIN M.table
        BY DEF Source!Takers, Source!FirstTaker
    <2> QED
        BY <1>2, <1>3, <2>1, <2>2, <2>3
<1>4. CASE H
    <2> DEFINE n == Len(M.table)
    <2>1. /\ n \in Nat /\ DOMAIN M.table = 1..n /\ DOMAIN Body.table = 1..n + 1
          /\ Body.table[n + 1] = CatchAll(N)
          /\ \A h \in 1..n : Body.table[h] = M.table[h]
        BY <1>1, <1>4
    <2>2. /\ Body.table[n + 1].from = 0 /\ Body.table[n + 1].to = N + 1
          /\ Body.table[n + 1].at = N + 1 /\ Body.table[n + 1].kinds = Kinds
        <3>1. /\ CatchAll(N).from = 0 /\ CatchAll(N).to = N + 1
              /\ CatchAll(N).at = N + 1 /\ CatchAll(N).kinds = Kinds
            BY DEF CatchAll
        <3> QED
            BY <2>1, <3>1, Zenon
    <2>3. Source!Takers(Body.table, N + 1, k) = {}
        BY <1>1, <1>2, <2>1, <2>2 DEF Source!Takers
    <2>4. ASSUME NEW b \in 1..N
          PROVE  Source!Takers(Body.table, b, k) = Source!Takers(M.table, b, k) \cup {n + 1}
        BY <1>1, <2>1, <2>2 DEF Source!Takers
    <2>5. ASSUME NEW b \in 1..N, NEW h \in Source!FirstTaker(Body.table, b, k)
          PROVE  \/ h \in Source!FirstTaker(M.table, b, k) /\ Body.table[h] = M.table[h]
                    /\ Body.table[h].at \in 1..N
                 \/ H /\ Source!Takers(M.table, b, k) = {} /\ Body.table[h].at = N + 1
        <3>1. h \in Source!Takers(M.table, b, k) \cup {n + 1}
            BY <2>4, <2>5 DEF Source!FirstTaker
        <3>2. \A g \in Source!Takers(M.table, b, k) : h <= g
            BY <2>4, <2>5 DEF Source!FirstTaker
        <3>3. Source!Takers(M.table, b, k) \subseteq 1..n
            BY <2>1 DEF Source!Takers
        <3>4. CASE h \in Source!Takers(M.table, b, k)
            BY <1>2, <2>1, <3>2, <3>3, <3>4 DEF Source!FirstTaker
        <3>5. CASE h = n + 1
            BY <1>4, <2>1, <2>2, <3>2, <3>3, <3>5
        <3> QED
            BY <3>1, <3>4, <3>5
    <2> QED
        BY <2>3, <2>4, <2>5
<1> QED
    BY <1>3, <1>4

-----------------------------------------------------------------------------
(* The invariant.                                                          *)

\* Nothing runs at first.
LEMMA InitIInv == Init => IInv
<1> SUFFICES ASSUME Init PROVE IInv
    OBVIOUS
<1> QED
    BY DEF Init, IInv, LoadedOK, Running

\* What a step of the activation leaves alone: the class, what was asked for, and so
\* all that is said of the method alone.
Fixed == class' = class /\ asked' = asked /\ loaded' = loaded /\ applied' = applied
         /\ sig' = sig

\* The invariant holds where a step of the activation ends up, if the position does.
LEMMA StillRuns ==
    ASSUME IInv, Running, Fixed, at' \in Nat \X Nat,
           \/ outcome' = None /\ (AtStart \/ AtInstr \/ AtHandler)'
           \/ /\ outcome' \in Kinds \cup {"returned"}
              /\ entered' = IF H THEN 1 ELSE 0
              /\ exited' = IF H THEN 1 ELSE 0
    PROVE  IInv'
<1>1. /\ (class \in Classes /\ asked \in Requests /\ applied \in BOOLEAN)'
      /\ LoadedOK'
      /\ (sig # None => sig \in DOMAIN class /\ class[sig].code # <<>>)'
      /\ (loaded = None => ~applied /\ sig = None)'
    BY DEF IInv, LoadedOK, Fixed
<1>2. sig' # None /\ H' = H
    BY DEF Running, Fixed, H, HasProbe
<1>3. H \in BOOLEAN
    BY DEF IInv, H, HasProbe
<1>4. (Running => AtStart \/ AtInstr \/ AtHandler)'
    BY WeaveAssumption DEF Running
<1>5. (outcome # None => /\ outcome \in Kinds \cup {"returned"}
                         /\ entered = exited /\ (entered = 1) = H /\ entered \in {0, 1})'
    <2>1. CASE outcome' = None
        BY <2>1
    <2>2. CASE /\ outcome' \in Kinds \cup {"returned"}
               /\ entered' = IF H THEN 1 ELSE 0
               /\ exited' = IF H THEN 1 ELSE 0
        BY <1>2, <1>3, <2>2
    <2> QED
        BY <2>1, <2>2
<1> QED
    BY <1>1, <1>2, <1>4, <1>5 DEF IInv

\* The start of block b is a position of the method.
LEMMA AtBlockStart ==
    ASSUME IInv, Running, Fixed, NEW b \in 1..N, at' = <<b, 1>>, fired' = <<>>,
           entered' = IF H THEN 1 ELSE 0, exited' = 0
    PROVE  AtInstr' /\ at' \in Nat \X Nat
<1>1. /\ N' = N /\ H' = H /\ P(b)' = P(b) /\ X(b)' = X(b)
    BY DEF Fixed, M, N, H, HasProbe, P, X
<1>2. P(b) \in Seq([op : LineOps, id : Nat]) /\ N \in Nat
    BY ShapeHolds DEF Running
<1>3. Len(P(b)) \in Nat /\ X(b) \in {0, 1}
    BY <1>2 DEF X
<1>4. at'[1] = b /\ at'[2] = 1 /\ Len(fired') = 0
    OBVIOUS
<1>5. fired' \in Seq([op : LineOps, id : Nat])
    BY EmptySeq
<1>6. AtInstr'
    BY <1>1, <1>3, <1>4, <1>5 DEF AtInstr
<1> QED
    BY <1>2, <1>6

\* An instruction of the method, and what has been seen when it runs: the last one
\* does not go on to the next.
LEMMA OwnInstruction ==
    ASSUME IInv, Running, AtOwn
    PROVE  /\ at[1] \in 1..N /\ Instr = M.code[at[1]]
           /\ Instr.op \in Ops /\ Instr.to \in 1..N
           /\ Instr.op \in {"work", "branch"} => at[1] + 1 \in 1..N
           /\ entered = IF H THEN 1 ELSE 0
           /\ exited = IF H /\ Instr.op = "return" THEN 1 ELSE 0
<1>1. at[1] \in 1..N /\ Instr = M.code[at[1]]
    BY DEF AtOwn, AtInstr
<1>2. /\ N \in Nat /\ M.code \in Seq([mark : Lines \cup {None}, op : Ops, to : 1..N])
      /\ (N > 0 => M.code[N].op \in {"return", "throw"})
      /\ P(at[1]) \in Seq([op : LineOps, id : Nat])
    BY <1>1, ShapeHolds DEF Running, IsMethod, N
<1>3. M.code[at[1]] \in [mark : Lines \cup {None}, op : Ops, to : 1..N]
    BY <1>1, <1>2, ElementOfSeq DEF N
<1>4. Instr.op \in {"work", "branch"} => at[1] + 1 \in 1..N
    BY <1>1, <1>2
<1>5. Len(P(at[1])) \in Nat
    BY <1>2
<1>6. at[2] = Len(P(at[1])) + 2 <=> X(at[1]) = 1
    BY <1>5 DEF AtOwn, X
<1>7. entered = IF H THEN 1 ELSE 0
    BY DEF AtOwn, AtInstr
<1>8. exited = IF X(at[1]) = 1 THEN 1 ELSE 0
    BY <1>6 DEF AtOwn, AtInstr
<1>9. X(at[1]) = 1 <=> H /\ Instr.op = "return"
    BY <1>1 DEF X
<1> QED
    BY <1>1, <1>3, <1>4, <1>7, <1>8, <1>9

\* A method probe: enter before the first instruction, exit before a return and in
\* the handler.
LEMMA MethodProbeKeeps ==
    ASSUME IInv, MethodProbe
    PROVE  IInv' /\ (at'[1] = at[1] \/ (at[1] = 0 /\ at'[1] = 1))
<1>1. Running /\ Fixed /\ outcome' = outcome /\ thrown' = thrown
    BY DEF MethodProbe, classVars, Fixed
<1>2. Instr.op \in {"enter", "exit"} /\ Advance
      /\ entered' = (IF Instr.op = "enter" THEN entered + 1 ELSE entered)
      /\ exited' = IF Instr.op = "exit" THEN exited + 1 ELSE exited
    BY DEF MethodProbe
<1>3. outcome' = None /\ N \in Nat /\ N > 0 /\ H' = H /\ N' = N
    BY <1>1, ShapeHolds DEF Running, Fixed, M, N, H, HasProbe
<1>4. CASE AtStart /\ Len(Body.blocks[0]) = 1 /\ Instr = Enter
    <2>1. H /\ at[1] = 0 /\ at[2] = 1 /\ entered = 0 /\ exited = 0
        BY <1>4 DEF AtStart
    <2>2. at' = <<1, 1>> /\ fired' = <<>> /\ entered' = 1 /\ exited' = 0
        <3>1. Instr.op = "enter"
            BY <1>4 DEF Enter
        <3>2. Len(Body.blocks[at[1]]) = 1
            BY <1>4, <2>1, Zenon
        <3>3. at' = <<1, 1>> /\ fired' = <<>>
            BY <1>2, <2>1, <3>2 DEF Advance
        <3> QED
            BY <1>2, <2>1, <3>1, <3>3
    <2>3. 1 \in 1..N
        BY <1>3
    <2>4. AtInstr' /\ at' \in Nat \X Nat
        BY <1>1, <2>1, <2>2, <2>3, AtBlockStart
    <2> QED
        BY <1>1, <1>3, <2>1, <2>2, <2>4, StillRuns
<1>5. CASE AtExit
    <2> DEFINE b == at[1]
    <2>1. /\ b \in 1..N /\ at[2] = Len(P(b)) + 1 /\ X(b) = 1 /\ exited = 0
          /\ entered = (IF H THEN 1 ELSE 0)
          /\ fired \in Seq([op : LineOps, id : Nat]) /\ Len(fired) = Len(P(b))
          /\ \A i \in 1..Len(fired) : fired[i] = P(b)[i]
          /\ Len(P(b)) \in Nat
        <3>1. b \in 1..N
            BY <1>5 DEF AtExit, AtInstr
        <3>2. P(b) \in Seq([op : LineOps, id : Nat])
            BY <1>1, <3>1, ShapeHolds DEF Running
        <3>3. Len(P(b)) \in Nat
            BY <3>2
        <3> QED
            BY <1>5, <3>1, <3>3 DEF AtExit, AtInstr
    <2>2. at' = <<b, at[2] + 1>> /\ fired' = fired /\ entered' = entered /\ exited' = 1
        BY <1>2, <1>5, <2>1 DEF AtExit, Advance, Exit
    <2>3. at'[1] = b /\ at'[2] = Len(P(b)) + 2
        BY <2>1, <2>2
    <2>4. P(b)' = P(b) /\ X(b)' = X(b)
        BY <1>1, <2>2 DEF Fixed, M, P, X, H, HasProbe
    <2>5. AtInstr'
        BY <1>3, <2>1, <2>2, <2>3, <2>4 DEF AtInstr
    <2>6. at' \in Nat \X Nat
        BY <1>3, <2>1, <2>2
    <2> QED
        BY <1>1, <1>3, <2>3, <2>5, <2>6, StillRuns
<1>6. CASE AtLeave
    <2>1. at[1] = N + 1 /\ at[2] = 1 /\ H /\ entered = 1 /\ exited = 0 /\ thrown \in Kinds
        BY <1>6 DEF AtLeave, AtHandler
    <2>2. at' = <<N + 1, 2>> /\ entered' = 1 /\ exited' = 1
        <3>1. Instr.op = "exit"
            BY <1>6 DEF AtLeave, Exit
        <3>2. Len(Body.blocks[at[1]]) = 2
            BY <1>6, <2>1, Zenon DEF AtLeave
        <3>3. at' = <<N + 1, 2>>
            BY <1>2, <2>1, <3>2 DEF Advance
        <3> QED
            BY <1>2, <2>1, <3>1, <3>3
    <2>3. AtHandler' /\ at' \in Nat \X Nat
        BY <1>1, <1>3, <2>1, <2>2 DEF AtHandler
    <2> QED
        BY <1>1, <1>3, <2>1, <2>2, <2>3, StillRuns
<1>7. ~AtLine /\ ~AtRethrow
    BY <1>2 DEF AtLine, LineOps, AtRethrow, Rethrow
<1>8. ~AtOwn
    BY <1>1, <1>2, OwnInstruction DEF Ops
<1> QED
    BY <1>1, <1>4, <1>5, <1>6, <1>7, <1>8, Positions

\* A line probe: the next of the line's probes has fired.
LEMMA LineProbeKeeps ==
    ASSUME IInv, LineProbe
    PROVE  IInv' /\ at'[1] = at[1]
<1>1. /\ Running /\ Fixed /\ outcome' = None
      /\ entered' = entered /\ exited' = exited
      /\ Instr.op \in {"enterLine", "exitLine"}
      /\ at' = <<at[1], at[2] + 1>> /\ fired' = Append(fired, Instr)
    BY DEF LineProbe, classVars, Fixed, Running
<1>2. AtLine
    <2>1. ~(Instr = Enter) /\ ~AtExit /\ ~AtLeave /\ ~AtRethrow
        BY <1>1 DEF AtExit, AtLeave, AtRethrow, Enter, Exit, Rethrow
    <2>2. ~AtOwn
        BY <1>1, OwnInstruction DEF Ops
    <2> QED
        BY <1>1, <2>1, <2>2, Positions
<1> DEFINE b == at[1]
           L == [op : LineOps, id : Nat]
<1>3. b \in 1..N /\ P(b) \in Seq(L) /\ N \in Nat
    <2>1. b \in 1..N
        BY <1>2 DEF AtLine, AtInstr
    <2> QED
        BY <1>1, <2>1, ShapeHolds DEF Running
<1>4. Len(P(b)) \in Nat /\ X(b) \in {0, 1}
    BY <1>3 DEF X
<1>5. /\ at[2] \in 1..Len(P(b)) /\ Instr = P(b)[at[2]] /\ Instr \in L
      /\ fired \in Seq(L) /\ Len(fired) = at[2] - 1
      /\ \A i \in 1..Len(fired) : fired[i] = P(b)[i]
      /\ entered = (IF H THEN 1 ELSE 0) /\ exited = 0
    BY <1>2, <1>4 DEF AtLine, AtInstr
<1>6. /\ fired' \in Seq(L) /\ Len(fired') = at[2]
      /\ \A i \in 1..Len(fired') : fired'[i] = P(b)[i]
    <2> HIDE DEF L
    <2>1. fired' \in Seq(L) /\ Len(fired') = Len(fired) + 1 /\ fired'[Len(fired) + 1] = Instr
          /\ \A i \in 1..Len(fired) : fired'[i] = fired[i]
        BY <1>1, <1>5
    <2>2. Len(fired') = at[2]
        BY <1>5, <2>1
    <2>3. ASSUME NEW i \in 1..Len(fired')
          PROVE  fired'[i] = P(b)[i]
        <3>1. CASE i = at[2]
            BY <1>5, <2>1, <2>2, <3>1
        <3>2. CASE i # at[2]
            <4>1. i \in 1..Len(fired)
                BY <1>5, <2>2, <3>2
            <4> QED
                BY <1>5, <2>1, <4>1
        <3> QED
            BY <3>1, <3>2
    <2> QED
        BY <2>1, <2>2, <2>3
<1>7. N' = N /\ H' = H /\ P(b)' = P(b) /\ X(b)' = X(b) /\ at'[1] = b /\ at'[2] = at[2] + 1
    BY <1>1 DEF Fixed, M, N, H, HasProbe, P, X
<1>8. at[2] \in Nat /\ at[2] + 1 \in Nat /\ b \in Nat /\ at[2] >= 1 /\ at[2] <= Len(P(b))
    <2>1. b \in Nat
        BY <1>3
    <2>2. at[2] \in Nat /\ at[2] >= 1 /\ at[2] <= Len(P(b))
        BY <1>4, <1>5
    <2> QED
        BY <2>1, <2>2
<1>9. at' \in Nat \X Nat
    <2>1. at' = <<b, at[2] + 1>>
        BY <1>1
    <2> QED
        BY <1>8, <2>1
<1>10. at'[2] \in 1..Len(P(b)) + X(b) + 1
    BY <1>4, <1>7, <1>8
<1>11. exited' = IF X(b) = 1 /\ at'[2] = Len(P(b)) + 2 THEN 1 ELSE 0
    BY <1>1, <1>4, <1>5, <1>7, <1>8
<1>12. Len(fired') = IF at'[2] <= Len(P(b)) THEN at'[2] - 1 ELSE Len(P(b))
    BY <1>4, <1>6, <1>7, <1>8
<1>13. entered' = IF H THEN 1 ELSE 0
    BY <1>1, <1>5
<1>14. AtInstr'
    BY <1>3, <1>6, <1>7, <1>10, <1>11, <1>12, <1>13, Zenon DEF AtInstr
<1> QED
    BY <1>1, <1>7, <1>9, <1>14, StillRuns

\* An own instruction is at hand when an action of one is taken.
LEMMA IsOwn ==
    ASSUME IInv, Running, Instr.op \in Ops
    PROVE  AtOwn
<1>1. ~(Instr = Enter) /\ ~AtLine /\ ~AtExit /\ ~AtLeave /\ ~AtRethrow
    BY DEF AtLine, LineOps, Ops, AtExit, AtLeave, AtRethrow, Enter, Exit, Rethrow
<1> QED
    BY <1>1, Positions

\* An instruction completes: the start of the next block.
LEMMA CompleteKeeps ==
    ASSUME IInv, Complete
    PROVE  /\ IInv' /\ AtOwn /\ Fixed /\ outcome' = outcome
           /\ at' = <<at[1] + 1, 1>> /\ at[1] + 1 \in 1..N
<1>1. /\ Running /\ Fixed /\ outcome' = None /\ entered' = entered /\ exited' = exited
      /\ outcome' = outcome /\ Instr.op \in {"work", "branch"} /\ Advance
    BY DEF Complete, classVars, Fixed, Running
<1>2. AtOwn
    BY <1>1, IsOwn DEF Ops
<1>3. at' = <<at[1] + 1, 1>> /\ fired' = <<>>
    <2>1. at[2] = Len(Body.blocks[at[1]])
        BY <1>2 DEF AtOwn
    <2>2. at[2] \in Nat
        BY DEF IInv
    <2>3. ~(at[2] < Len(Body.blocks[at[1]]))
        BY <2>1, <2>2
    <2> QED
        BY <1>1, <2>3 DEF Advance
<1>4. /\ at[1] + 1 \in 1..N /\ entered' = (IF H THEN 1 ELSE 0) /\ exited' = 0
    BY <1>1, <1>2, OwnInstruction
<1>5. AtInstr' /\ at' \in Nat \X Nat
    BY <1>1, <1>3, <1>4, AtBlockStart
<1> QED
    BY <1>1, <1>2, <1>3, <1>4, <1>5, StillRuns

\* A branch jumps: the start of the block that it goes to.
LEMMA JumpKeeps ==
    ASSUME IInv, Jump
    PROVE  /\ IInv' /\ AtOwn /\ Fixed /\ outcome' = outcome
           /\ at' = <<Instr.to, 1>> /\ Instr.to \in 1..N
<1>1. /\ Running /\ Fixed /\ outcome' = None /\ entered' = entered /\ exited' = exited
      /\ outcome' = outcome /\ Instr.op = "branch" /\ at' = <<Instr.to, 1>> /\ fired' = <<>>
    BY DEF Jump, Goto, classVars, Fixed, Running
<1>2. AtOwn
    BY <1>1, IsOwn DEF Ops
<1>3. Instr.to \in 1..N /\ entered' = (IF H THEN 1 ELSE 0) /\ exited' = 0
    BY <1>1, <1>2, OwnInstruction
<1>4. AtInstr' /\ at' \in Nat \X Nat
    BY <1>1, <1>3, AtBlockStart
<1> QED
    BY <1>1, <1>2, <1>3, <1>4, StillRuns

\* A return, after its exit probe.
LEMMA ReturnKeeps ==
    ASSUME IInv, Return
    PROVE  IInv' /\ AtOwn /\ Fixed /\ Instr.op = "return"
<1>1. /\ Running /\ Fixed /\ outcome' = "returned" /\ at' = at
      /\ entered' = entered /\ exited' = exited /\ Instr.op = "return"
    BY DEF Return, classVars, seenVars, Fixed, Running
<1>2. AtOwn
    BY <1>1, IsOwn DEF Ops
<1>3. entered' = (IF H THEN 1 ELSE 0) /\ exited' = (IF H THEN 1 ELSE 0)
    BY <1>1, <1>2, OwnInstruction
<1>4. at' \in Nat \X Nat
    BY <1>1 DEF IInv
<1> QED
    BY <1>1, <1>2, <1>3, <1>4, StillRuns

\* Where an exception k that instruction b of the method throws leads: to a handler
\* of the method or, when it has none for it, out of it, with a probe by way of the
\* handler of visitMaxs.
Caught(b, k) ==
    /\ outcome' = None
    /\ \E h \in Source!FirstTaker(M.table, b, k) :
          M.table[h].at \in 1..N /\ at' = <<M.table[h].at, 1>> /\ fired' = <<>>

Escapes(b, k) ==
    /\ Source!Takers(M.table, b, k) = {}
    /\ \/ H /\ outcome' = None /\ at' = <<N + 1, 1>> /\ thrown' = k
       \/ ~H /\ outcome' = k /\ at' = at

\* An instruction of the method throws.
LEMMA RaiseLeads ==
    ASSUME IInv, Running, AtOwn, NEW k \in Kinds, Raise(k)
    PROVE  Caught(at[1], k) \/ Escapes(at[1], k)
<1> DEFINE b == at[1]
<1>1. b \in 1..N /\ outcome = None
    BY DEF AtOwn, AtInstr, Running
<1>2. ASSUME NEW h \in Source!FirstTaker(Body.table, b, k), Goto(Body.table[h].at),
             thrown' = k, outcome' = outcome
      PROVE  Caught(b, k) \/ Escapes(b, k)
    <2>1. \/ h \in Source!FirstTaker(M.table, b, k) /\ Body.table[h] = M.table[h]
             /\ Body.table[h].at \in 1..N
          \/ H /\ Source!Takers(M.table, b, k) = {} /\ Body.table[h].at = N + 1
        BY <1>1, Taken
    <2>2. at' = <<Body.table[h].at, 1>> /\ fired' = <<>>
        BY <1>2 DEF Goto
    <2>3. CASE h \in Source!FirstTaker(M.table, b, k) /\ Body.table[h] = M.table[h]
               /\ Body.table[h].at \in 1..N
        <3>1. M.table[h].at \in 1..N /\ at' = <<M.table[h].at, 1>>
            BY <2>2, <2>3, Zenon
        <3> QED
            BY <1>1, <1>2, <2>2, <2>3, <3>1, Zenon DEF Caught
    <2>4. CASE H /\ Source!Takers(M.table, b, k) = {} /\ Body.table[h].at = N + 1
        <3>1. at' = <<N + 1, 1>>
            BY <2>2, <2>4, Zenon
        <3> QED
            BY <1>1, <1>2, <2>4, <3>1, Zenon DEF Escapes
    <2> QED
        BY <2>1, <2>3, <2>4
<1>3. ASSUME Source!Takers(Body.table, b, k) = {}, outcome' = k, at' = at
      PROVE  Escapes(b, k)
    <2>1. ~H /\ Source!Takers(M.table, b, k) = {}
        BY <1>1, <1>3, Taken
    <2> QED
        BY <1>3, <2>1 DEF Escapes
<1> QED
    BY <1>2, <1>3 DEF Raise

\* What a throw does: it leads somewhere, and the handler of visitMaxs throws again
\* what it has caught.
LEMMA ThrowKeeps ==
    ASSUME IInv, Throw
    PROVE  /\ IInv' /\ Running /\ Fixed
           /\ \/ /\ AtOwn /\ Instr.op \in {"work", "throw"}
                 /\ \E k \in Kinds : Caught(at[1], k) \/ Escapes(at[1], k)
              \/ AtRethrow /\ outcome' = thrown /\ thrown \in Kinds
<1>1. Running /\ Fixed /\ entered' = entered /\ exited' = exited
    BY DEF Throw, classVars, Fixed
<1>2. ASSUME Instr.op \in {"work", "throw"}, NEW k \in Kinds, Raise(k)
      PROVE  IInv' /\ AtOwn /\ (Caught(at[1], k) \/ Escapes(at[1], k))
    <2>1. AtOwn
        BY <1>1, <1>2, IsOwn DEF Ops
    <2>2. Caught(at[1], k) \/ Escapes(at[1], k)
        BY <1>1, <1>2, <2>1, RaiseLeads
    <2>3. Instr.op # "return"
        BY <1>2
    <2>4. entered' = (IF H THEN 1 ELSE 0) /\ exited' = 0
        <3>1. entered = (IF H THEN 1 ELSE 0) /\ exited = 0
            BY <1>1, <2>1, <2>3, OwnInstruction
        <3> QED
            BY <1>1, <3>1
    <2>5. CASE Caught(at[1], k)
        <3>1. PICK h \in Source!FirstTaker(M.table, at[1], k) :
                 M.table[h].at \in 1..N /\ at' = <<M.table[h].at, 1>> /\ fired' = <<>>
            BY <2>5 DEF Caught
        <3>2. AtInstr' /\ at' \in Nat \X Nat
            BY <1>1, <2>4, <3>1, AtBlockStart
        <3>3. outcome' = None
            BY <2>5 DEF Caught
        <3>4. IInv'
            BY <1>1, <3>2, <3>3, StillRuns
        <3> QED
            BY <2>1, <2>2, <3>4
    <2>6. CASE Escapes(at[1], k)
        <3>1. CASE H /\ outcome' = None /\ at' = <<N + 1, 1>> /\ thrown' = k
            <4>1. N' = N /\ H' = H /\ N \in Nat
                BY <1>1, ShapeHolds DEF Fixed, M, N, H, HasProbe, Running
            <4>2. at'[1] = N + 1 /\ at'[2] = 1 /\ at' \in Nat \X Nat
                BY <3>1, <4>1
            <4>3. entered' = 1 /\ exited' = 0
                BY <2>4, <3>1
            <4>4. AtHandler'
                BY <1>2, <3>1, <4>1, <4>2, <4>3 DEF AtHandler
            <4>5. IInv'
                BY <1>1, <3>1, <4>2, <4>4, StillRuns
            <4> QED
                BY <2>1, <2>2, <4>5
        <3>2. CASE ~H /\ outcome' = k /\ at' = at
            <4>1. at' \in Nat \X Nat
                BY <3>2 DEF IInv
            <4>2. entered' = (IF H THEN 1 ELSE 0) /\ exited' = (IF H THEN 1 ELSE 0)
                BY <2>4, <3>2
            <4>3. outcome' \in Kinds \cup {"returned"}
                BY <1>2, <3>2
            <4>4. IInv'
                BY <1>1, <4>1, <4>2, <4>3, StillRuns
            <4> QED
                BY <2>1, <2>2, <4>4
        <3> QED
            BY <2>6, <3>1, <3>2 DEF Escapes
    <2> QED
        BY <2>2, <2>5, <2>6
<1>3. ASSUME Instr.op = "rethrow", Raise(thrown)
      PROVE  IInv' /\ AtRethrow /\ outcome' = thrown /\ thrown \in Kinds
    <2>1. AtRethrow
        <3>1. ~(Instr = Enter) /\ ~AtLine /\ ~AtExit /\ ~AtLeave
            BY <1>3 DEF AtLine, LineOps, AtExit, AtLeave, Enter, Exit
        <3>2. ~AtOwn
            BY <1>1, <1>3, OwnInstruction DEF Ops
        <3> QED
            BY <1>1, <3>1, <3>2, Positions
    <2>2. /\ H /\ thrown \in Kinds /\ at[1] = N + 1 /\ entered = 1 /\ exited = 1
        BY <2>1 DEF AtRethrow, AtHandler
    <2>3. Source!Takers(Body.table, at[1], thrown) = {}
        <3>1. Source!Takers(Body.table, N + 1, thrown) = {}
            BY <1>1, <2>2, Taken
        <3> QED
            BY <2>2, <3>1, Zenon
    <2>4. outcome' = thrown /\ at' = at
        BY <1>3, <2>3 DEF Raise, Source!FirstTaker
    <2>5. at' \in Nat \X Nat
        BY <2>4 DEF IInv
    <2>6. IInv'
        BY <1>1, <2>2, <2>4, <2>5, StillRuns
    <2> QED
        BY <2>1, <2>2, <2>4, <2>6
<1> QED
    BY <1>1, <1>2, <1>3 DEF Throw

\* The class is taken as instrumented or left as it was, before anything runs.
LEMMA LoadKeeps ==
    ASSUME IInv, Load
    PROVE  IInv' /\ sig' = None /\ sig = None /\ UNCHANGED <<at, thrown, outcome>>
<1>1. /\ loaded = None /\ class' = class /\ asked' = asked /\ sig' = sig /\ at' = at
      /\ outcome' = outcome /\ entered' = entered /\ exited' = exited /\ fired' = fired
      /\ thrown' = thrown
    BY DEF Load, Instrument, Refuse, runVars, seenVars
<1>2. sig = None /\ at \in Nat \X Nat
    BY <1>1 DEF IInv
<1>3. (applied \in BOOLEAN /\ LoadedOK /\ (loaded = None => ~applied /\ sig = None))'
    <2>1. CASE Instrument
        <3> DEFINE new == IF asked.methods = {} /\ DOMAIN asked.lines = {} THEN Plain(class)
                          ELSE Transform(class, asked)
        <3>1. new # None /\ loaded' = new /\ applied' = TRUE
            BY <2>1 DEF Instrument
        <3>2. \/ new = Plain(class) /\ asked.methods = {} /\ DOMAIN asked.lines = {}
              \/ new = [s \in DOMAIN class |-> Woven(class, asked, s)]
            BY <3>1 DEF Transform
        <3>3. /\ Plain(class)' = Plain(class)
              /\ [s \in DOMAIN class |-> Woven(class, asked, s)]'
                 = [s \in DOMAIN class |-> Woven(class, asked, s)]
            BY <1>1
        <3> HIDE DEF new
        <3> QED
            BY <1>1, <3>1, <3>2, <3>3 DEF LoadedOK
    <2>2. CASE Refuse
        <3>1. loaded' = Plain(class) /\ applied' = FALSE
            BY <1>1, <2>2 DEF Refuse, IInv
        <3>2. loaded' = Plain(class)'
            BY <1>1, <3>1
        <3> QED
            BY <1>1, <1>2, <3>1, <3>2 DEF LoadedOK
    <2> QED
        BY <2>1, <2>2 DEF Load
<1>4. (class \in Classes /\ asked \in Requests)' /\ sig' = None /\ at' \in Nat \X Nat
    BY <1>1, <1>2 DEF IInv
<1>5. (outcome = None /\ entered = 0 /\ exited = 0 /\ fired = <<>>)'
    BY <1>1, <1>2 DEF IInv
<1>6. ~Running'
    BY <1>4 DEF Running
<1>7. IInv'
    BY <1>3, <1>4, <1>5, <1>6 DEF IInv
<1> QED
    BY <1>1, <1>2, <1>7

\* A method is called: it is at its enter probe or its first instruction.
LEMMA CallKeeps ==
    ASSUME IInv, NEW s \in DOMAIN class, Call(s)
    PROVE  /\ IInv' /\ sig = None /\ sig' = s /\ class[s] # None /\ class' = class
           /\ Running' /\ N' \in Nat /\ N' > 0 /\ at' \in {<<0, 1>>, <<1, 1>>}
<1>1. /\ loaded # None /\ sig = None /\ class[s].code # <<>> /\ sig' = s
      /\ at' = <<loaded[s].first, 1>> /\ class' = class /\ asked' = asked
      /\ loaded' = loaded /\ applied' = applied /\ outcome' = outcome
      /\ entered' = entered /\ exited' = exited /\ fired' = fired
    BY DEF Call, classVars, seenVars
<1>2. /\ class[s] # None /\ s # None /\ IsMethod(class[s]) /\ IsRequest(asked)
      /\ applied \in BOOLEAN /\ outcome = None /\ entered = 0 /\ exited = 0 /\ fired = <<>>
    BY <1>1, WeaveAssumption DEF IInv
<1> DEFINE W == applied /\ s \in asked.methods
<1>3. loaded[s].first = IF W THEN 0 ELSE 1
    <2>1. CASE applied /\ loaded = [t \in DOMAIN class |-> Woven(class, asked, t)]
        <3>1. loaded[s] = Woven(class, asked, s)
            BY <2>1
        <3> QED
            BY <1>1, <2>1, <3>1 DEF Woven, WithProbes, WithLineProbes
    <2>2. CASE loaded = Plain(class) /\ (applied => asked.methods = {} /\ DOMAIN asked.lines = {})
        <3>1. loaded[s].first = 1
            BY <2>2 DEF Plain
        <3>2. ~W
            BY <2>2
        <3> QED
            BY <3>1, <3>2
    <2> QED
        BY <1>1, <2>1, <2>2 DEF IInv, LoadedOK
<1>4. M' = class[s] /\ H' = W /\ N' = Len(class[s].code) /\ sig' # None /\ Running'
    BY <1>1, <1>2 DEF M, N, H, HasProbe, Running
<1>5. N' \in Nat /\ N' > 0
    BY <1>1, <1>2, <1>4 DEF IsMethod
<1>6. CASE W
    <2>1. at' = <<0, 1>> /\ AtStart'
        BY <1>1, <1>2, <1>3, <1>4, <1>6 DEF AtStart
    <2> QED
        BY <1>1, <1>2, <1>4, <1>5, <2>1 DEF IInv, LoadedOK
<1>7. CASE ~W
    <2>1. at' = <<1, 1>>
        BY <1>1, <1>3, <1>7
    <2>2. X(1)' = 0 /\ P(1)' \in Seq([op : LineOps, id : Nat])
        <3>1. X(1)' = 0
            BY <1>4, <1>7 DEF X
        <3>2. P(1)' = IF applied THEN LineProbes(asked, class[s].code[1].mark) ELSE <<>>
            BY <1>1, <1>4 DEF P
        <3>3. LineProbes(asked, class[s].code[1].mark) \in Seq([op : LineOps, id : Nat])
            BY <1>2, LineProbesType
        <3> QED
            BY <3>1, <3>2, <3>3, EmptySeq
    <2>3. Len(P(1)') \in Nat
        BY <2>2
    <2>4. fired' = <<>> /\ Len(fired') = 0 /\ fired' \in Seq([op : LineOps, id : Nat])
        BY <1>1, <1>2, EmptySeq
    <2>5. entered' = 0 /\ exited' = 0 /\ ~H' /\ at'[1] = 1 /\ at'[2] = 1
        <3>1. at'[1] = 1 /\ at'[2] = 1
            BY <2>1
        <3>2. ~H'
            BY <1>4, <1>7
        <3> QED
            BY <1>1, <1>2, <3>1, <3>2
    <2>6. AtInstr'
        BY <1>5, <2>2, <2>3, <2>4, <2>5 DEF AtInstr
    <2> QED
        BY <1>1, <1>2, <1>4, <1>5, <2>1, <2>6 DEF IInv, LoadedOK
<1> QED
    BY <1>1, <1>2, <1>4, <1>5, <1>6, <1>7

\* Every step keeps the invariant.
LEMMA StepIInv == IInv /\ [Next]_vars => IInv'
<1> SUFFICES ASSUME IInv, [Next]_vars PROVE IInv'
    OBVIOUS
<1>1. CASE Load
    BY <1>1, LoadKeeps
<1>2. CASE \E s \in DOMAIN class : Call(s)
    BY <1>2, CallKeeps
<1>3. CASE MethodProbe
    BY <1>3, MethodProbeKeeps
<1>4. CASE LineProbe
    BY <1>4, LineProbeKeeps
<1>5. CASE Complete
    BY <1>5, CompleteKeeps
<1>6. CASE Jump
    BY <1>6, JumpKeeps
<1>7. CASE Return
    BY <1>7, ReturnKeeps
<1>8. CASE Throw
    BY <1>8, ThrowKeeps
<1>9. CASE UNCHANGED vars
    BY <1>9 DEF vars, classVars, runVars, seenVars, IInv, LoadedOK, Running, AtStart, AtInstr,
        AtHandler, H, HasProbe, P, X, M, N
<1> QED
    BY <1>1, <1>2, <1>3, <1>4, <1>5, <1>6, <1>7, <1>8, <1>9 DEF Next, Execute

-----------------------------------------------------------------------------
(* The theorems.                                                           *)

\* The invariant of the activation holds of every class, request and execution.
THEOREM IInvHolds == Spec => []IInv
<1> QED
    BY InitIInv, StepIInv, PTL DEF Spec

\* Enter and exit probes are balanced on every path of every method (visitCode,
\* visitInsn and visitMaxs, BytecodeTransformer.java:208-257).
THEOREM ProbesBalancedHolds == Spec => []ProbesBalanced
<1>1. IInv => ProbesBalanced
    <2> SUFFICES ASSUME IInv PROVE ProbesBalanced
        OBVIOUS
    <2>1. exited <= entered /\ entered <= 1
        <3>1. CASE sig = None
            BY <3>1 DEF IInv
        <3>2. CASE outcome # None
            BY <3>2 DEF IInv
        <3>3. CASE AtStart
            BY <3>3 DEF AtStart
        <3>4. CASE AtInstr
            BY <3>4 DEF AtInstr, X
        <3>5. CASE AtHandler
            BY <3>5 DEF AtHandler
        <3> QED
            BY <3>1, <3>2, <3>3, <3>4, <3>5 DEF IInv, Running
    <2>2. Original => /\ entered = IF HasProbe THEN 1 ELSE 0
                      /\ exited = IF HasProbe /\ Instr.op = "return" THEN 1 ELSE 0
        <3> SUFFICES ASSUME Original
                     PROVE  /\ entered = IF HasProbe THEN 1 ELSE 0
                            /\ exited = IF HasProbe /\ Instr.op = "return" THEN 1 ELSE 0
            OBVIOUS
        <3>1. AtOwn
            BY IsOwn DEF Original
        <3> QED
            BY <3>1, OwnInstruction DEF Original, H
    <2>3. outcome # None => entered = exited /\ (entered = 1) = HasProbe
        BY DEF IInv, H
    <2> QED
        BY <2>1, <2>2, <2>3 DEF ProbesBalanced
<1> QED
    BY <1>1, IInvHolds, PTL

\* Each probe of a line has run when an instruction that the line begins with runs
\* (visitLineNumber, BytecodeTransformer.java:174-191).
THEOREM LineIsSeenHolds == Spec => []LineIsSeen
<1>1. IInv => LineIsSeen
    <2> SUFFICES ASSUME IInv, Original PROVE fired = P(at[1])
        BY DEF LineIsSeen, P, M
    <2> DEFINE L == [op : LineOps, id : Nat]
    <2>1. AtOwn /\ Running
        BY IsOwn DEF Original
    <2>2. at[1] \in 1..N /\ P(at[1]) \in Seq(L)
        BY <2>1, ShapeHolds DEF Running, AtOwn, AtInstr
    <2> HIDE DEF L
    <2>3. Len(P(at[1])) \in Nat /\ X(at[1]) \in {0, 1}
        BY <2>2 DEF X
    <2>4. fired \in Seq(L) /\ \A i \in 1..Len(fired) : fired[i] = P(at[1])[i]
        BY <2>1 DEF AtOwn, AtInstr, L
    <2>5. Len(fired) = Len(P(at[1]))
        BY <2>1, <2>3 DEF AtOwn, AtInstr
    <2> QED
        BY <2>2, <2>4, <2>5, SeqEqual
<1> QED
    BY <1>1, IInvHolds, PTL

-----------------------------------------------------------------------------
(* A method runs as it did without its probes.  The activation is seen as  *)
(* <<SM, SA, SO>>.                                                         *)

SM == IF sig = None THEN None ELSE class[sig]
SA == IF Running /\ at[1] <= N THEN IF at[1] = 0 THEN 1 ELSE at[1] ELSE 0
SO == IF Running /\ at[1] > N THEN thrown ELSE outcome

\* An instruction of the method is seen where it is.
LEMMA SeenAtOwn ==
    ASSUME IInv, Running, AtOwn
    PROVE  /\ SM = M /\ SA = at[1] /\ SA # 0 /\ SO = None
           /\ SM.code[SA] = Instr /\ SM.table = M.table
           /\ N \in Nat /\ at[1] \in 1..N
<1>1. at[1] \in 1..N /\ Instr = M.code[at[1]]
    BY DEF AtOwn, AtInstr
<1>2. N \in Nat /\ sig # None /\ outcome = None
    BY ShapeHolds DEF Running
<1>3. SM = M
    BY <1>2 DEF SM, M
<1>4. SA = at[1] /\ SA # 0 /\ SO = None
    BY <1>1, <1>2 DEF SA, SO
<1> QED
    BY <1>1, <1>2, <1>3, <1>4

\* The start of a block is seen as its instruction.
LEMMA SeenAtBlock ==
    ASSUME Fixed, sig # None, outcome' = None, N \in Nat, NEW b \in 1..N, at' = <<b, 1>>
    PROVE  SM' = SM /\ SA' = b /\ SO' = None
<1>1. SM' = SM
    BY DEF SM, Fixed
<1>2. Running' /\ N' = N
    BY DEF Running, Fixed, M, N
<1>3. at'[1] = b /\ b # 0 /\ b <= N /\ ~(b > N)
    OBVIOUS
<1> QED
    BY <1>1, <1>2, <1>3 DEF SA, SO

\* Nor do probes change what is seen.
LEMMA ProbesUnseen ==
    ASSUME IInv, MethodProbe \/ LineProbe
    PROVE  UNCHANGED <<SM, SA, SO>>
<1>1. Running /\ Fixed /\ outcome' = outcome /\ thrown' = thrown
    BY DEF MethodProbe, LineProbe, classVars, Fixed
<1>2. at'[1] = at[1] \/ (at[1] = 0 /\ at'[1] = 1)
    BY MethodProbeKeeps, LineProbeKeeps
<1>3. N \in Nat /\ N > 0 /\ N' = N /\ SM' = SM /\ Running'
    BY <1>1, ShapeHolds DEF Running, Fixed, M, N, SM
<1>4. CASE at'[1] = at[1]
    BY <1>1, <1>3, <1>4 DEF SA, SO
<1>5. CASE at[1] = 0 /\ at'[1] = 1
    BY <1>1, <1>3, <1>5 DEF SA, SO
<1> QED
    BY <1>2, <1>3, <1>4, <1>5

\* A step of the program, as one of the method as written.
LEMMA StepRefines == IInv /\ [Next]_vars => [Source!Next]_<<SM, SA, SO>>
<1> SUFFICES ASSUME IInv, [Next]_vars PROVE Source!Next \/ UNCHANGED <<SM, SA, SO>>
    OBVIOUS
<1>1. CASE Load
    <2>1. sig' = None /\ sig = None /\ outcome' = outcome
        BY <1>1, LoadKeeps
    <2> QED
        BY <2>1 DEF SM, SA, SO, Running
<1>2. ASSUME NEW s \in DOMAIN class, Call(s)
      PROVE  Source!Next
    <2>1. /\ sig = None /\ sig' = s /\ class[s] # None /\ class' = class
          /\ Running' /\ N' \in Nat /\ N' > 0 /\ at' \in {<<0, 1>>, <<1, 1>>}
        BY <1>2, CallKeeps
    <2>2. outcome' = outcome /\ s # None
        BY <1>2, <2>1 DEF Call, Running
    <2>3. SM = None /\ SM' # None /\ SA' = 1 /\ SO' = SO
        <3>1. at'[1] \in {0, 1}
            BY <2>1
        <3>2. ~(at'[1] > N') /\ at'[1] <= N'
            BY <2>1, <3>1
        <3> QED
            BY <2>1, <2>2, <3>1, <3>2 DEF SM, SA, SO, Running
    <2> QED
        BY <2>3 DEF SM, SA, SO, N, M, Source!Next, Source!Call
<1>3. CASE MethodProbe \/ LineProbe
    BY <1>3, ProbesUnseen
<1>4. CASE Complete
    <2>1. /\ AtOwn /\ Fixed /\ Running /\ outcome' = None /\ Instr.op \in {"work", "branch"}
          /\ at' = <<at[1] + 1, 1>> /\ at[1] + 1 \in 1..N
        BY <1>4, CompleteKeeps DEF Complete, Running
    <2>2. /\ SM = M /\ SA = at[1] /\ SA # 0 /\ SO = None /\ SM.code[SA] = Instr /\ N \in Nat
        BY <2>1, SeenAtOwn
    <2>3. SM' = SM /\ SA' = SA + 1 /\ SO' = SO
        BY <2>1, <2>2, SeenAtBlock DEF Running
    <2>4. SM.code[SA].op \in {"work", "branch"}
        BY <2>1, <2>2
    <2> QED
        BY <2>2, <2>3, <2>4 DEF SM, SA, SO, N, M, Source!Next, Source!Complete, Source!Op
<1>5. CASE Jump
    <2>1. /\ AtOwn /\ Fixed /\ Running /\ outcome' = None /\ Instr.op = "branch"
          /\ at' = <<Instr.to, 1>> /\ Instr.to \in 1..N
        BY <1>5, JumpKeeps DEF Jump, Running
    <2>2. /\ SM = M /\ SA = at[1] /\ SA # 0 /\ SO = None /\ SM.code[SA] = Instr /\ N \in Nat
        BY <2>1, SeenAtOwn
    <2>3. SM' = SM /\ SA' = Instr.to /\ SO' = SO
        BY <2>1, <2>2, SeenAtBlock DEF Running
    <2>4. SM.code[SA].op = "branch" /\ SA' = SM.code[SA].to
        BY <2>1, <2>2, <2>3
    <2> QED
        BY <2>2, <2>3, <2>4 DEF SM, SA, SO, N, M, Source!Next, Source!Jump, Source!Op
<1>6. CASE Return
    <2>1. /\ AtOwn /\ Fixed /\ Running /\ outcome' = "returned" /\ Instr.op = "return"
        BY <1>6, ReturnKeeps DEF Return
    <2>2. /\ SM = M /\ SA = at[1] /\ SA # 0 /\ SO = None /\ SM.code[SA] = Instr
        BY <2>1, SeenAtOwn
    <2>3. SM' = SM /\ SA' = 0 /\ SO' = "returned"
        BY <2>1, WeaveAssumption DEF SM, SA, SO, Running, Fixed
    <2>4. SM.code[SA].op = "return"
        BY <2>1, <2>2
    <2> QED
        BY <2>2, <2>3, <2>4 DEF SM, SA, SO, N, M, Source!Next, Source!Return, Source!Op
<1>7. CASE Throw
    <2>1. Fixed /\ Running
        BY <1>7, ThrowKeeps
    <2>2. ASSUME AtOwn, Instr.op \in {"work", "throw"}, NEW k \in Kinds,
                 Caught(at[1], k) \/ Escapes(at[1], k)
          PROVE  Source!Next
        <3>1. /\ SM = M /\ SA = at[1] /\ SA # 0 /\ SO = None /\ SM.code[SA] = Instr
              /\ SM.table = M.table /\ N \in Nat
            BY <2>1, <2>2, SeenAtOwn
        <3>2. Source!Op \in {"work", "throw"}
            BY <2>2, <3>1 DEF SM, SA, N, M, Source!Op
        <3>3. SM' = SM
            BY <2>1 DEF SM, Fixed
        <3>4. CASE Caught(at[1], k)
            <4>1. PICK h \in Source!FirstTaker(M.table, at[1], k) :
                     M.table[h].at \in 1..N /\ at' = <<M.table[h].at, 1>>
                BY <3>4 DEF Caught
            <4>2. SA' = M.table[h].at /\ SO' = SO
                BY <2>1, <3>1, <3>4, <4>1, SeenAtBlock DEF Running, Caught
            <4>3. h \in Source!FirstTaker(SM.table, SA, k) /\ SA' = SM.table[h].at
                BY <3>1, <4>1, <4>2, Zenon
            <4> QED
                BY <3>1, <3>2, <3>3, <4>2, <4>3
                   DEF SM, SA, SO, N, M, Source!Next, Source!Throw
        <3>5. CASE Escapes(at[1], k)
            <4>1. Source!Takers(SM.table, SA, k) = {}
                BY <3>1, <3>5, Zenon DEF Escapes
            <4>2. SA' = 0 /\ SO' = k
                <5>1. CASE H /\ outcome' = None /\ at' = <<N + 1, 1>> /\ thrown' = k
                    <6>1. at'[1] = N + 1 /\ N' = N /\ Running'
                        BY <2>1, <5>1 DEF Fixed, M, N, Running
                    <6> QED
                        BY <3>1, <5>1, <6>1 DEF SA, SO
                <5>2. CASE ~H /\ outcome' = k
                    BY <2>2, <5>2, WeaveAssumption DEF SA, SO, Running
                <5> QED
                    BY <3>5, <5>1, <5>2 DEF Escapes
            <4> QED
                BY <3>1, <3>2, <3>3, <4>1, <4>2
                   DEF SM, SA, SO, N, M, Source!Next, Source!Throw
        <3> QED
            BY <2>2, <3>4, <3>5
    <2>3. ASSUME AtRethrow, outcome' = thrown, thrown \in Kinds
          PROVE  UNCHANGED <<SM, SA, SO>>
        <3>1. at[1] = N + 1 /\ N \in Nat /\ ~(at[1] <= N) /\ at[1] > N
            BY <2>1, <2>3, ShapeHolds DEF AtRethrow, AtHandler, Running
        <3>2. thrown # None
            BY <2>3, WeaveAssumption
        <3> QED
            BY <2>1, <2>3, <3>1, <3>2 DEF SM, SA, SO, Running, Fixed
    <2> QED
        BY <1>7, <2>2, <2>3, ThrowKeeps
<1>8. CASE UNCHANGED vars
    BY <1>8 DEF vars, classVars, runVars, SM, SA, SO, Running, M, N
<1> QED
    BY <1>1, <1>2, <1>3, <1>4, <1>5, <1>6, <1>7, <1>8 DEF Next, Execute

\* With its probes every method does what it did without, for every class and request
\* (MethodInstrumentingAdapter, BytecodeTransformer.java:208-257).
THEOREM RunsAsBeforeHolds == Spec => RunsAsBefore
<1>1. Init => Source!Init
    BY DEF Init, Source!Init, Running
<1>2. IInv /\ [Next]_vars => [Source!Next]_<<SM, SA, SO>>
    BY StepRefines
<1> QED
    BY <1>1, <1>2, IInvHolds, PTL DEF Spec, RunsAsBefore, Source!Spec, SM, SA, SO, N, M
-----------------------------------------------------------------------------
(* What was counted.                                                       *)

\* There are only so many line probes in a request.
LEMMA LineInstrumentsFinite ==
    ASSUME NEW r, IsRequest(r)
    PROVE  IsFiniteSet(LineInstruments(r))
<1> DEFINE D == DOMAIN r.lines
           f == [l \in D |-> {l} \X DOMAIN r.lines[l]]
           T == {{l} \X DOMAIN r.lines[l] : l \in D}
<1>1. IsFiniteSet(D)
    BY DEF IsRequest
<1>2. f \in Surjection(D, T)
    BY DEF Surjection
<1>3. IsFiniteSet(T)
    <2> HIDE DEF f, D, T
    <2> QED BY <1>1, <1>2, FS_Surjection
<1>4. ASSUME NEW l \in D PROVE IsFiniteSet({l} \X DOMAIN r.lines[l])
    <2>1. Len(r.lines[l]) \in Nat /\ DOMAIN r.lines[l] = 1..Len(r.lines[l])
        BY DEF IsRequest
    <2>2. IsFiniteSet(DOMAIN r.lines[l])
        BY <2>1, FS_Interval
    <2>3. IsFiniteSet({l})
        BY FS_Singleton
    <2> QED BY <2>2, <2>3, FS_Product
<1>5. \A t \in T : IsFiniteSet(t)
    BY <1>4
<1>6. IsFiniteSet(UNION T)
    <2> HIDE DEF T
    <2> QED BY <1>3, <1>5, FS_UNION
<1> QED BY <1>6 DEF LineInstruments

\* A method of the request is one of the class, and every line of the request
\* begins somewhere.
Matched(c, r) ==
    /\ r.methods \subseteq DOMAIN c
    /\ \A i \in LineInstruments(r) : Marks(c, i[1]) # {}

\* The count is full only when nothing is missing.
LEMMA FullCount ==
    ASSUME NEW c, NEW r, IsRequest(r),
           ~(MatchedCount(c, r) < Cardinality(r.methods) + Cardinality(LineInstruments(r)))
    PROVE  Matched(c, r)
<1> DEFINE F == r.methods
           G == F \cap DOMAIN c
           L == LineInstruments(r)
           K == {i \in L : Marks(c, i[1]) # {}}
<1>1. IsFiniteSet(F) /\ IsFiniteSet(L)
    BY LineInstrumentsFinite DEF IsRequest
<1>2. G \in SUBSET F /\ K \in SUBSET L
    OBVIOUS
<1>3. ~(Cardinality(G) + Cardinality(K) < Cardinality(F) + Cardinality(L))
    BY DEF MatchedCount
<1> HIDE DEF F, G, L, K
<1>4. /\ Cardinality(F) \in Nat /\ Cardinality(L) \in Nat
      /\ Cardinality(G) \in Nat /\ Cardinality(K) \in Nat
      /\ Cardinality(G) <= Cardinality(F) /\ Cardinality(K) <= Cardinality(L)
    BY <1>1, <1>2, FS_Subset, FS_CardinalityType
<1>5. Cardinality(G) = Cardinality(F) /\ Cardinality(K) = Cardinality(L)
    <2>1. \A f, g, l, k \in Nat : ~(g + k < f + l) /\ g <= f /\ k <= l => g = f /\ k = l
        OBVIOUS
    <2> QED BY <1>3, <1>4, <2>1, Zenon
<1>6. F = G /\ L = K
    BY <1>1, <1>2, <1>5, FS_Subset
<1> QED BY <1>6 DEF F, G, L, K, Matched

\* A class that was taken as instrumented has a place for all that was asked for.
AllMatched == applied => \/ loaded = Plain(class) /\ asked.methods = {} /\ DOMAIN asked.lines = {}
                         \/ /\ loaded = [s \in DOMAIN class |-> Woven(class, asked, s)]
                            /\ Matched(class, asked)

\* The count is made when the class is instrumented.
LEMMA MatchedKept == IInv /\ AllMatched /\ [Next]_vars => AllMatched'
<1> SUFFICES ASSUME IInv, AllMatched, [Next]_vars PROVE AllMatched'
    OBVIOUS
<1>1. CASE Instrument
    <2>1. /\ class' = class /\ asked' = asked
          /\ \/ loaded' = Plain(class) /\ asked.methods = {} /\ DOMAIN asked.lines = {}
             \/ loaded' = Transform(class, asked) /\ Transform(class, asked) # None
        BY <1>1 DEF Instrument
    <2>2. CASE loaded' = Plain(class) /\ asked.methods = {} /\ DOMAIN asked.lines = {}
        <3>1. Plain(class)' = Plain(class)
            BY <2>1
        <3> QED BY <2>1, <2>2, <3>1 DEF AllMatched
    <2>3. CASE loaded' = Transform(class, asked) /\ Transform(class, asked) # None
        <3>1. IsRequest(asked)
            BY WeaveAssumption DEF IInv
        <3>2. /\ loaded' = [s \in DOMAIN class |-> Woven(class, asked, s)]
              /\ ~(MatchedCount(class, asked)
                   < Cardinality(asked.methods) + Cardinality(LineInstruments(asked)))
            BY <2>3 DEF Transform
        <3>3. Matched(class, asked)
            BY <3>1, <3>2, FullCount
        <3>4. /\ Matched(class, asked)' = Matched(class, asked)
              /\ [s \in DOMAIN class |-> Woven(class, asked, s)]'
                 = [s \in DOMAIN class |-> Woven(class, asked, s)]
            BY <2>1
        <3> QED BY <3>2, <3>3, <3>4 DEF AllMatched
    <2> QED BY <2>1, <2>2, <2>3
<1>2. CASE Refuse
    BY <1>2 DEF Refuse, IInv, AllMatched
<1>3. CASE UNCHANGED classVars
    BY <1>3 DEF classVars, AllMatched
<1>4. (\E s \in DOMAIN class : Call(s)) \/ Execute \/ UNCHANGED vars => UNCHANGED classVars
    BY DEF Call, Execute, MethodProbe, LineProbe, Complete, Jump, Return, Throw, vars, classVars
<1> QED
    BY <1>1, <1>2, <1>3, <1>4 DEF Next, Load

\* Where a line of the request begins, its probes stand in front of the instruction.
LEMMA ProbeIsThere ==
    ASSUME IInv, applied, AllMatched,
           NEW l \in DOMAIN asked.lines, NEW i \in 1..Len(asked.lines[l])
    PROVE  \E s \in DOMAIN class : \E b \in DOMAIN loaded[s].blocks :
              \E o \in 1..Len(loaded[s].blocks[b]) - 1 :
                  loaded[s].blocks[b][o] = asked.lines[l][i]
<1>1. /\ loaded = [s \in DOMAIN class |-> Woven(class, asked, s)]
      /\ Matched(class, asked)
    BY DEF AllMatched
<1>2. IsRequest(asked)
    BY WeaveAssumption DEF IInv
<1>3. /\ Len(asked.lines[l]) \in Nat /\ DOMAIN asked.lines[l] = 1..Len(asked.lines[l])
    BY <1>2 DEF IsRequest
<1>4. <<l, i>> \in LineInstruments(asked)
    BY <1>3 DEF LineInstruments
<1>5. Marks(class, l) # {}
    BY <1>1, <1>4 DEF Matched
<1>6. PICK s \in DOMAIN class : \E b \in DOMAIN class[s].code : class[s].code[b].mark = l
    BY <1>5 DEF Marks
<1>7. PICK b \in DOMAIN class[s].code : class[s].code[b].mark = l
    BY <1>6
<1> DEFINE m == class[s]
           n == Len(m.code)
<1>8. n \in Nat /\ b \in 1..n
    <2>1. IsMethod(m)
        BY WeaveAssumption DEF IInv
    <2>2. n \in Nat /\ DOMAIN m.code = 1..n
        BY <2>1 DEF IsMethod
    <2> QED BY <1>7, <2>2
<1>9. PICK exit \in {<<>>, <<Exit>>} :
          b \in DOMAIN loaded[s].blocks /\ loaded[s].blocks[b] = Block(m, asked, exit, b)
    <2>1. loaded[s] = Woven(class, asked, s)
        BY <1>1
    <2>2. CASE s \in asked.methods /\ class[s].code # <<>>
        <3>1. loaded[s] = WithProbes(m, asked)
            BY <2>1, <2>2 DEF Woven
        <3>2. b \in 0..n + 1 /\ b # 0 /\ b # n + 1
            BY <1>8
        <3> HIDE DEF m
        <3>3. /\ DOMAIN WithProbes(m, asked).blocks = 0..n + 1
              /\ WithProbes(m, asked).blocks[b] = Block(m, asked, <<Exit>>, b)
            BY <3>2 DEF WithProbes
        <3> QED BY <3>1, <3>2, <3>3
    <2>3. CASE ~(s \in asked.methods /\ class[s].code # <<>>)
        <3>1. loaded[s] = WithLineProbes(m, asked)
            BY <2>1, <2>3 DEF Woven
        <3> HIDE DEF m
        <3>2. /\ DOMAIN WithLineProbes(m, asked).blocks = 1..n
              /\ WithLineProbes(m, asked).blocks[b] = Block(m, asked, <<>>, b)
            BY <1>8 DEF WithLineProbes
        <3> QED BY <1>8, <3>1, <3>2
    <2> QED BY <2>2, <2>3
<1>10. LineProbes(asked, m.code[b].mark) = asked.lines[l]
    BY <1>7 DEF LineProbes
<1> DEFINE e == IF m.code[b].op = "return" THEN Len(exit) ELSE 0
<1>11. IsBlock(loaded[s].blocks[b], asked.lines[l], e, m.code[b])
    BY <1>2, <1>9, <1>10, BlockParts
<1>12. e \in {0, 1}
    OBVIOUS
<1> HIDE DEF e
<1>13. /\ Len(loaded[s].blocks[b]) = Len(asked.lines[l]) + e + 1
       /\ loaded[s].blocks[b][i] = asked.lines[l][i]
    BY <1>11 DEF IsBlock
<1>14. i \in 1..Len(loaded[s].blocks[b]) - 1
    BY <1>3, <1>12, <1>13
<1> QED BY <1>9, <1>13, <1>14

\* A class that was taken as instrumented has all that was asked for: what
\* countMatch counts cannot make up for a probe that is missing
\* (BytecodeTransformer.java:59-66, 187-189).
THEOREM AllIsWovenHolds == Spec => []AllIsWoven
<1>1. Init => AllMatched
    BY DEF Init, AllMatched
<1>2. IInv /\ AllMatched => AllIsWoven
    <2> SUFFICES ASSUME IInv, AllMatched, applied PROVE AllIsWoven
        BY DEF AllIsWoven
    <2>1. ASSUME NEW s \in asked.methods
          PROVE  s \in DOMAIN class /\ (class[s].code # <<>> => loaded[s].first = 0)
        <3>1. /\ loaded = [t \in DOMAIN class |-> Woven(class, asked, t)]
              /\ s \in DOMAIN class
            BY <2>1 DEF AllMatched, Matched
        <3>2. ASSUME class[s].code # <<>> PROVE loaded[s].first = 0
            <4>1. loaded[s] = WithProbes(class[s], asked)
                BY <2>1, <3>1, <3>2 DEF Woven
            <4> QED BY <4>1 DEF WithProbes
        <3> QED BY <3>1, <3>2
    <2> QED BY <2>1, ProbeIsThere DEF AllIsWoven
<1> QED
    BY <1>1, <1>2, IInvHolds, MatchedKept, PTL DEF Spec
=============================================================================
