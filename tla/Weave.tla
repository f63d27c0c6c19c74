------------------------------- MODULE Weave --------------------------------
(***************************************************************************)
(* The probes that BytecodeTransformer puts into the methods of a class,   *)
(* and how a method runs with them.                                        *)
(*                                                                         *)
(* The bytecode of a method is a function of blocks: block b holds what is *)
(* emitted for the b-th instruction of the original, that instruction last;*)
(* block 0 is what visitCode emits before all of them and block n + 1 what *)
(* visitMaxs appends.  Labels are blocks, since ASM puts a label before    *)
(* anything that is emitted for its instruction.                           *)
(***************************************************************************)
EXTENDS Integers, Sequences, FiniteSets

CONSTANTS Kinds,     \* the exceptions there are
          Lines,     \* line numbers
          None,
          Classes,   \* the classes: functions from signatures to methods
          Requests   \* the probes asked for

Ops == {"work", "branch", "return", "throw"}

\* [from, to) and the handler, in instructions.
Handlers(n) == [from : 1..n, to : 1..n + 1, at : 1..n, kinds : SUBSET Kinds]

\* A method that javac can have made: it does not run off its end.  One without
\* code is abstract or native.
IsMethod(m) ==
    LET n == Len(m.code)
    IN  /\ m.code \in Seq([mark : Lines \cup {None}, op : Ops, to : 1..n])
        /\ m.table \in Seq(Handlers(n))
        /\ n > 0 => m.code[n].op \in {"return", "throw"}

\* What transform makes of its arrays: the methods that get a probe, and for each
\* line its probes in the order of the arrays.
IsRequest(r) ==
    /\ IsFiniteSet(r.methods) /\ IsFiniteSet(DOMAIN r.lines)
    /\ DOMAIN r.lines \subseteq Lines
    /\ \A l \in DOMAIN r.lines : r.lines[l] \in Seq([op : {"enterLine", "exitLine"}, id : Nat])

ASSUME WeaveAssumption ==
    /\ None \notin Lines /\ None \notin Kinds /\ "returned" \notin Kinds /\ None # "returned"
    /\ \A c \in Classes : \A s \in DOMAIN c : s # None /\ IsMethod(c[s]) /\ c[s] # None
    /\ \A r \in Requests : IsRequest(r)

VARIABLES
    class,     \* the class as it was compiled
    asked,     \* the probes asked for
    loaded,    \* the bytecode that it runs, or None before it is known
    applied,   \* did bc_instrument_method succeed?
    \* the activation
    sig,       \* the method that runs, or None
    at,        \* <<block, offset>>
    thrown,    \* the exception that the last handler has taken
    outcome,   \* None, "returned", or the exception it has ended with
    \* what the probes have seen of the activation
    entered, exited,
    fired      \* the line probes since the start of the block

classVars == <<class, asked, loaded, applied>>
runVars   == <<sig, at, thrown, outcome>>
seenVars  == <<entered, exited, fired>>
vars      == <<classVars, runVars, seenVars>>

-----------------------------------------------------------------------------
(* BytecodeTransformer                                                     *)

\* The calls of ProfilerRegistry.enter and exit, and the ATHROW of the handler.
Enter   == [op |-> "enter"]
Exit    == [op |-> "exit"]
Rethrow == [op |-> "rethrow"]

\* visitLineNumber: the probes of a line follow each of its marks.
LineProbes(r, mark) == IF mark \in DOMAIN r.lines THEN r.lines[mark] ELSE <<>>

\* Mutant: a probe that has been marked is not emitted again.
BlockOnce(m, r, exit, b) ==
    (IF \E a \in 1..b - 1 : m.code[a].mark = m.code[b].mark
     THEN <<>> ELSE LineProbes(r, m.code[b].mark))
    \o (IF m.code[b].op = "return" THEN exit ELSE <<>>)
    \o <<m.code[b]>>

\* What is emitted for an instruction: visitLineNumber, visitInsn with what it puts
\* before a return.
Block(m, r, exit, b) ==
    LineProbes(r, m.code[b].mark)
    \o (IF m.code[b].op = "return" THEN exit ELSE <<>>)
    \o <<m.code[b]>>

\* Mutant: the protected range has the handler in it.
CatchAllOverHandler(n) == [from |-> 0, to |-> n + 2, at |-> n + 1, kinds |-> Kinds]

\* visitMaxs: from startFinally to endFinally, which is also the handler.
CatchAll(n) == [from |-> 0, to |-> n + 1, at |-> n + 1, kinds |-> Kinds]

\* Mutant: the entry is visited first, and comes before those of the method.
TableFirst(m) == <<CatchAll(Len(m.code))>> \o m.table

Table(m) == Append(m.table, CatchAll(Len(m.code)))

\* MethodInstrumentingAdapter
WithProbes(m, r) ==
    LET n == Len(m.code)
    IN  [first |-> 0,
         blocks |-> [b \in 0..n + 1 |->
                        IF b = 0 THEN <<Enter>>
                        ELSE IF b = n + 1 THEN <<Exit, Rethrow>>
                        ELSE Block(m, r, <<Exit>>, b)],
         table |-> Table(m)]

\* LineInstrumentingAdapter
WithLineProbes(m, r) ==
    [first |-> 1,
     blocks |-> [b \in 1..Len(m.code) |-> Block(m, r, <<>>, b)],
     table |-> m.table]

\* InstrumentingVisitor.visitMethod; there is nothing to visit in a method
\* without code.
Woven(c, r, s) ==
    IF s \in r.methods /\ c[s].code # <<>> THEN WithProbes(c[s], r)
    ELSE WithLineProbes(c[s], r)

LineInstruments(r) == UNION {{l} \X DOMAIN r.lines[l] : l \in DOMAIN r.lines}

\* Where a line begins: methods and instructions.
Marks(c, l) == UNION {{s} \X {b \in DOMAIN c[s].code : c[s].code[b].mark = l} : s \in DOMAIN c}

\* Mutant: a line probe counts once for each mark of its line.
MatchedCountOfMarks(c, r) ==
    Cardinality(r.methods \cap DOMAIN c)
    + Cardinality(UNION {{i} \X Marks(c, i[1]) : i \in LineInstruments(r)})

\* countMatch: a method counts when it is visited, a line probe when it is first
\* emitted.
MatchedCount(c, r) ==
    Cardinality(r.methods \cap DOMAIN c)
    + Cardinality({i \in LineInstruments(r) : Marks(c, i[1]) # {}})

\* transform
Transform(c, r) ==
    IF MatchedCount(c, r) < Cardinality(r.methods) + Cardinality(LineInstruments(r))
    THEN None
    ELSE [s \in DOMAIN c |-> Woven(c, r, s)]

\* What the JVM runs when nothing is woven in.
Plain(c) == [s \in DOMAIN c |-> [first |-> 1,
                                blocks |-> [b \in DOMAIN c[s].code |-> <<c[s].code[b]>>],
                                table |-> c[s].table]]

-----------------------------------------------------------------------------
Init ==
    /\ class \in Classes /\ asked \in Requests
    /\ loaded = None /\ applied = FALSE
    /\ sig = None /\ at = <<0, 0>> /\ thrown = None /\ outcome = None
    /\ entered = 0 /\ exited = 0 /\ fired = <<>>

\* bc_instrument_method: with nothing asked for the class is copied.  What it
\* returns replaces the class.
Instrument ==
    /\ loaded = None
    /\ LET new == IF asked.methods = {} /\ DOMAIN asked.lines = {} THEN Plain(class)
                  ELSE Transform(class, asked)
       IN  /\ new # None
           /\ loaded' = new /\ applied' = TRUE
    /\ UNCHANGED <<class, asked, runVars, seenVars>>

\* It returns NULL, because transform does or because a call of the JVM fails: the
\* class is not retransformed.
Refuse ==
    /\ loaded = None
    /\ loaded' = Plain(class)
    /\ UNCHANGED <<class, asked, applied, runVars, seenVars>>

Call(s) ==
    /\ loaded # None /\ sig = None
    /\ class[s].code # <<>>
    /\ sig' = s /\ at' = <<loaded[s].first, 1>>
    /\ UNCHANGED <<classVars, thrown, outcome, seenVars>>

Running == sig # None /\ outcome = None
Body    == loaded[sig]
Instr   == Body.blocks[at[1]][at[2]]

\* The end of a block is the start of the next one.
Advance ==
    IF at[2] < Len(Body.blocks[at[1]])
    THEN at' = <<at[1], at[2] + 1>> /\ UNCHANGED fired
    ELSE at' = <<at[1] + 1, 1>> /\ fired' = <<>>

Goto(b) == at' = <<b, 1>> /\ fired' = <<>>

\* ProfilerRegistry.enter and exit
MethodProbe ==
    /\ Running /\ Instr.op \in {"enter", "exit"}
    /\ entered' = IF Instr.op = "enter" THEN entered + 1 ELSE entered
    /\ exited' = IF Instr.op = "exit" THEN exited + 1 ELSE exited
    /\ Advance
    /\ UNCHANGED <<classVars, sig, thrown, outcome>>

\* ProfilerRegistry.enterLine and exitLine
LineProbe ==
    /\ Running /\ Instr.op \in {"enterLine", "exitLine"}
    /\ at' = <<at[1], at[2] + 1>>
    /\ fired' = Append(fired, Instr)
    /\ UNCHANGED <<classVars, sig, thrown, outcome, entered, exited>>

Complete ==
    /\ Running /\ Instr.op \in {"work", "branch"}
    /\ Advance
    /\ UNCHANGED <<classVars, sig, thrown, outcome, entered, exited>>

Jump ==
    /\ Running /\ Instr.op = "branch"
    /\ Goto(Instr.to)
    /\ UNCHANGED <<classVars, sig, thrown, outcome, entered, exited>>

Return ==
    /\ Running /\ Instr.op = "return"
    /\ outcome' = "returned"
    /\ UNCHANGED <<classVars, sig, at, thrown, seenVars>>

Source == INSTANCE MethodRun WITH
    method <- IF sig = None THEN None ELSE class[sig],
    at <- IF Running /\ at[1] <= Len(class[sig].code)
          THEN IF at[1] = 0 THEN 1 ELSE at[1] ELSE 0,
    outcome <- IF Running /\ at[1] > Len(class[sig].code) THEN thrown ELSE outcome

\* An exception k: the first entry of the table that takes it, or the caller.
Raise(k) ==
    \/ /\ \E h \in Source!FirstTaker(Body.table, at[1], k) : Goto(Body.table[h].at)
       /\ thrown' = k
       /\ UNCHANGED outcome
    \/ /\ Source!Takers(Body.table, at[1], k) = {}
       /\ outcome' = k
       /\ UNCHANGED <<at, fired, thrown>>

Throw ==
    /\ Running
    /\ \/ Instr.op \in {"work", "throw"} /\ \E k \in Kinds : Raise(k)
       \/ Instr.op = "rethrow" /\ Raise(thrown)
    /\ UNCHANGED <<classVars, sig, entered, exited>>

Load == Instrument \/ Refuse

Execute == MethodProbe \/ LineProbe \/ Complete \/ Jump \/ Return \/ Throw

Next == Load \/ (\E s \in DOMAIN class : Call(s)) \/ Execute

Spec == Init /\ [][Next]_vars

-----------------------------------------------------------------------------
(* Properties                                                              *)

Original == Running /\ Instr.op \in Ops

HasProbe == applied /\ sig \in asked.methods

\* The method is entered once before any of its own instructions runs and left
\* once after the last of them, whichever way it ends and wherever it jumps; a
\* method without a probe is neither (BytecodeTransformer.java:208-257).
ProbesBalanced ==
    /\ exited <= entered /\ entered <= 1
    /\ Original =>
          /\ entered = IF HasProbe THEN 1 ELSE 0
          /\ exited = IF HasProbe /\ Instr.op = "return" THEN 1 ELSE 0
    /\ outcome # None => entered = exited /\ (entered = 1) = HasProbe

\* When an instruction that a line begins with runs, each probe of the line has
\* run once, in the order they were asked for, whether the line was come to from
\* above or by a jump, and at every place where the line begins
\* (BytecodeTransformer.java:174-191).
LineIsSeen ==
    Original => fired = IF applied THEN LineProbes(asked, class[sig].code[at[1]].mark) ELSE <<>>

\* A class that was taken as instrumented has all that was asked for: a probe in
\* every method that has code and every line probe in some method.  No line that
\* begins in several places makes up for one that is missing
\* (BytecodeTransformer.java:59-66, 187-189).
AllIsWoven ==
    applied =>
        /\ \A s \in asked.methods :
              s \in DOMAIN class /\ (class[s].code # <<>> => loaded[s].first = 0)
        /\ \A l \in DOMAIN asked.lines : \A i \in 1..Len(asked.lines[l]) :
              \E s \in DOMAIN class : \E b \in DOMAIN loaded[s].blocks :
                  \E o \in 1..Len(loaded[s].blocks[b]) - 1 :
                      loaded[s].blocks[b][o] = asked.lines[l][i]

\* With its probes a method does what it did without: the same instructions, the
\* same jumps, its own handlers, and it ends the same way, with the same exception
\* (BytecodeTransformer.java:208-257).
RunsAsBefore == Source!Spec
=============================================================================
