----------------------------- MODULE MethodRun ------------------------------
(***************************************************************************)
(* One activation of a method, as its author wrote it: what the JVM does   *)
(* with the code and the exception table of a class file.  Whether an      *)
(* instruction completes, jumps or throws is the application's choice.     *)
(***************************************************************************)
EXTENDS Integers, Sequences

CONSTANTS Kinds,  \* the exceptions there are
          None

VARIABLES method,  \* [code, table] of the method that runs, or None
          at,      \* the instruction it is at, 0 once it has ended
          outcome  \* None, "returned", or the exception it ended with

\* The entries of an exception table that take exception k at instruction i, and
\* the first of them, if there is one, which is the one that the JVM takes.
Takers(table, i, k) ==
    {h \in DOMAIN table : table[h].from <= i /\ i < table[h].to /\ k \in table[h].kinds}

FirstTaker(table, i, k) ==
    {h \in Takers(table, i, k) : \A g \in Takers(table, i, k) : h <= g}

Init == method = None /\ at = 0 /\ outcome = None

Call ==
    /\ method = None
    /\ method' # None /\ at' = 1
    /\ UNCHANGED outcome

Op == method.code[at].op

Complete ==
    /\ Op \in {"work", "branch"}
    /\ at' = at + 1
    /\ UNCHANGED <<method, outcome>>

Jump ==
    /\ Op = "branch"
    /\ at' = method.code[at].to
    /\ UNCHANGED <<method, outcome>>

Return ==
    /\ Op = "return"
    /\ at' = 0 /\ outcome' = "returned"
    /\ UNCHANGED method

Throw(k) ==
    /\ Op \in {"work", "throw"}
    /\ \/ /\ \E h \in FirstTaker(method.table, at, k) : at' = method.table[h].at
          /\ UNCHANGED outcome
       \/ /\ Takers(method.table, at, k) = {}
          /\ at' = 0 /\ outcome' = k
    /\ UNCHANGED method

Next ==
    \/ Call
    \/ at # 0 /\ (Complete \/ Jump \/ Return \/ \E k \in Kinds : Throw(k))

Spec == Init /\ [][Next]_<<method, at, outcome>>
=============================================================================
