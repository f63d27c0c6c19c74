------------------------------ MODULE MCWeave -------------------------------
(***************************************************************************)
(* Instances of Weave for TLC: a method of three instructions with every   *)
(* choice of them, tables of no, one and two handlers, and a second method *)
(* that is abstract or shares a line with the first.                       *)
(***************************************************************************)
EXTENDS Weave, TLC

CONSTANTS a, b,        \* exceptions
          l1, l2, l3,  \* lines; no method has l3
          m, o, x      \* signatures; no class has x

I(mark, op, to) == [mark |-> mark, op |-> op, to |-> to]

H(from, to, target, kinds) == [from |-> from, to |-> to, at |-> target, kinds |-> kinds]

Choices == {<<"work", 1>>, <<"return", 1>>, <<"throw", 1>>} \cup {<<"branch", i>> : i \in 1..3}

MarkSeqs == {<<l1, None, l2>>, <<l1, l2, l1>>, <<None, l1, None>>}

Codes ==
    {[i \in 1..3 |-> I(marks[i], ops[i][1], ops[i][2])] :
        marks \in MarkSeqs,
        ops \in {f \in [1..3 -> Choices] : f[3][1] \in {"return", "throw"}}}

\* No handler, one at any place for any range, or one inside another.
Tables ==
    {<<>>, <<H(1, 2, 2, {a}), H(1, 4, 3, {a, b})>>}
      \cup {<<H(from, to, target, {a})>> : from \in {1, 2}, to \in {3, 4}, target \in 1..3}
      \cup {<<H(1, 3, target, {a, b})>> : target \in 1..3}

Others == {[code |-> <<>>, table |-> <<>>], [code |-> <<I(l1, "return", 1)>>, table |-> <<>>]}

SomeClasses ==
    {(m :> [code |-> code, table |-> table]) @@ (o :> other) :
        code \in Codes, table \in Tables, other \in Others}

In(id)  == [op |-> "enterLine", id |-> id]
Out(id) == [op |-> "exitLine", id |-> id]

NoLines == [l \in {} |-> <<>>]

Probes(methods, lines) == [methods |-> methods, lines |-> lines]

SomeRequests ==
    {Probes({}, NoLines), Probes({m}, NoLines), Probes({m, x}, NoLines),
     Probes({m, o}, l1 :> <<In(1), In(2), Out(2)>>),
     Probes({m}, (l1 :> <<Out(1), In(2)>>) @@ (l2 :> <<Out(2)>>)),
     Probes({}, (l1 :> <<In(1)>>) @@ (l3 :> <<Out(1)>>))}
=============================================================================
