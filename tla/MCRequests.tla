----------------------------- MODULE MCRequests -----------------------------
(***************************************************************************)
(* Instances of Requests for TLC: two clients, one of which may be in a    *)
(* hurry or go away, two calls, and two numbers of descriptors.            *)
(***************************************************************************)
EXTENDS Requests

Env(hurried, quitting, happening) ==
    [timeouts |-> hurried, quits |-> quitting,
     stops |-> "stops" \in happening, faults |-> "faults" \in happening]

One == {CHOOSE k \in Clients : TRUE}

\* What may happen together.
SomeEnvs ==
    {Env({}, {}, {"stops"}), Env(One, {}, {"stops"}), Env({}, Clients, {"stops"}),
     Env({}, One, {"faults"})}
=============================================================================
