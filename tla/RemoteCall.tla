----------------------------- MODULE RemoteCall -----------------------------
(***************************************************************************)
(* What a client of the profiler relies on: a call is a request, which the *)
(* server carries out at most once and as it was asked, and the call       *)
(* returns what the server answered to it, or raises without having been   *)
(* carried out.                                                            *)
(***************************************************************************)
CONSTANTS Clients, Requests,
          None,           \* no request, no answer
          Results,        \* the answers that there are to each request
          Returned(_, _)  \* what a call returns, given its request and its answer

VARIABLES asked,    \* the request of the call that a client is in
          answer,   \* the answer to it
          returned  \* what the last call of a client returned

Init ==
    /\ asked = [k \in Clients |-> None]
    /\ answer = [k \in Clients |-> None]
    /\ returned = [k \in Clients |-> None]

Call(k) ==
    /\ asked[k] = None
    /\ asked'[k] \in Requests
    /\ asked' = [asked EXCEPT ![k] = asked'[k]]
    /\ answer' = [answer EXCEPT ![k] = None]
    /\ UNCHANGED returned

CarryOut(k) ==
    /\ asked[k] # None /\ answer[k] = None
    /\ answer'[k] \in [request : {asked[k]}, answer : Results[asked[k]]]
    /\ answer' = [answer EXCEPT ![k] = answer'[k]]
    /\ UNCHANGED <<asked, returned>>

Return(k) ==
    /\ asked[k] # None /\ answer[k] # None
    /\ returned' = [returned EXCEPT ![k] = Returned(asked[k], answer[k].answer)]
    /\ asked' = [asked EXCEPT ![k] = None]
    /\ UNCHANGED answer

Raise(k) ==
    /\ asked[k] # None /\ answer[k] = None
    /\ asked' = [asked EXCEPT ![k] = None]
    /\ UNCHANGED <<answer, returned>>

Next == \E k \in Clients : Call(k) \/ CarryOut(k) \/ Return(k) \/ Raise(k)

Spec == Init /\ [][Next]_<<asked, answer, returned>>
=============================================================================
