------------------------------- MODULE MCWire -------------------------------
(***************************************************************************)
(* Instances of Wire for TLC: two clients, requests and answers of a few   *)
(* bytes, and one environment in which every kind of request is sent with  *)
(* every kind of answer to it.                                             *)
(***************************************************************************)
EXTENDS Wire

CONSTANT Stuck  \* the client that may stop

A == <<Char(1)>>
B == <<Char(2), Char(3)>>
C == <<Char(1), Char(3), Char(2)>>  \* as long as a string may be

Req(kind, args) == [kind |-> kind, args |-> args]
Ans(status, number, items) == [status |-> status, number |-> number, items |-> items]

EveryRequest ==
    {Req(k, <<>>) : k \in {"loaded_classes", "get_stats", "resume", "pause_threads",
                           "list_instrumented", "get_async_errors", "get_status"}}
      \cup {Req("class_methods", <<s>>) : s \in {<<>>, A, C}}
      \cup {Req(k, <<c, m>>) : k \in {"instrument_method", "deinstrument_method"},
                               c \in {A, C}, m \in {<<>>, B}}
      \cup {Req("instrument_line", <<7, 8, A, C>>), Req("instrument_line", <<8, 7, C, A>>),
            Req("deinstrument_by_id", <<9>>)}

Statuses(kind, number) ==
    {Ans(ServerStatus[kind][i], number, <<>>) : i \in DOMAIN ServerStatus[kind]}

Snaps(n) == [i \in 1..3 * n |-> 10 + i]

EveryResult ==
    [loaded_classes |-> {Ans("ok", 0, s) : s \in {<<>>, <<<<A>>>>, <<<<C>>, <<<<>>>>>>}},
     class_methods |-> {Ans("ok", 0, <<>>), Ans("not_loaded", 0, <<>>),
                        Ans("ok", 0, <<<<A>>, <<B>>>>)},
     instrument_method |-> Statuses("instrument_method", 5),
     instrument_line |-> Statuses("instrument_line", 5),
     deinstrument_method |-> Statuses("deinstrument_method", 0),
     deinstrument_by_id |-> Statuses("deinstrument_by_id", 0),
     resume |-> Statuses("resume", 0),
     pause_threads |-> Statuses("pause_threads", 0),
     get_status |-> {Ans("ok", n, <<>>) : n \in 0..3},
     list_instrumented |-> {Ans("ok", 0, <<>>),
                            Ans("ok", 0, <<<<1, 1, 5, 7, 8, A, B>>, <<0, 0, 6, C, A>>>>)},
     get_async_errors |-> {Ans("ok", 0, <<>>), Ans("ok", 0, <<<<20, C>>, <<21, A>>>>)},
     get_stats |-> {Ans("ok", 10, <<>>),
                    Ans("ok", 10, <<<<5, C, 1>> \o Snaps(1), <<6, A, 0>>>>)}]

SmallResult ==
    [resume |-> {Ans("ok", 0, <<>>)}, instrument_line |-> {},
     class_methods |-> {Ans("not_loaded", 0, <<>>)}, get_status |-> {Ans("ok", 1, <<>>)},
     deinstrument_by_id |-> {Ans("ok", 0, <<>>)}]

Env(requests, results, number, cap) ==
    [requests |-> requests, results |-> results, calls |-> number, loads |-> 0,
     stuck |-> {}, faults |-> FALSE, cap |-> cap]

SomeEnvs ==
    [mixed   |-> [Env({Req("deinstrument_by_id", <<9>>), Req("resume", <<>>)},
                      SmallResult, 2, 2) EXCEPT !.loads = 1],
     every   |-> Env(EveryRequest, EveryResult, 1, 3),
     memory  |-> [Env({Req("class_methods", <<A>>), Req("instrument_line", <<7, 8, C, C>>)},
                      SmallResult, 2, 2) EXCEPT !.faults = TRUE],
     scarce  |-> [Env({Req("resume", <<>>)}, SmallResult, 1, 2) EXCEPT !.faults = TRUE, !.loads = 1],
     stopped |-> [Env({Req("deinstrument_by_id", <<9>>), Req("resume", <<>>)},
                      SmallResult, 2, 6) EXCEPT !.stuck = {Stuck}],
     clogged |-> [Env({Req("get_status", <<>>)}, SmallResult, 2, 3) EXCEPT !.stuck = {Stuck}]]
=============================================================================
