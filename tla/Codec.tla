------------------------------- MODULE Codec -------------------------------
(***************************************************************************)
(* The bytes of requests and answers: what the client library packs        *)
(* (prof_client.py) and the handlers take apart (ps-uif-handler.c), and    *)
(* what the server packs (uif-response.c, ProfilerRegistry.getStats) and   *)
(* the client library takes apart.  The two programs are written in        *)
(* different languages and have their layouts twice, and so has this       *)
(* module: Client... and Server...                                         *)
(*                                                                         *)
(* A byte of a number is a triple <<v, i, w>>, the i-th of the w that      *)
(* stand for v; a character of a string is a triple of its own.  Widths    *)
(* are in proportion only, so that an instance has few bytes to send.      *)
(***************************************************************************)
EXTENDS Integers, Sequences, SequencesExt

CONSTANT MaxShort  \* PSTR_MAX, the length of the longest string (bound)

ASSUME ShortAssumption == MaxShort \in Nat

Byte == Nat \X Nat \X Nat

Char(c) == <<c, 0, 0>>

-----------------------------------------------------------------------------
(* Fields and records of fields.                                           *)

Width == [u8 |-> 1, u16 |-> 1, u32 |-> 2, u64 |-> 3]

Number(f, v) == [i \in 1..Width[f] |-> <<v, i, Width[f]>>]

\* A string goes behind its length, which is a short.
Field(f, v) ==
    IF f = "str" THEN Number("u16", Len(v) % (MaxShort + 1)) \o v ELSE Number(f, v)

Pack(format, values) ==
    FlattenSeq([i \in DOMAIN format |-> Field(format[i], values[i])])

\* The number that starts behind the first at bytes; bytes that are not those
\* of one number make another one.
NumberAt(bytes, at, f) ==
    LET b == bytes[at + 1] IN IF b[2] = 1 /\ b[3] = Width[f] THEN b[1] ELSE 0

(* What is found at a place: whether it is all there, its values, and the  *)
(* place behind it.                                                        *)

Short == [ok |-> FALSE, value |-> <<>>, next |-> 0]
Found(values, next) == [ok |-> TRUE, value |-> values, next |-> next]
Before(values, r) == [r EXCEPT !.value = values \o @]

\* How many bytes a field takes at a place, as far as they can be told.
Extent(bytes, at, f) ==
    IF f # "str" THEN Width[f]
    ELSE Width.u16 + (IF at + Width.u16 > Len(bytes) THEN 0 ELSE NumberAt(bytes, at, "u16"))

ValueAt(bytes, at, f) ==
    IF f # "str" THEN NumberAt(bytes, at, f)
    ELSE SubSeq(bytes, at + Width.u16 + 1, Min({Len(bytes), at + Extent(bytes, at, f)}))

\* Mutant: that the characters of a string are there is not checked.
IsThereUnchecked(bytes, at, f) ==
    at + (IF f = "str" THEN Width.u16 ELSE Width[f]) <= Len(bytes)

\* A field that does not lie within the bytes is an error on both sides.
IsThere(bytes, at, f) == at + Extent(bytes, at, f) <= Len(bytes)

\* What is found of n parts that stand one behind the other from a place on, when
\* found[i][a] is what is found of the i-th at place a.
Chain(n, found, at) ==
    LET from[i \in 1..n + 1] ==
            [a \in Nat |->
                LET r == found[i][a] IN
                IF i > n THEN Found(<<>>, a)
                ELSE IF r.ok THEN Before(r.value, from[i + 1][r.next]) ELSE Short]
    IN  from[1][at]

FieldAt(bytes, at, f) ==
    IF IsThere(bytes, at, f) THEN Found(<<ValueAt(bytes, at, f)>>, at + Extent(bytes, at, f))
                             ELSE Short

Unpack(bytes, at, format) ==
    Chain(Len(format), [i \in DOMAIN format |-> [a \in Nat |-> FieldAt(bytes, a, format[i])]], at)

-----------------------------------------------------------------------------
(* Messages.                                                               *)

\* enum user_msg_type: the types of the requests; an answer has the next one.
Types ==
    [loaded_classes |-> 0, class_methods |-> 2, instrument_method |-> 4, get_stats |-> 6,
     deinstrument_method |-> 8, resume |-> 11, pause_threads |-> 13,
     list_instrumented |-> 15, get_async_errors |-> 17, deinstrument_by_id |-> 19,
     instrument_line |-> 21, get_status |-> 23]

Header == <<"u32", "u32">>
HeaderSize == 2 * Width.u32

Message(type, body) == Pack(Header, <<type, Len(body)>>) \o body
TypeOf(bytes) == NumberAt(bytes, 0, "u32")
SizeOf(bytes) == NumberAt(bytes, Width.u32, "u32")
BodyOf(bytes) == SubSeq(bytes, HeaderSize + 1, Len(bytes))

-----------------------------------------------------------------------------
(* Requests: [kind, args].                                                 *)

ClientRequest ==
    [class_methods |-> <<"str">>,
     instrument_method |-> <<"str", "str">>,
     deinstrument_method |-> <<"str", "str">>,
     instrument_line |-> <<"u32", "u32", "str", "str">>,
     deinstrument_by_id |-> <<"u64">>]

PackRequest(r) ==
    Message(Types[r.kind],
            IF r.kind \in DOMAIN ClientRequest THEN Pack(ClientRequest[r.kind], r.args)
                                               ELSE <<>>)

\* What a field can hold: struct.pack raises an error when the length of a
\* string does not fit into its field.
Holds(f, v) == IF f = "str" THEN v \in Seq(Byte) /\ Len(v) <= MaxShort ELSE v \in Nat

\* The values of a record with this format.
Fills(format, values) ==
    /\ values = [i \in DOMAIN format |-> values[i]]
    /\ \A i \in DOMAIN format : Holds(format[i], values[i])

\* The requests that the methods of ProfClient make.
IsRequest(r) ==
    /\ r = [kind |-> r.kind, args |-> r.args] /\ r.kind \in DOMAIN Types
    /\ Fills(IF r.kind \in DOMAIN ClientRequest THEN ClientRequest[r.kind] ELSE <<>>, r.args)

ServerRequest ==
    [class_methods |-> <<"str">>,
     deinstrument_method |-> <<"str", "str">>,
     instrument_method |-> <<"str", "str">>,
     instrument_line |-> <<"u32", "u32", "str", "str">>,
     deinstrument_by_id |-> <<"u64">>]

Refused == [kind |-> "none", args |-> <<>>]

\* ps_uif_handler, as far as the arguments of ps_send_usr_rq_*.
ParseRequest(type, body) ==
    IF \A k \in DOMAIN Types : Types[k] # type THEN Refused
    ELSE LET kind == CHOOSE k \in DOMAIN Types : Types[k] = type
             args == IF kind \in DOMAIN ServerRequest
                     THEN Unpack(body, 0, ServerRequest[kind]) ELSE Found(<<>>, 0)
         IN  IF args.ok THEN [kind |-> kind, args |-> args.value] ELSE Refused

-----------------------------------------------------------------------------
(* Answers: [status, number, items].  The number is the id of an           *)
(* instrument, the length of a tick, or twice the shutting_down of a       *)
(* status plus its paused; an item is the sequence of its fields.          *)

Lists == {"loaded_classes", "class_methods", "list_instrumented", "get_async_errors",
          "get_stats"}

\* The enum ..._resp_status of each kind, from 0.
ServerStatus ==
    LET removed == <<"ok", "error">> IN
    [class_methods |-> <<"ok", "not_loaded">>,
     instrument_method |-> <<"ok", "double", "error", "deferred">>,
     instrument_line |-> <<"ok", "error", "deferred">>,
     deinstrument_method |-> removed, deinstrument_by_id |-> removed,
     resume |-> <<"ok", "nochange", "error">>,
     pause_threads |-> <<"ok", "already_paused", "error", "race_failure">>]

\* Mutant: the enumeration begins with 1.
CodeFromOne(kind, s) == CHOOSE i \in 1..4 : /\ i \in DOMAIN ServerStatus[kind]
                                           /\ ServerStatus[kind][i] = s

Code(kind, s) == CHOOSE i \in 0..3 : i + 1 \in DOMAIN ServerStatus[kind]
                                       /\ ServerStatus[kind][i + 1] = s

\* What comes before the items.
ServerHead(kind, a) ==
    CASE kind \in {"loaded_classes", "list_instrumented", "get_async_errors"} ->
            Pack(<<"u32">>, <<Len(a.items)>>)
      [] kind = "get_stats" -> Pack(<<"u32", "u32">>, <<Len(a.items), a.number>>)
      [] kind = "class_methods" ->
            Pack(<<"u32", "u32">>, <<Code(kind, a.status), Len(a.items)>>)
      [] kind = "instrument_method" ->
            Pack(<<"u32", "u64">>,
                 <<Code(kind, a.status), IF a.status = "error" THEN 0 ELSE a.number>>)
      [] kind = "instrument_line" ->
            Pack(<<"u32", "u64">>, <<Code(kind, a.status), a.number>>)
      [] kind = "get_status" ->
            Pack(<<"u32", "u32">>, <<a.number \div 2, a.number % 2>>)
      [] OTHER -> Pack(<<"u32">>, <<Code(kind, a.status)>>)

\* Entries of the two types, and the snapshots of a profiler.
ServerItem(kind, x) ==
    CASE kind \in {"loaded_classes", "class_methods"} -> <<"str">>
      [] kind = "list_instrumented" ->
            <<"u8", "u32", "u64">> \o (IF x[1] = 0 THEN <<"str", "str">>
                                                   ELSE <<"u32", "u32", "str", "str">>)
      [] kind = "get_async_errors" -> <<"u64", "str">>
      [] kind = "get_stats" -> <<"u64", "str", "u32">> \o [i \in 1..3 * x[3] |-> "u64"]

Outcome(s, n, items) == [status |-> s, number |-> n, items |-> items]

\* The answers that the handlers of the event loop give.
IsAnswer(kind, a) ==
    /\ a = Outcome(a.status, a.number, [i \in 1..Len(a.items) |-> a.items[i]])
    /\ a.number \in Nat /\ Len(a.items) \in Nat
    /\ kind \notin {"get_stats", "get_status", "instrument_method", "instrument_line"} =>
          a.number = 0
    /\ IF kind \in DOMAIN ServerStatus
       THEN \E i \in DOMAIN ServerStatus[kind] : a.status = ServerStatus[kind][i]
       ELSE a.status = "ok"
    /\ kind \notin Lists \/ a.status # "ok" => a.items = <<>>
    /\ \A i \in DOMAIN a.items :
          /\ kind = "get_stats" => a.items[i][3] \in Nat
          /\ Fills(ServerItem(kind, a.items[i]), a.items[i])

PackAnswer(kind, a) ==
    Message(Types[kind] + 1,
            ServerHead(kind, a)
              \o FlattenSeq([i \in DOMAIN a.items |->
                               Pack(ServerItem(kind, a.items[i]), a.items[i])]))

ClientHead(kind) ==
    CASE kind \in {"loaded_classes", "list_instrumented", "get_async_errors"} -> <<"u32">>
      [] kind \in {"get_stats", "class_methods", "get_status"} -> <<"u32", "u32">>
      [] kind \in {"instrument_method", "instrument_line"} -> <<"u32", "u64">>
      [] OTHER -> <<"u32">>

\* The fields of an item that tell how it goes on, and how it does.
ClientItem(kind) ==
    [loaded_classes |-> <<"str">>, class_methods |-> <<"str">>,
     list_instrumented |-> <<"u8", "u32", "u64">>,
     get_async_errors |-> <<"u64", "str">>, get_stats |-> <<"u64", "str", "u32">>][kind]

ClientRest(kind, x) ==
    CASE kind = "list_instrumented" ->
            IF x[1] = 0 THEN <<"str", "str">> ELSE <<"u32", "u32", "str", "str">>
      [] kind = "get_stats" -> [i \in 1..3 * x[3] |-> "u64"]
      [] OTHER -> <<>>

ItemAt(bytes, at, kind) ==
    LET first == Unpack(bytes, at, ClientItem(kind))
        rest == Unpack(bytes, first.next, ClientRest(kind, first.value))
    IN  IF first.ok /\ rest.ok THEN Found(<<first.value \o rest.value>>, rest.next) ELSE Short

ItemsAt(bytes, at, kind, n) ==
    Chain(n, [i \in 1..n |-> [a \in Nat |-> ItemAt(bytes, a, kind)]], at)

\* What a method of ProfClient makes of the code of a status.
ClientStatus(kind, code) ==
    CASE kind = "class_methods" ->
            IF code = 0 THEN "ok" ELSE IF code = 1 THEN "not_loaded" ELSE "error"
      [] kind = "instrument_method" ->
            IF code = 1 THEN "double"
            ELSE IF code = 3 THEN "deferred" ELSE IF code = 0 THEN "ok" ELSE "error"
      [] kind = "instrument_line" ->
            IF code = 2 THEN "deferred" ELSE IF code = 0 THEN "ok" ELSE "error"
      [] kind \in {"deinstrument_method", "deinstrument_by_id"} ->
            IF code = 0 THEN "ok" ELSE "error"
      [] kind = "resume" ->
            IF code = 2 THEN "error" ELSE IF code = 0 THEN "ok" ELSE "nochange"
      [] kind = "pause_threads" ->
            IF code = 2 THEN "error"
            ELSE IF code = 3 THEN "race_failure"
            ELSE IF code = 0 THEN "ok" ELSE "already_paused"
      [] OTHER -> "ok"

Raised == Outcome("raised", 0, <<>>)

\* The answer that a method of ProfClient returns, or the error that it raises.
ReadAnswer(kind, type, body) ==
    LET head == Unpack(body, 0, ClientHead(kind))
        v == head.value
        n == IF kind = "class_methods" THEN v[2] ELSE v[1]
        items == ItemsAt(body, head.next, kind, n)
        s == ClientStatus(kind, v[1])
    IN  CASE type # Types[kind] + 1 \/ ~head.ok -> Raised
          [] type = Types[kind] + 1 /\ head.ok /\ kind \in Lists ->
                IF s # "ok" THEN Outcome(s, 0, <<>>)
                ELSE IF items.ok
                     THEN Outcome(s, IF kind = "get_stats" THEN v[2] ELSE 0, items.value)
                     ELSE Raised
          [] type = Types[kind] + 1 /\ head.ok /\ kind \notin Lists ->
                IF head.next # Len(body) THEN Raised
                ELSE Outcome(s, CASE kind = "get_status" -> 2 * v[1] + v[2]
                                  [] Len(v) = 2 /\ s # "error" /\ kind # "get_status" -> v[2]
                                  [] OTHER -> 0, <<>>)
=============================================================================
