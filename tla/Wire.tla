-------------------------------- MODULE Wire --------------------------------
(***************************************************************************)
(* The bytes on the way: the client library sends a request and waits for  *)
(* the answer (prof_client.py), the listener puts requests together from   *)
(* what it reads (user-if.c), parses and queues them, and the event loop   *)
(* takes them one after the other and writes the answers.  Sockets hold a  *)
(* few bytes, a write may be short and a read gets what is there.          *)
(*                                                                         *)
(* Clients wait for their answers (resp_timeout is 0.0) and have one       *)
(* connection each; Requests has the ones that do not wait and those that  *)
(* go away, with whole messages.                                           *)
(***************************************************************************)
EXTENDS Codec, EvQueue

CONSTANTS Clients,
          MaxBody,  \* UIF_MAX_BODY_SIZE
          Envs,     \* what may happen, by name
          None      \* no request, no answer, no client

ASSUME WireAssumption == MaxBody \in Nat
ASSUME EnvsAssumption ==
    \A e \in DOMAIN Envs :
        /\ \A r \in Envs[e].requests :
              IsRequest(r) /\ \A a \in Envs[e].results[r.kind] : IsAnswer(r.kind, a)
        /\ Envs[e].cap \in Nat
ASSUME NoneAssumption ==
    /\ None \notin Clients
    /\ \A e \in DOMAIN Envs : \A r \in Envs[e].requests :
          /\ None # r /\ None \notin [request : {r}, bytes : Seq(Byte)]
          /\ None \notin [request : {r}, answer : Envs[e].results[r.kind]]

VARIABLES
    env,       \* the name of what may happen in this behaviour
    \* the clients
    calls,     \* the calls made so far
    asked,     \* the request of the call that a client is in
    tries,     \* how often it has sent it
    out,       \* the bytes it has still to send
    inn,       \* the bytes of the answer that it has
    returned,  \* the request of its last call and the bytes that it got
    \* the connections
    toServer,  \* bytes sent and not read
    toClient,
    lost,      \* the clients whose connection the server has closed
    denied,    \* the clients whose call gets no answer, for want of memory
    \* uif_client_ctx
    buf,       \* the bytes in the buffer, bytes_read of them
    expected,  \* buf_expected
    alloc,     \* buf_alloc
    \* the event loop
    loads,     \* class-loaded messages queued so far
    answer,    \* what was answered to the call a client is in
    cur        \* [conn, out], the client that is answered and the bytes to write

library == <<calls, asked, tries, out, inn, returned>>
sockets == <<toServer, toClient, lost>>
context == <<buf, expected, alloc>>
loop    == <<loads, answer, cur>>
vars    == <<env, library, sockets, denied, context, queueVars, loop>>

\* The requests and the answers there may be, how many calls and class-loaded
\* messages, the clients that are stuck, whether memory may run out, and the
\* bytes that a socket holds in one direction.
E == Envs[env]  \* [requests, results, calls, loads, stuck, faults, cap]

ClassLoaded == [conn |-> None, request |-> None]

Init ==
    /\ env \in DOMAIN Envs
    /\ calls = 0
    /\ asked = [k \in Clients |-> None] /\ tries = [k \in Clients |-> 0]
    /\ out = [k \in Clients |-> <<>>] /\ inn = [k \in Clients |-> <<>>]
    /\ returned = [k \in Clients |-> None]
    /\ toServer = [k \in Clients |-> <<>>] /\ toClient = [k \in Clients |-> <<>>]
    /\ lost = {} /\ denied = {}
    /\ buf = [k \in Clients |-> <<>>]
    /\ expected = [k \in Clients |-> HeaderSize]
    /\ alloc = [k \in Clients |-> HeaderSize]
    /\ InitQueue(ClassLoaded)
    /\ loads = 0
    /\ answer = [k \in Clients |-> None]
    /\ cur = [conn |-> None, out |-> <<>>]

\* The first n bytes, and the others.
First(s, n) == SubSeq(s, 1, n)
Others(s, n) == SubSeq(s, n + 1, Len(s))

\* The numbers of bytes that a read or a write may take.
Some(n, m) == 1..Min({n, m})

-----------------------------------------------------------------------------
(* The client library.                                                     *)

Begin(k) ==
    /\ asked[k] = None /\ calls < E.calls
    /\ \E r \in E.requests :
        /\ asked' = [asked EXCEPT ![k] = r]
        /\ out' = [out EXCEPT ![k] = PackRequest(r)]
    /\ calls' = calls + 1
    /\ tries' = [tries EXCEPT ![k] = 1]
    /\ inn' = [inn EXCEPT ![k] = <<>>]
    /\ answer' = [answer EXCEPT ![k] = None]
    /\ denied' = denied \ {k}
    /\ UNCHANGED <<env, returned, sockets, context, queueVars, loads, cur>>

\* sendall, as much as the socket takes.
Send(k) ==
    /\ k \notin lost
    /\ \E n \in Some(Len(out[k]), E.cap - Len(toServer[k])) :
        /\ toServer' = [toServer EXCEPT ![k] = @ \o First(out[k], n)]
        /\ out' = [out EXCEPT ![k] = Others(@, n)]
    /\ UNCHANGED <<env, calls, asked, tries, inn, returned, toClient, lost, denied, context,
                   queueVars, loop>>

\* What recv is asked for: the rest of the header, then the rest of the body.
Wanted(k) ==
    IF Len(inn[k]) < HeaderSize THEN HeaderSize - Len(inn[k])
                                ELSE HeaderSize + SizeOf(inn[k]) - Len(inn[k])

\* _recv_msg, one recv; with the last byte the call has its answer.
Receive(k) ==
    /\ asked[k] # None /\ out[k] = <<>> /\ k \notin E.stuck
    /\ \E n \in Some(Len(toClient[k]), Wanted(k)) :
        LET got == inn[k] \o First(toClient[k], n)
        IN  /\ toClient' = [toClient EXCEPT ![k] = Others(@, n)]
            /\ IF Len(got) >= HeaderSize /\ Len(got) = HeaderSize + SizeOf(got)
               THEN /\ returned' = [returned EXCEPT ![k] = [request |-> asked[k], bytes |-> got]]
                    /\ asked' = [asked EXCEPT ![k] = None]
                    /\ inn' = [inn EXCEPT ![k] = <<>>]
               ELSE /\ inn' = [inn EXCEPT ![k] = got]
                    /\ UNCHANGED <<asked, returned>>
    /\ UNCHANGED <<env, calls, tries, out, toServer, lost, denied, context, queueVars, loop>>

\* The OSError of a connection that was closed: the request is sent again on a
\* new one, and the second time the error is raised.
Broken(k) ==
    /\ asked[k] # None /\ k \in lost
    /\ \/ /\ tries[k] = 1
          /\ lost' = lost \ {k}
          /\ out' = [out EXCEPT ![k] = PackRequest(asked[k])]
          /\ tries' = [tries EXCEPT ![k] = 2]
          /\ UNCHANGED asked
       \/ /\ tries[k] = 2
          /\ asked' = [asked EXCEPT ![k] = None]
          /\ out' = [out EXCEPT ![k] = <<>>]
          /\ UNCHANGED <<lost, tries>>
    /\ inn' = [inn EXCEPT ![k] = <<>>]
    /\ UNCHANGED <<env, calls, returned, toServer, toClient, denied, context, queueVars, loop>>

-----------------------------------------------------------------------------
(* The listener thread.                                                    *)

\* close_client; the next connection of the client has a new uif_client_ctx.
CloseClient(k) ==
    /\ lost' = lost \cup {k}
    /\ toServer' = [toServer EXCEPT ![k] = <<>>]
    /\ toClient' = [toClient EXCEPT ![k] = <<>>]
    /\ buf' = [buf EXCEPT ![k] = <<>>]
    /\ expected' = [expected EXCEPT ![k] = HeaderSize]
    /\ alloc' = [alloc EXCEPT ![k] = HeaderSize]
    /\ UNCHANGED <<denied, queueVars>>

\* ps_uif_handler: a request that it cannot parse is dropped without a word, and
\* so is one that the handler, ps_send_usr_rq_* or evq_push has no memory for.
Handle(k, got) ==
    LET r == ParseRequest(TypeOf(got), BodyOf(got))
    IN  \/ /\ r # Refused
           /\ Push([conn |-> k, request |-> r])
           /\ UNCHANGED denied
        \/ /\ r = Refused \/ E.faults
           /\ denied' = denied \cup {k}
           /\ UNCHANGED queueVars

\* Mutant: the size of the header is forgotten.
GrownBody(k, want) == IF want - HeaderSize > alloc[k] THEN want ELSE alloc[k]

\* buf_alloc when want bytes must fit.
Grown(k, want) == IF want > alloc[k] THEN want ELSE alloc[k]

\* The bytes got, of want: the message is handled when it is whole.
TakeIn(k, got, want) ==
    /\ alloc' = [alloc EXCEPT ![k] = Grown(k, want)]
    /\ IF Len(got) = want
       THEN /\ Handle(k, got)
            /\ buf' = [buf EXCEPT ![k] = <<>>]
            /\ expected' = [expected EXCEPT ![k] = HeaderSize]
       ELSE /\ buf' = [buf EXCEPT ![k] = got]
            /\ expected' = [expected EXCEPT ![k] = want]
            /\ UNCHANGED <<denied, queueVars>>
    /\ UNCHANGED lost

\* handle_client_data
Read(k) ==
    /\ \E n \in Some(Len(toServer[k]), expected[k] - Len(buf[k])) :
        LET got == buf[k] \o First(toServer[k], n)
            want == IF Len(got) = HeaderSize THEN HeaderSize + SizeOf(got) ELSE expected[k]
            tooLong == want > HeaderSize + MaxBody
        IN  \/ tooLong /\ CloseClient(k)
            \/ want > alloc[k] /\ E.faults /\ CloseClient(k)
            \/ /\ ~tooLong
               /\ TakeIn(k, got, want)
               /\ toServer' = [toServer EXCEPT ![k] = Others(@, n)]
               /\ UNCHANGED toClient
    /\ UNCHANGED <<env, library, loop>>

-----------------------------------------------------------------------------
(* The event loop and the other threads that send it messages.             *)

\* ps_send_class_loaded, from a thread that loads a class, if there is memory.
LoadClass ==
    /\ loads < E.loads
    /\ loads' = loads + 1
    /\ Push(ClassLoaded) \/ (E.faults /\ UNCHANGED queueVars)
    /\ UNCHANGED <<env, library, sockets, denied, context, answer, cur>>

\* pthread_cond_wait may return without a signal.
WakeSpuriously ==
    /\ waiting /\ waiting' = FALSE
    /\ UNCHANGED <<env, library, sockets, denied, context, head, tail, free, next, item, made,
                   loop>>

Wait ==
    /\ cur.conn = None
    /\ Sleep
    /\ UNCHANGED <<env, library, sockets, denied, context, loop>>

\* The handler fails, or uif_respond_* has no memory: there is nothing to write.
NoAnswer(k) ==
    /\ E.faults
    /\ denied' = denied \cup {k}
    /\ UNCHANGED cur

\* dispatch: a request is carried out and its answer is packed.
Dispatch ==
    /\ cur.conn = None
    /\ Pop
    /\ LET m == item[head] IN
        \/ m.conn = None /\ UNCHANGED <<denied, answer, cur>>
        \/ m.conn # None /\ NoAnswer(m.conn) /\ UNCHANGED answer
        \/ /\ m.conn # None
           /\ \E a \in E.results[m.request.kind] :
                /\ answer' = [answer EXCEPT ![m.conn] = [request |-> m.request, answer |-> a]]
                /\ \/ /\ cur' = [conn |-> m.conn, out |-> PackAnswer(m.request.kind, a)]
                      /\ UNCHANGED denied
                   \/ NoAnswer(m.conn)
    /\ UNCHANGED <<env, library, sockets, context, loads>>

\* Mutant: a short write counts as a whole one.
WrittenShort(n) == [conn |-> None, out |-> <<>>]

\* What is left to write after n bytes.
Written(n) ==
    IF n = Len(cur.out) THEN [conn |-> None, out |-> <<>>]
                        ELSE [cur EXCEPT !.out = Others(@, n)]

\* write_exact, one write: the event loop does nothing else until it is through.
Write ==
    /\ cur.conn # None
    /\ \E n \in Some(Len(cur.out), E.cap - Len(toClient[cur.conn])) :
        /\ toClient' = [toClient EXCEPT ![cur.conn] = @ \o First(cur.out, n)]
        /\ cur' = Written(n)
    /\ UNCHANGED <<env, library, toServer, lost, denied, context, queueVars, loads, answer>>

-----------------------------------------------------------------------------
Library == \E k \in Clients : Begin(k) \/ Send(k) \/ Receive(k) \/ Broken(k)

Listener == \E k \in Clients : Read(k)

EventLoop == Wait \/ Dispatch \/ Write

Next == Library \/ Listener \/ EventLoop \/ LoadClass \/ WakeSpuriously

Spec == Init /\ [][Next]_vars

\* The threads of the server run, epoll_wait reports every connection that has
\* something to read, and a client that is not stuck goes on with its call.
FairSpec ==
    /\ Spec
    /\ WF_vars(EventLoop)
    /\ \A k \in Clients :
        /\ WF_vars(Read(k))
        /\ WF_vars(k \notin E.stuck /\ (Send(k) \/ Receive(k) \/ Broken(k)))

-----------------------------------------------------------------------------
(* Properties.                                                             *)

\* What the documentation of a call promises for an answer: an error has no id.
Meaning(r, a) == IF a.status = "error" THEN [a EXCEPT !.number = 0] ELSE a

AllRequests == UNION {Envs[e].requests : e \in DOMAIN Envs}

AllResults ==
    [r \in AllRequests |->
        UNION {Envs[e].results[r.kind] : e \in {d \in DOMAIN Envs : r \in Envs[d].requests}}]

\* What the last call of a client returned.
Made ==
    [k \in Clients |->
        IF returned[k] = None THEN None
        ELSE LET got == returned[k].bytes
             IN  ReadAnswer(returned[k].request.kind, TypeOf(got), BodyOf(got))]

Remote ==
    INSTANCE RemoteCall WITH Requests <- AllRequests, Results <- AllResults,
                             Returned <- Meaning, returned <- Made

\* However the bytes of requests and answers are cut up and mixed with those of
\* other clients, a call is carried out once, as it was asked, and returns the
\* answer that was made for it.
IsRemoteCall == Remote!Spec

\* What was read and what will be read for a message fits into the buffer of its
\* client (user-if.c:213-217).
BuffersFit ==
    \A k \in Clients : Len(buf[k]) < expected[k] /\ expected[k] <= alloc[k]

\* A request that lacks its end is refused, wherever it is cut off: the handlers
\* read no byte that is not there (ps-uif-handler.c:31-243).
CutOffIsRefused ==
    \A k \in Clients :
        LET whole == PackRequest(asked[k]) IN
        asked[k] # None /\ Len(out[k]) > HeaderSize =>
            \A n \in HeaderSize..(Len(whole) - 1) :
                ParseRequest(TypeOf(whole), BodyOf(First(whole, n))) = Refused

\* The answers of an environment fit into the socket of a client.
Fits == [e \in DOMAIN Envs |->
            \A kind \in DOMAIN Envs[e].results : \A a \in Envs[e].results[kind] :
                Len(PackAnswer(kind, a)) <= Envs[e].cap]

\* Every call of a client that reads ends, with its answer or, when its connection
\* was closed twice, with an error, unless its request or its answer was dropped
\* for want of memory, which nobody is told.  A client that stops in the middle of
\* its request, or that does not read its answer, holds up no other one, as long
\* as the answer fits into its socket.
CallsReturn ==
    \A k \in Clients :
        asked[k] # None ~> \/ asked[k] = None
                           \/ k \in denied /\ E.faults
                           \/ k \in E.stuck
                           \/ E.stuck # {} /\ ~Fits[env]
=============================================================================
