------------------------------ MODULE Requests ------------------------------
(***************************************************************************)
(* The way of a request and its answer: the client library                 *)
(* (ProfClient._send_request), the sockets, the listener thread            *)
(* (user-if.c, ps-uif-handler.c), the messages to the server               *)
(* (prof-server-ev.c, ev-queue.c) and the event loop's answer              *)
(* (prof-server.c, uif-response.c).                                        *)
(*                                                                         *)
(* A call is a number; the answer to it is the same number.  A client      *)
(* structure (struct user_if_client) has the number of its connection.     *)
(* The event loop keeps the structure, and through it only the number of   *)
(* a file descriptor: the kernel may give that number away again.          *)
(***************************************************************************)
EXTENDS Integers, Sequences, FiniteSets

CONSTANTS Clients,
          MaxCalls,  \* calls of all the clients together (bound)
          Fds,       \* numbers of file descriptors
          Envs       \* the environments that are looked at

Calls == 1..MaxCalls
Conns == 1..(2 * MaxCalls)   \* a call connects twice at most

ASSUME CallsAssumption == MaxCalls \in Nat
ASSUME FdsAssumption   == Fds \subseteq Nat \ {0}
ASSUME EnvsAssumption ==
    Envs \subseteq [timeouts : SUBSET Clients,
                    quits : SUBSET Clients, stops : BOOLEAN, faults : BOOLEAN]

VARIABLES
    env,       \* what may happen in this behaviour, which never changes
    \* the clients
    call,      \* the call a client waits in, or 0
    tries,     \* how often it has sent it
    sock,      \* its connection, or 0
    calls,     \* the calls made so far
    returned,  \* what the last call of a client to return asked and was told
    \* the sockets
    conns,     \* the connections made so far
    backlog,   \* those that wait to be accepted
    toServer,  \* requests on the way
    toClient,  \* answers on the way
    owner,     \* file descriptor -> its connection, or 0
    \* the listener
    fd,        \* user_if_client.fd, or 0
    listed,    \* uif.clients
    closed,    \* the clients whose closed flag is set
    refs,      \* user_if_client.rc
    freed,     \* the clients that were freed
    \* the event loop
    queue,     \* ev_q
    cur,       \* the message it works on: [conn, call, step], or Nothing
    served,    \* how often a call was carried out
    state      \* "up", "stopping" (the loop has ended) or "down"

library  == <<call, tries, sock, calls, returned>>
sockets  == <<conns, backlog, toServer, toClient, owner>>
listener == <<fd, listed, closed, refs, freed>>
server   == <<queue, cur, served, state>>
vars     == <<env, library, sockets, listener, server>>

Timeouts == env.timeouts  \* the clients that wait for an answer for a limited time
Quits    == env.quits     \* the clients that may go away, in the middle of a call too
Stops    == env.stops     \* may the server be shut down?
Faults   == env.faults    \* may a request be malformed, an allocation or JNI call fail?

Nothing == [conn |-> 0, call |-> 0, step |-> "none"]
Message == [conn : Conns, call : Calls]

TypeOK ==
    /\ env \in Envs
    /\ call \in [Clients -> 0..MaxCalls] /\ tries \in [Clients -> 0..2]
    /\ sock \in [Clients -> Conns \cup {0}]
    /\ calls \in 0..MaxCalls
    /\ returned \in [Clients -> [asked : 0..MaxCalls, told : 0..MaxCalls]]
    /\ conns \in Conns \cup {0}
    /\ backlog \in Seq(Conns)
    /\ toServer \in [Conns -> Seq(Calls)] /\ toClient \in [Conns -> Seq(Calls)]
    /\ owner \in [Fds -> Conns \cup {0}]
    /\ fd \in [Conns -> Fds \cup {0}]
    /\ listed \subseteq Conns /\ closed \subseteq Conns /\ freed \subseteq Conns \ listed
    /\ refs \in [Conns -> Nat]
    /\ queue \in Seq(Message)
    /\ cur \in [conn : Conns, call : Calls, step : {"answer", "write", "release"}]
                  \cup {Nothing}
    /\ served \in [Calls -> Nat]
    /\ state \in {"up", "stopping", "down"}

Init ==
    /\ env \in Envs
    /\ call = [k \in Clients |-> 0] /\ tries = [k \in Clients |-> 0]
    /\ sock = [k \in Clients |-> 0] /\ calls = 0
    /\ returned = [k \in Clients |-> [asked |-> 0, told |-> 0]]
    /\ conns = 0 /\ backlog = <<>>
    /\ toServer = [c \in Conns |-> <<>>] /\ toClient = [c \in Conns |-> <<>>]
    /\ owner = [f \in Fds |-> 0]
    /\ fd = [c \in Conns |-> 0]
    /\ listed = {} /\ closed = {} /\ freed = {}
    /\ refs = [c \in Conns |-> 0]
    /\ queue = <<>> /\ cur = Nothing
    /\ served = [n \in Calls |-> 0]
    /\ state = "up"

-----------------------------------------------------------------------------
(* The client library.                                                     *)

\* The server has closed its end of a connection, or never had one.
Hung(c) == \A f \in Fds : owner[f] # c
HasHung(c) == c \notin {backlog[i] : i \in DOMAIN backlog} /\ Hung(c)

\* A new connection and the first request on it.
Dial(k, n) ==
    /\ state # "down"
    /\ conns' = conns + 1
    /\ backlog' = Append(backlog, conns + 1)
    /\ sock' = [sock EXCEPT ![k] = conns + 1]
    /\ toServer' = [toServer EXCEPT ![conns + 1] = <<n>>]

\* A call: it connects first if there is no connection, and fails if it cannot.
Begin(k) ==
    /\ call[k] = 0 /\ calls < MaxCalls
    /\ calls' = calls + 1
    /\ \/ /\ sock[k] # 0
          /\ toServer' = [toServer EXCEPT ![sock[k]] = Append(@, calls + 1)]
          /\ UNCHANGED <<sock, conns, backlog>>
       \/ sock[k] = 0 /\ Dial(k, calls + 1)
    /\ call' = [call EXCEPT ![k] = calls + 1]
    /\ tries' = [tries EXCEPT ![k] = 1]
    /\ UNCHANGED <<env, returned, toClient, owner, listener, server>>

\* _recv_msg: the next answer on the connection, whichever call it is for.
Receive(k) ==
    /\ call[k] # 0 /\ toClient[sock[k]] # <<>>
    /\ returned' = [returned EXCEPT ![k] =
                      [asked |-> call[k], told |-> Head(toClient[sock[k]])]]
    /\ toClient' = [toClient EXCEPT ![sock[k]] = Tail(@)]
    /\ call' = [call EXCEPT ![k] = 0]
    /\ UNCHANGED <<env, tries, sock, calls, conns, backlog, toServer, owner, listener,
                   server>>

\* The OSError of an attempt: the connection is gone or the time is up.
Broken(k) == call[k] # 0 /\ toClient[sock[k]] = <<>> /\ HasHung(sock[k])
Late(k)   == k \in Timeouts /\ call[k] # 0 /\ toClient[sock[k]] = <<>>

\* After the first one the request is sent again on a new connection.
Retry(k) ==
    /\ tries[k] = 1
    /\ Broken(k) \/ Late(k)
    /\ \/ /\ Dial(k, call[k])
          /\ tries' = [tries EXCEPT ![k] = 2]
          /\ UNCHANGED call
       \/ /\ state = "down"
          /\ sock' = [sock EXCEPT ![k] = 0]
          /\ call' = [call EXCEPT ![k] = 0]
          /\ UNCHANGED <<tries, conns, backlog, toServer>>
    /\ UNCHANGED <<env, calls, returned, toClient, owner, listener, server>>

\* The second one is raised to the caller; the connection stays as it is.
GiveUp(k) ==
    /\ tries[k] = 2
    /\ Broken(k) \/ Late(k)
    /\ call' = [call EXCEPT ![k] = 0]
    /\ UNCHANGED <<env, tries, sock, calls, returned, sockets, listener, server>>

\* The client closes its connection, in a call or not.
Quit(k) ==
    /\ k \in Quits /\ sock[k] # 0
    /\ sock' = [sock EXCEPT ![k] = 0]
    /\ call' = [call EXCEPT ![k] = 0]
    /\ UNCHANGED <<env, tries, calls, returned, sockets, listener, server>>

-----------------------------------------------------------------------------
(* The listener thread.                                                    *)

\* accept_client: a connection that cannot be set up is closed at once.
Accept ==
    /\ state # "down" /\ backlog # <<>>
    /\ \/ /\ \E f \in Fds :
              /\ owner[f] = 0
              /\ owner' = [owner EXCEPT ![f] = Head(backlog)]
              /\ fd' = [fd EXCEPT ![Head(backlog)] = f]
          /\ listed' = listed \cup {Head(backlog)}
          /\ refs' = [refs EXCEPT ![Head(backlog)] = 1]
       \/ Faults /\ UNCHANGED <<owner, fd, listed, refs>>
    /\ backlog' = Tail(backlog)
    /\ UNCHANGED <<env, library, conns, toServer, toClient, closed, freed, server>>

\* ps_uif_handler drops a request that it cannot parse or queue.
Refuse == Faults /\ UNCHANGED <<queue, refs>>

\* Mutant: the message does not hold the client.
EnqueueUnheld(c, n) ==
    /\ queue' = Append(queue, [conn |-> c, call |-> n])
    /\ UNCHANGED refs

\* Mutant: the message holds the client that connected last.
EnqueueLatest(c, n) ==
    \E last \in listed :
        /\ \A other \in listed : other <= last
        /\ queue' = Append(queue, [conn |-> last, call |-> n])
        /\ refs' = [refs EXCEPT ![last] = @ + 1]

\* ps_send_usr_rq_*: the message holds the client.
Enqueue(c, n) ==
    /\ queue' = Append(queue, [conn |-> c, call |-> n])
    /\ refs' = [refs EXCEPT ![c] = @ + 1]

\* handle_client_data, when it has the whole of a request.
Read(c) ==
    /\ c \in listed \ closed /\ toServer[c] # <<>>
    /\ toServer' = [toServer EXCEPT ![c] = Tail(@)]
    /\ Refuse \/ Enqueue(c, Head(toServer[c]))
    /\ UNCHANGED <<env, library, conns, backlog, toClient, owner, fd, listed, closed, freed,
                   cur, served, state>>

\* close_client, up to the flag.
CloseBegins(c) ==
    /\ c \in listed \ closed
    /\ closed' = closed \cup {c}
    /\ UNCHANGED <<env, library, sockets, fd, listed, refs, freed, server>>

\* handle_client_data: the other end was closed.
Hangup(c) == toServer[c] = <<>> /\ c \notin {sock[k] : k \in Clients} /\ CloseBegins(c)

\* handle_client_data: the header is of a body that is too large, or for which
\* there is no memory.
Reject(c) == Faults /\ toServer[c] # <<>> /\ CloseBegins(c)

\* uif_client_release
Release(c) ==
    /\ refs' = [refs EXCEPT ![c] = @ - 1]
    /\ freed' = IF refs[c] = 1 THEN freed \cup {c} ELSE freed

\* The rest of close_client: the descriptor is free for another connection.
Close(c) ==
    /\ c \in listed \cap closed
    /\ owner' = [owner EXCEPT ![fd[c]] = 0]
    /\ listed' = listed \ {c}
    /\ Release(c)
    /\ UNCHANGED <<env, library, conns, backlog, toServer, toClient, fd, closed, server>>

-----------------------------------------------------------------------------
(* The event loop.                                                         *)

\* evq_wait and dispatch, up to the answer.
Take ==
    /\ state = "up" /\ cur = Nothing /\ queue # <<>>
    /\ cur' = [conn |-> Head(queue).conn, call |-> Head(queue).call, step |-> "answer"]
    /\ served' = [served EXCEPT ![Head(queue).call] = @ + 1]
    /\ queue' = Tail(queue)
    /\ UNCHANGED <<env, library, sockets, listener, state>>

\* Mutant: a handler that has no answer returns without the release.
NoAnswerUnreleased == Faults /\ cur' = Nothing

\* The handler fails, or uif_respond_* has no memory for the answer.
NoAnswer == Faults /\ cur' = [cur EXCEPT !.step = "release"]

\* uif_respond_*, as far as uif_send, which looks whether the client is there.
Answer ==
    /\ cur.step = "answer"
    /\ \/ NoAnswer
       \/ cur.conn \in closed /\ cur' = [cur EXCEPT !.step = "release"]
       \/ cur.conn \notin closed /\ cur' = [cur EXCEPT !.step = "write"]
    /\ UNCHANGED <<env, library, sockets, listener, queue, served, state>>

\* write_exact: to the connection that has the descriptor by now, if any.
Write ==
    /\ cur.step = "write"
    /\ LET c == owner[fd[cur.conn]] IN
        toClient' = IF c # 0 /\ c \in {sock[k] : k \in Clients}
                    THEN [toClient EXCEPT ![c] = Append(@, cur.call)]
                    ELSE toClient
    /\ cur' = [cur EXCEPT !.step = "release"]
    /\ UNCHANGED <<env, library, conns, backlog, toServer, owner, listener, queue,
                   served, state>>

Done ==
    /\ cur.step = "release"
    /\ Release(cur.conn)
    /\ cur' = Nothing
    /\ UNCHANGED <<env, library, sockets, fd, listed, closed, queue, served, state>>

\* A shutdown message ends the loop.
Stop ==
    /\ Stops /\ state = "up" /\ cur = Nothing
    /\ state' = "stopping"
    /\ UNCHANGED <<env, library, sockets, listener, queue, cur, served>>

\* Mutant: the listener ends and leaves its connections open.
DestroySilently ==
    /\ state = "stopping"
    /\ state' = "down"
    /\ backlog' = <<>>
    /\ UNCHANGED <<env, library, conns, toServer, toClient, owner, listener, queue, cur,
                   served>>

\* uif_destroy: the listener closes every connection (close_all_clients).
Destroy ==
    /\ state = "stopping"
    /\ state' = "down"
    /\ backlog' = <<>>
    /\ owner' = [f \in Fds |-> 0]
    /\ listed' = {} /\ closed' = closed \cup listed
    /\ refs' = [c \in Conns |-> IF c \in listed THEN refs[c] - 1 ELSE refs[c]]
    /\ freed' = freed \cup {c \in listed : refs[c] = 1}
    /\ UNCHANGED <<env, library, conns, toServer, toClient, fd, queue, cur, served>>

-----------------------------------------------------------------------------
Library == \E k \in Clients : Begin(k) \/ Receive(k) \/ Retry(k) \/ GiveUp(k) \/ Quit(k)

Listener == Accept \/ \E c \in Conns : Read(c) \/ Hangup(c) \/ Reject(c) \/ Close(c)

EventLoop == Take \/ Answer \/ Write \/ Done

Next == Library \/ Listener \/ EventLoop \/ Stop \/ Destroy

Spec == Init /\ [][Next]_vars

\* The threads run, epoll_wait reports every connection that is ready, and a
\* client that waits takes what comes.  Nothing is assumed of Destroy: whether
\* the server is destroyed once its loop has ended is up to the JVM (Lifecycle).
FairSpec ==
    /\ Spec
    /\ WF_vars(EventLoop) /\ WF_vars(Accept)
    /\ \A c \in Conns : WF_vars(Read(c)) /\ WF_vars(Hangup(c)) /\ WF_vars(Close(c))
    /\ \A k \in Clients : WF_vars(Receive(k)) /\ WF_vars(Broken(k) /\ (Retry(k) \/ GiveUp(k)))

-----------------------------------------------------------------------------
(* Properties.                                                             *)

InQueue(c) == {i \in DOMAIN queue : queue[i].conn = c}

\* The count of a client structure (user-if.c:48-52) is the number of its
\* holders, the listener, the queued messages and the message being answered,
\* and what is held was not freed.
RefsMatch ==
    \A c \in Conns :
        /\ refs[c] = (IF c \in listed THEN 1 ELSE 0) + Cardinality(InQueue(c))
                       + (IF cur.conn = c THEN 1 ELSE 0)
        /\ refs[c] > 0 => c \notin freed

\* A client that went away is freed in the end, also when its requests fail.
ClosedIsFreed == \A c \in Conns : c \in closed ~> c \in freed \/ state # "up"

\* A call returns the answer that was made for it: "instrument_id - integer ID
\* that can be passed to deinstrument_by_id" (mcp_server.py:152).
OwnAnswer == \A k \in Clients : returned[k].told = returned[k].asked

\* Clients wait for their answers as long as it takes, and all requests are good.
Patient == Timeouts = {} /\ Quits = {} /\ ~Faults

\* Clients that wait get the answer to the call they are in, and what they asked
\* for is carried out once at most, also when several are connected and when the
\* server is shut down and the connection is lost: instrument_line is not
\* idempotent.
PatientIsServed == Patient => OwnAnswer /\ \A n \in Calls : served[n] <= 1

\* A call that was begun returns or raises while the event loop runs, also when
\* its first attempt was late or lost its connection; and once the server is
\* destroyed nobody waits for it, the calls behind the shutdown request in the
\* queue included.  (In between, if a suspended shutdown hook keeps the JVM from
\* unloading the agent, they wait; and a client without a timeout waits for ever
\* when its request was dropped or has no answer.)
CallsEnd == \A k \in Clients : call[k] # 0 /\ ~Faults ~> call[k] = 0 \/ state = "stopping"
=============================================================================
