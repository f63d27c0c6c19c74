--------------------------- MODULE RequestsProofs ---------------------------
(***************************************************************************)
(* Proofs about requests and their answers, for any number of clients,     *)
(* calls and file descriptors.                                             *)
(***************************************************************************)
EXTENDS Requests, FiniteSetTheorems, FunctionTheorems, TLAPS

-----------------------------------------------------------------------------
(* The inductive invariant.                                                *)

\* The clients that may still send their call a second time.
Trying == {k \in Clients : call[k] # 0 /\ tries[k] = 1}

\* A call connects twice at most, and has a connection while it lasts.
Connected ==
    /\ \A k \in Clients : call[k] # 0 => sock[k] # 0
    /\ IsFiniteSet(Trying)
    /\ conns + Cardinality(Trying) <= 2 * calls

\* The connections that the listener has not seen yet.
Unseen(c) == c > conns \/ \E i \in DOMAIN backlog : backlog[i] = c

\* Nobody holds them, and each is accepted once.
Fresh ==
    /\ \A i \in DOMAIN backlog : backlog[i] <= conns
    /\ \A i, j \in DOMAIN backlog : backlog[i] = backlog[j] => i = j
    /\ \A c \in Conns : Unseen(c) => refs[c] = 0 /\ c \notin listed /\ c \notin freed

IInv == TypeOK /\ RefsMatch /\ Connected /\ Fresh

-----------------------------------------------------------------------------
(* The messages that hold a client.                                        *)

Held(q, c) == {i \in DOMAIN q : q[i].conn = c}

\* A queue has finitely many messages of a client.
LEMMA HeldFinite ==
    ASSUME NEW q \in Seq(Message), NEW c
    PROVE  IsFiniteSet(Held(q, c)) /\ Cardinality(Held(q, c)) \in Nat
<1>1. Len(q) \in Nat /\ DOMAIN q = 1..Len(q)
    OBVIOUS
<1>2. IsFiniteSet(1..Len(q))
    BY <1>1, FS_Interval
<1>3. Held(q, c) \in SUBSET (1..Len(q))
    BY <1>1 DEF Held
<1>4. IsFiniteSet(Held(q, c))
    BY <1>2, <1>3, FS_Subset
<1> QED
    BY <1>4, FS_CardinalityType

\* A message that is appended holds its client once more.
LEMMA HeldAppend ==
    ASSUME NEW q \in Seq(Message), NEW m \in Message, NEW c
    PROVE  Cardinality(Held(Append(q, m), c)) =
             Cardinality(Held(q, c)) + (IF m.conn = c THEN 1 ELSE 0)
<1>1. /\ Len(q) \in Nat /\ DOMAIN q = 1..Len(q)
      /\ DOMAIN Append(q, m) = 1..(Len(q) + 1)
      /\ \A i \in 1..Len(q) : Append(q, m)[i] = q[i]
      /\ Append(q, m)[Len(q) + 1] = m
    OBVIOUS
<1>2. IsFiniteSet(Held(q, c)) /\ Cardinality(Held(q, c)) \in Nat
    BY HeldFinite
<1>3. CASE m.conn = c
    <2>1. Held(Append(q, m), c) = Held(q, c) \cup {Len(q) + 1}
        BY <1>1, <1>3 DEF Held
    <2>2. Len(q) + 1 \notin Held(q, c)
        BY <1>1 DEF Held
    <2> QED
        BY <1>2, <1>3, <2>1, <2>2, FS_AddElement, ZenonT(40)
<1>4. CASE m.conn # c
    <2>1. Held(Append(q, m), c) = Held(q, c)
        BY <1>1, <1>4 DEF Held
    <2> QED
        BY <1>2, <1>4, <2>1
<1> QED
    BY <1>3, <1>4

\* The message that is taken no longer holds its client from the queue.
LEMMA HeldTail ==
    ASSUME NEW q \in Seq(Message), q # <<>>, NEW c
    PROVE  Cardinality(Held(q, c)) =
             Cardinality(Held(Tail(q), c)) + (IF Head(q).conn = c THEN 1 ELSE 0)
<1> DEFINE S == Held(Tail(q), c)
           T == Held(q, c) \ {1}
           f == [i \in S |-> i + 1]
<1>1. /\ Len(q) \in Nat /\ Len(q) > 0 /\ DOMAIN q = 1..Len(q)
      /\ Tail(q) \in Seq(Message) /\ DOMAIN Tail(q) = 1..(Len(q) - 1)
      /\ \A i \in 1..(Len(q) - 1) : Tail(q)[i] = q[i + 1]
      /\ Head(q) = q[1]
    OBVIOUS
<1>2. /\ IsFiniteSet(Held(q, c)) /\ Cardinality(Held(q, c)) \in Nat
      /\ IsFiniteSet(S) /\ Cardinality(S) \in Nat
    BY <1>1, HeldFinite
<1>3. /\ S \subseteq 1..(Len(q) - 1) /\ T \subseteq 2..Len(q)
      /\ \A i \in 1..(Len(q) - 1) : i \in S <=> i + 1 \in T
    BY <1>1 DEF Held
<1> HIDE DEF S, T
<1>4. \A i \in S : i + 1 \in T
    BY <1>1, <1>3
<1>5. \A i, j \in S : i + 1 = j + 1 => i = j
    BY <1>1, <1>3
<1>6. \A t \in T : \E i \in S : i + 1 = t
    <2> SUFFICES ASSUME NEW t \in T
                 PROVE  \E i \in S : i + 1 = t
        OBVIOUS
    <2>1. t - 1 \in 1..(Len(q) - 1) /\ (t - 1) + 1 = t
        BY <1>1, <1>3
    <2> QED
        BY <1>3, <2>1
<1>7. f \in [S -> T] /\ \A i \in S : f[i] = i + 1
    BY <1>4
<1> HIDE DEF f
<1>8. f \in Bijection(S, T)
    BY <1>5, <1>6, <1>7, Fun_IsBij
<1>9. Cardinality(S) = Cardinality(T)
    BY <1>2, <1>8, FS_Bijection DEF ExistsBijection
<1>10. Cardinality(T) = IF 1 \in Held(q, c) THEN Cardinality(Held(q, c)) - 1
                                            ELSE Cardinality(Held(q, c))
    BY <1>2, FS_RemoveElement DEF T
<1>11. 1 \in Held(q, c) <=> Head(q).conn = c
    BY <1>1 DEF Held
<1> QED
    BY <1>2, <1>9, <1>10, <1>11 DEF S

-----------------------------------------------------------------------------
(* The steps of the clients, which hold no client structure.               *)

\* A count that no step of the listener, the loop or the queue touches.
LEMMA RefsStay ==
    ASSUME IInv, UNCHANGED <<listed, freed, refs, queue, cur>>
    PROVE  RefsMatch'
<1>1. \A c \in Conns : InQueue(c)' = InQueue(c)
    BY DEF InQueue
<1> QED
    BY <1>1 DEF IInv, RefsMatch

\* The client that begins a call may dial twice for it.
LEMMA TryingGrows ==
    ASSUME IInv, NEW k \in Clients, Begin(k)
    PROVE  /\ IsFiniteSet(Trying')
           /\ Cardinality(Trying') = Cardinality(Trying) + 1
<1>1. k \notin Trying
    BY DEF Begin, Trying
<1>2. /\ call \in [Clients -> 0..MaxCalls] /\ tries \in [Clients -> 0..2]
      /\ calls \in 0..MaxCalls /\ IsFiniteSet(Trying)
    BY DEF IInv, TypeOK, Connected
<1>3. Trying' = Trying \cup {k}
    BY <1>2 DEF Begin, Trying
<1> QED
    BY <1>1, <1>2, <1>3, FS_AddElement, FS_CardinalityType

\* A client that dials again, returns or goes away dials no more.
LEMMA TryingShrinks ==
    ASSUME IInv, NEW k \in Clients,
           call' = [call EXCEPT ![k] = 0] \/ tries' = [tries EXCEPT ![k] = 2],
           call' \in {call, [call EXCEPT ![k] = 0]},
           tries' \in {tries, [tries EXCEPT ![k] = 2]}
    PROVE  /\ Trying' = Trying \ {k}
           /\ IsFiniteSet(Trying')
           /\ Cardinality(Trying') =
                IF k \in Trying THEN Cardinality(Trying) - 1 ELSE Cardinality(Trying)
<1>1. /\ call \in [Clients -> 0..MaxCalls] /\ tries \in [Clients -> 0..2]
      /\ IsFiniteSet(Trying)
    BY DEF IInv, TypeOK, Connected
<1>2. Trying' = Trying \ {k}
    BY <1>1 DEF Trying
<1> QED
    BY <1>1, <1>2, FS_RemoveElement

\* There is a number for the connection of a client that may dial.
LEMMA RoomToDial ==
    ASSUME IInv
    PROVE  /\ MaxCalls \in Nat /\ calls \in 0..MaxCalls /\ conns \in Nat
           /\ IsFiniteSet(Trying) /\ Cardinality(Trying) \in Nat
           /\ \A k \in Trying : conns + 1 \in Conns /\ conns + 1 <= 2 * calls
           /\ calls < MaxCalls => conns + 1 \in Conns
<1>1. /\ MaxCalls \in Nat /\ calls \in 0..MaxCalls /\ conns \in Nat
      /\ IsFiniteSet(Trying) /\ Cardinality(Trying) \in Nat
      /\ conns + Cardinality(Trying) <= 2 * calls
    BY CallsAssumption, FS_CardinalityType DEF IInv, TypeOK, Connected, Conns
<1>2. ASSUME NEW k \in Trying PROVE Cardinality(Trying) >= 1
    BY <1>1, FS_EmptySet
<1> QED
    BY <1>1, <1>2 DEF Conns

\* A connection that was just made is seen by nobody yet.
LEMMA DialKeepsFresh ==
    ASSUME IInv, NEW k \in Clients, NEW n, Dial(k, n),
           UNCHANGED <<listed, freed, refs>>
    PROVE  Fresh'
<1>1. /\ conns \in Nat /\ backlog \in Seq(Conns)
      /\ conns' = conns + 1 /\ backlog' = Append(backlog, conns + 1)
    BY RoomToDial DEF IInv, TypeOK, Dial
<1>2. /\ Len(backlog) \in Nat /\ DOMAIN backlog = 1..Len(backlog)
      /\ DOMAIN backlog' = 1..(Len(backlog) + 1)
      /\ \A i \in 1..Len(backlog) : backlog'[i] = backlog[i] /\ backlog[i] \in Conns
      /\ backlog'[Len(backlog) + 1] = conns + 1
    BY <1>1
<1>3. \A i \in 1..Len(backlog) : backlog[i] \in Nat /\ backlog[i] <= conns
    BY <1>2 DEF IInv, Fresh, Conns
<1>4. \A i \in DOMAIN backlog' : backlog'[i] <= conns'
    <2> SUFFICES ASSUME NEW i \in 1..(Len(backlog) + 1)
                 PROVE  backlog'[i] <= conns + 1
        BY <1>1, <1>2
    <2>1. i \in 1..Len(backlog) \/ i = Len(backlog) + 1
        BY <1>2
    <2> QED
        BY <1>1, <1>2, <1>3, <2>1
<1>5. \A i, j \in DOMAIN backlog' : backlog'[i] = backlog'[j] => i = j
    <2> SUFFICES ASSUME NEW i \in DOMAIN backlog', NEW j \in DOMAIN backlog',
                        backlog'[i] = backlog'[j]
                 PROVE  i = j
        OBVIOUS
    <2>1. CASE i \in DOMAIN backlog /\ j \in DOMAIN backlog
        BY <1>2, <2>1 DEF IInv, Fresh
    <2>2. CASE i \notin DOMAIN backlog \/ j \notin DOMAIN backlog
        BY <1>1, <1>2, <1>3, <2>2
    <2> QED
        BY <2>1, <2>2
<1>6. ASSUME NEW c \in Conns, Unseen(c)' PROVE Unseen(c)
    <2>1. c \in Nat
        BY <1>6 DEF Conns
    <2>2. CASE c > conns'
        BY <1>1, <2>1, <2>2 DEF Unseen
    <2>3. CASE \E i \in DOMAIN backlog' : backlog'[i] = c
        <3>1. PICK i \in 1..(Len(backlog) + 1) : backlog'[i] = c
            BY <1>2, <2>3
        <3>2. i \in 1..Len(backlog) \/ i = Len(backlog) + 1
            BY <1>2
        <3> QED
            BY <1>1, <1>2, <2>1, <3>1, <3>2 DEF Unseen
    <2> QED
        BY <1>6, <2>2, <2>3 DEF Unseen
<1> QED
    BY <1>4, <1>5, <1>6 DEF IInv, Fresh

\* Dialling keeps the types of what it changes.
LEMMA DialTypes ==
    ASSUME IInv, NEW k \in Clients, NEW n \in Calls, Dial(k, n), conns + 1 \in Conns
    PROVE  /\ conns' \in Conns /\ backlog' \in Seq(Conns)
           /\ sock' \in [Clients -> Conns \cup {0}]
           /\ \A l \in Clients : sock'[l] = IF l = k THEN conns + 1 ELSE sock[l]
           /\ toServer' \in [Conns -> Seq(Calls)]
BY SMTT(30) DEF IInv, TypeOK, Dial

\* What a client does keeps the invariant: it holds no structure of the server.
LEMMA LibraryStep ==
    ASSUME IInv, Library
    PROVE  IInv'
<1> PICK k \in Clients : Begin(k) \/ Receive(k) \/ Retry(k) \/ GiveUp(k) \/ Quit(k)
    BY DEF Library
<1>1. UNCHANGED listener /\ UNCHANGED server
    BY DEF Begin, Receive, Retry, GiveUp, Quit
<1>2. RefsMatch'
    BY <1>1, RefsStay DEF listener, server
<1>3. /\ TypeOK /\ Connected /\ Fresh
      /\ call \in [Clients -> 0..MaxCalls] /\ tries \in [Clients -> 0..2]
      /\ sock \in [Clients -> Conns \cup {0}]
    BY DEF IInv, TypeOK
<1>4. /\ MaxCalls \in Nat /\ calls \in 0..MaxCalls /\ conns \in Nat
      /\ IsFiniteSet(Trying) /\ Cardinality(Trying) \in Nat
      /\ conns + Cardinality(Trying) <= 2 * calls
    BY <1>3, RoomToDial DEF Connected
<1>5. CASE Begin(k)
    <2>1. /\ calls + 1 \in Calls /\ calls' = calls + 1 /\ calls' \in 0..MaxCalls
          /\ conns + 1 \in Conns /\ conns + 1 # 0
          /\ call' = [call EXCEPT ![k] = calls + 1] /\ call' \in [Clients -> 0..MaxCalls]
          /\ tries' = [tries EXCEPT ![k] = 1] /\ tries' \in [Clients -> 0..2]
        BY <1>3, <1>4, <1>5, RoomToDial DEF Begin, Calls
    <2>2. IsFiniteSet(Trying') /\ Cardinality(Trying') = Cardinality(Trying) + 1
        BY <1>5, TryingGrows
    <2>3. CASE sock[k] # 0 /\ UNCHANGED <<sock, conns, backlog>>
               /\ toServer' = [toServer EXCEPT ![sock[k]] = Append(@, calls + 1)]
        <3> UNCHANGED <<env, returned, toClient, owner>>
            BY <1>5 DEF Begin
        <3>1. TypeOK'
            <4>1. toServer \in [Conns -> Seq(Calls)] /\ sock[k] \in Conns
                BY <1>3, <2>3 DEF TypeOK
            <4>2. toServer' \in [Conns -> Seq(Calls)]
                BY <2>1, <2>3, <4>1
            <4> QED
                BY <1>1, <1>3, <2>1, <2>3, <4>2 DEF TypeOK, listener, server
        <3>2. Connected'
            BY <1>3, <1>4, <2>1, <2>2, <2>3 DEF Connected
        <3>3. Fresh'
            BY <1>1, <1>3, <2>3 DEF Fresh, Unseen, listener
        <3> QED
            BY <1>2, <3>1, <3>2, <3>3 DEF IInv
    <2>4. CASE Dial(k, calls + 1)
        <3> UNCHANGED <<env, returned, toClient, owner>>
            BY <1>5 DEF Begin
        <3>1. TypeOK'
            <4>1. /\ conns' \in Conns /\ backlog' \in Seq(Conns)
                  /\ sock' \in [Clients -> Conns \cup {0}]
                  /\ toServer' \in [Conns -> Seq(Calls)]
                BY <2>1, <2>4, DialTypes
            <4> QED
                BY <1>1, <1>3, <2>1, <4>1 DEF TypeOK, listener, server
        <3>2. Connected'
            <4>1. \A l \in Clients : call'[l] # 0 => sock'[l] # 0
                BY <1>3, <2>1, <2>4, DialTypes DEF Connected
            <4>2. conns' = conns + 1
                BY <2>4 DEF Dial
            <4> QED
                BY <1>4, <2>1, <2>2, <4>1, <4>2 DEF Connected
        <3>3. Fresh'
            BY <1>1, <2>4, DialKeepsFresh DEF listener
        <3> QED
            BY <1>2, <3>1, <3>2, <3>3 DEF IInv
    <2> QED
        BY <1>5, <2>3, <2>4 DEF Begin
<1>6. CASE Retry(k) /\ Dial(k, call[k]) /\ tries' = [tries EXCEPT ![k] = 2] /\ UNCHANGED call
    <2>1. k \in Trying /\ call[k] \in Calls
        BY <1>3, <1>4, <1>6 DEF Retry, Broken, Late, Trying, Calls
    <2>2. /\ conns + 1 \in Conns /\ conns + 1 <= 2 * calls /\ conns + 1 # 0
        BY <1>4, <2>1, RoomToDial
    <2>3. IsFiniteSet(Trying') /\ Cardinality(Trying') = Cardinality(Trying) - 1
        BY <1>6, <2>1, TryingShrinks
    <2>4. TypeOK'
        <3>1. /\ conns' \in Conns /\ backlog' \in Seq(Conns)
              /\ sock' \in [Clients -> Conns \cup {0}]
              /\ toServer' \in [Conns -> Seq(Calls)]
            BY <1>6, <2>1, <2>2, DialTypes
        <3>2. UNCHANGED <<env, calls, returned, toClient, owner>>
            BY <1>6 DEF Retry
        <3>3. tries' \in [Clients -> 0..2]
            BY <1>3, <1>6
        <3> QED
            BY <1>1, <1>3, <1>6, <3>1, <3>2, <3>3 DEF TypeOK, listener, server
    <2>5. Connected'
        <3>1. \A l \in Clients : call'[l] # 0 => sock'[l] # 0
            BY <1>3, <1>6, <2>1, <2>2, DialTypes DEF Connected
        <3>2. conns' = conns + 1 /\ calls' = calls
            BY <1>6 DEF Dial, Retry
        <3> QED
            BY <1>4, <2>3, <3>1, <3>2 DEF Connected
    <2>6. Fresh'
        BY <1>1, <1>6, DialKeepsFresh DEF listener
    <2> QED
        BY <1>2, <2>4, <2>5, <2>6 DEF IInv
<1>7. CASE /\ call' = [call EXCEPT ![k] = 0]
           /\ UNCHANGED <<env, tries, calls, conns, backlog, toServer, owner>>
           /\ sock' \in {sock, [sock EXCEPT ![k] = 0]}
           /\ UNCHANGED <<returned, toClient>> \/ Receive(k)
    <2>1. /\ call' \in [Clients -> 0..MaxCalls] /\ sock' \in [Clients -> Conns \cup {0}]
          /\ \A l \in Clients : call'[l] # 0 => sock'[l] = sock[l] /\ call[l] # 0
        BY <1>3, <1>4, <1>7
    <2>2. /\ toClient' \in [Conns -> Seq(Calls)]
          /\ returned' \in [Clients -> [asked : 0..MaxCalls, told : 0..MaxCalls]]
        <3>1. CASE UNCHANGED <<returned, toClient>>
            BY <1>3, <3>1 DEF TypeOK
        <3>2. CASE Receive(k)
            <4> DEFINE d == toClient[sock[k]]
            <4>1. /\ toClient \in [Conns -> Seq(Calls)] /\ sock[k] \in Conns
                  /\ returned \in [Clients -> [asked : 0..MaxCalls, told : 0..MaxCalls]]
                BY <1>3, <3>2 DEF Receive, Connected, TypeOK
            <4>2. d \in Seq(Calls) /\ d # <<>>
                BY <3>2, <4>1 DEF Receive
            <4>3. Head(d) \in Calls /\ Tail(d) \in Seq(Calls)
                BY <4>2
            <4>4. Head(d) \in 0..MaxCalls /\ call[k] \in 0..MaxCalls
                BY <1>3, <1>4, <4>3 DEF Calls
            <4> QED
                BY <3>2, <4>1, <4>3, <4>4 DEF Receive
        <3> QED
            BY <1>7, <3>1, <3>2
    <2>3. TypeOK'
        BY <1>1, <1>3, <1>7, <2>1, <2>2 DEF TypeOK, listener, server
    <2>4. IsFiniteSet(Trying') /\ Cardinality(Trying') <= Cardinality(Trying)
        <3>1. /\ IsFiniteSet(Trying')
              /\ Cardinality(Trying') = IF k \in Trying THEN Cardinality(Trying) - 1
                                                        ELSE Cardinality(Trying)
            BY <1>7, TryingShrinks
        <3> QED
            BY <1>4, <3>1
    <2>5. Connected'
        <3>1. Cardinality(Trying') \in Nat
            BY <2>4, FS_CardinalityType
        <3> QED
            BY <1>3, <1>4, <1>7, <2>1, <2>4, <3>1 DEF Connected
    <2>6. Fresh'
        BY <1>1, <1>3, <1>7 DEF Fresh, Unseen, listener
    <2> QED
        BY <1>2, <2>3, <2>5, <2>6 DEF IInv
<1>8. CASE Receive(k)
    BY <1>7, <1>8 DEF Receive
<1>9. CASE GiveUp(k)
    BY <1>7, <1>9 DEF GiveUp, sockets
<1>10. CASE Quit(k)
    BY <1>7, <1>10 DEF Quit, sockets
<1>11. CASE Retry(k)
    BY <1>6, <1>7, <1>11 DEF Retry
<1> QED
    BY <1>5, <1>8, <1>9, <1>10, <1>11

-----------------------------------------------------------------------------
(* The steps of the listener and the event loop.                           *)

\* The calls and their connections are the clients' own.
LEMMA ConnectedStays ==
    ASSUME IInv, UNCHANGED <<library, conns>>
    PROVE  Connected'
BY DEF IInv, Connected, Trying, library

\* The parts of the invariant that the steps below rest on.
LEMMA Counted ==
    ASSUME IInv, NEW c \in Conns
    PROVE  /\ refs[c] \in Nat /\ Cardinality(InQueue(c)) \in Nat
           /\ refs[c] = (IF c \in listed THEN 1 ELSE 0) + Cardinality(InQueue(c))
                          + (IF cur.conn = c THEN 1 ELSE 0)
           /\ refs[c] > 0 => c \notin freed /\ ~Unseen(c)
           /\ Unseen(c) => c \notin listed /\ c \notin freed
<1>1. queue \in Seq(Message) /\ refs \in [Conns -> Nat]
    BY DEF IInv, TypeOK
<1>2. Cardinality(InQueue(c)) \in Nat
    BY <1>1, HeldFinite DEF InQueue, Held
<1> QED
    BY <1>1, <1>2 DEF IInv, RefsMatch, Fresh

\* The connection that is accepted is the only one of its number.
LEMMA AcceptedOnce ==
    ASSUME IInv, backlog # <<>>, backlog' = Tail(backlog), UNCHANGED conns
    PROVE  /\ Head(backlog) \in Conns /\ Unseen(Head(backlog))
           /\ backlog' \in Seq(Conns)
           /\ \A i \in DOMAIN backlog' : backlog'[i] <= conns'
           /\ \A i, j \in DOMAIN backlog' : backlog'[i] = backlog'[j] => i = j
           /\ \A c \in Conns : Unseen(c)' => Unseen(c) /\ c # Head(backlog)
<1>1. /\ backlog \in Seq(Conns)
      /\ \A i \in DOMAIN backlog : backlog[i] <= conns
      /\ \A i, j \in DOMAIN backlog : backlog[i] = backlog[j] => i = j
    BY DEF IInv, TypeOK, Fresh
<1>2. /\ Len(backlog) \in Nat /\ Len(backlog) > 0 /\ DOMAIN backlog = 1..Len(backlog)
      /\ backlog' \in Seq(Conns) /\ DOMAIN backlog' = 1..(Len(backlog) - 1)
      /\ \A i \in 1..(Len(backlog) - 1) : backlog'[i] = backlog[i + 1]
      /\ Head(backlog) = backlog[1] /\ Head(backlog) \in Conns
    BY <1>1
<1>3. \A i \in DOMAIN backlog' : i + 1 \in DOMAIN backlog /\ i + 1 # 1
    BY <1>2
<1>4. \A i \in DOMAIN backlog' : backlog'[i] <= conns'
    BY <1>1, <1>2, <1>3
<1>5. \A i, j \in DOMAIN backlog' : backlog'[i] = backlog'[j] => i = j
    <2> SUFFICES ASSUME NEW i \in DOMAIN backlog', NEW j \in DOMAIN backlog',
                        backlog'[i] = backlog'[j]
                 PROVE  i = j
        OBVIOUS
    <2>1. i + 1 = j + 1
        BY <1>1, <1>2, <1>3
    <2> QED
        BY <1>2, <2>1
<1>6. 1 \in DOMAIN backlog /\ Unseen(Head(backlog))
    BY <1>2 DEF Unseen
<1>7. ASSUME NEW c \in Conns, Unseen(c)' PROVE Unseen(c) /\ c # Head(backlog)
    <2>1. CASE c > conns
        <3>1. conns \in Int /\ Head(backlog) \in Int /\ c \in Int
            BY <1>2, RoomToDial DEF Conns
        <3>2. Head(backlog) <= conns
            BY <1>1, <1>2, <1>6
        <3> QED
            BY <2>1, <3>1, <3>2 DEF Unseen
    <2>2. CASE \E i \in DOMAIN backlog' : backlog'[i] = c
        <3>1. PICK i \in DOMAIN backlog' : backlog'[i] = c
            BY <2>2
        <3>2. i + 1 \in DOMAIN backlog /\ i + 1 # 1 /\ backlog[i + 1] = c
            BY <1>2, <1>3, <3>1
        <3> QED
            BY <1>1, <1>2, <1>6, <3>2 DEF Unseen
    <2> QED
        BY <1>7, <2>1, <2>2 DEF Unseen
<1> QED
    BY <1>2, <1>4, <1>5, <1>6, <1>7

\* A connection that is accepted has one holder, the listener.
LEMMA AcceptStep ==
    ASSUME IInv, Accept
    PROVE  IInv'
<1> DEFINE h == Head(backlog)
<1>1. /\ backlog # <<>> /\ backlog' = Tail(backlog)
      /\ UNCHANGED <<env, library, conns, toServer, toClient, closed, freed, server>>
    BY DEF Accept
<1>2. /\ h \in Conns /\ Unseen(h) /\ backlog' \in Seq(Conns)
      /\ \A i \in DOMAIN backlog' : backlog'[i] <= conns'
      /\ \A i, j \in DOMAIN backlog' : backlog'[i] = backlog'[j] => i = j
      /\ \A c \in Conns : Unseen(c)' => Unseen(c) /\ c # h
    BY <1>1, AcceptedOnce
<1>3. TypeOK /\ Fresh /\ Connected'
    BY <1>1, ConnectedStays DEF IInv
<1>4. \A c \in Conns : InQueue(c)' = InQueue(c)
    BY <1>1 DEF InQueue, server
<1> HIDE DEF h
<1>5. CASE UNCHANGED <<owner, fd, listed, refs>>
    <2>1. TypeOK'
        BY <1>1, <1>2, <1>3, <1>5 DEF TypeOK, library, server
    <2>2. RefsMatch'
        BY <1>1, <1>5, RefsStay DEF server
    <2>3. Fresh'
        BY <1>1, <1>2, <1>3, <1>5 DEF Fresh
    <2> QED
        BY <1>3, <2>1, <2>2, <2>3 DEF IInv
<1>6. ASSUME NEW f \in Fds,
             owner' = [owner EXCEPT ![f] = h], fd' = [fd EXCEPT ![h] = f],
             listed' = listed \cup {h}, refs' = [refs EXCEPT ![h] = 1]
      PROVE  IInv'
    <2>1. h \notin listed /\ h \notin freed
        BY <1>2, Counted
    <2>2. TypeOK'
        BY <1>1, <1>2, <1>3, <1>6, <2>1 DEF TypeOK, library, server
    <2>3. RefsMatch'
        <3> SUFFICES ASSUME NEW c \in Conns
                     PROVE  /\ refs'[c] = (IF c \in listed' THEN 1 ELSE 0)
                                            + Cardinality(InQueue(c))
                                            + (IF cur.conn = c THEN 1 ELSE 0)
                            /\ refs'[c] > 0 => c \notin freed
            BY <1>1, <1>4 DEF RefsMatch, server
        <3>1. refs'[c] = IF c = h THEN 1 ELSE refs[c]
            BY <1>2, <1>3, <1>6 DEF TypeOK
        <3>2. CASE c = h
            <4>1. refs[c] = 0
                BY <1>2, <1>3, <3>2 DEF Fresh
            <4>2. Cardinality(InQueue(c)) = 0 /\ cur.conn # c
                BY <4>1, Counted
            <4>3. c \in listed' /\ c \notin freed
                BY <1>6, <2>1, <3>2
            <4> QED
                BY <3>1, <3>2, <4>2, <4>3
        <3>3. CASE c # h
            BY <1>6, <3>1, <3>3, Counted
        <3> QED
            BY <3>2, <3>3
    <2>4. Fresh'
        <3>1. \A c \in Conns : c # h => refs'[c] = refs[c] /\ (c \in listed' <=> c \in listed)
            BY <1>3, <1>6 DEF TypeOK
        <3> QED
            BY <1>1, <1>2, <1>3, <3>1 DEF Fresh
    <2> QED
        BY <1>3, <2>2, <2>3, <2>4 DEF IInv
<1> QED
    BY <1>5, <1>6 DEF Accept, h

\* Where nothing is accepted, what nobody has seen stays unheld.
LEMMA FreshStays ==
    ASSUME IInv, UNCHANGED <<conns, backlog>>,
           \A c \in Conns : refs[c] = 0 /\ c \notin listed /\ c \notin freed
                              => refs'[c] = 0 /\ c \notin listed' /\ c \notin freed'
    PROVE  Fresh'
BY DEF IInv, Fresh, Unseen

\* A request that is queued holds the client it came from.
LEMMA ReadStep ==
    ASSUME IInv, NEW c \in Conns, Read(c)
    PROVE  IInv'
<1>1. /\ c \in listed /\ toServer[c] # <<>>
      /\ toServer' = [toServer EXCEPT ![c] = Tail(@)]
      /\ UNCHANGED <<env, library, conns, backlog, toClient, owner, fd, listed, closed,
                     freed, cur, served, state>>
    BY DEF Read
<1>2. /\ TypeOK /\ Connected'
      /\ toServer \in [Conns -> Seq(Calls)] /\ queue \in Seq(Message)
      /\ refs \in [Conns -> Nat]
    BY <1>1, ConnectedStays DEF IInv, TypeOK
<1>3. /\ toServer[c] \in Seq(Calls) /\ Tail(toServer[c]) \in Seq(Calls)
      /\ Head(toServer[c]) \in Calls
    BY <1>1, <1>2
<1>4. toServer' \in [Conns -> Seq(Calls)]
    BY <1>1, <1>2, <1>3
<1>5. CASE UNCHANGED <<queue, refs>>
    <2>1. TypeOK'
        BY <1>1, <1>2, <1>4, <1>5 DEF TypeOK, library
    <2>2. RefsMatch'
        BY <1>1, <1>5, RefsStay
    <2>3. Fresh'
        BY <1>1, <1>5, FreshStays
    <2> QED
        BY <1>2, <2>1, <2>2, <2>3 DEF IInv
<1>6. CASE Enqueue(c, Head(toServer[c]))
    <2> DEFINE m == [conn |-> c, call |-> Head(toServer[c])]
    <2>1. m \in Message /\ m.conn = c
        BY <1>3 DEF Message
    <2>2. queue' = Append(queue, m) /\ refs' = [refs EXCEPT ![c] = @ + 1]
        BY <1>6 DEF Enqueue
    <2> HIDE DEF m
    <2>3. queue' \in Seq(Message) /\ refs' \in [Conns -> Nat]
        BY <1>2, <2>1, <2>2
    <2>4. TypeOK'
        BY <1>1, <1>2, <1>4, <2>3 DEF TypeOK, library
    <2>5. RefsMatch'
        <3> SUFFICES ASSUME NEW d \in Conns
                     PROVE  /\ refs'[d] = (IF d \in listed THEN 1 ELSE 0)
                                            + Cardinality(InQueue(d)')
                                            + (IF cur.conn = d THEN 1 ELSE 0)
                            /\ refs'[d] > 0 => d \notin freed
            BY <1>1 DEF RefsMatch
        <3>1. Cardinality(InQueue(d)') = Cardinality(InQueue(d)) + (IF c = d THEN 1 ELSE 0)
            <4>1. InQueue(d) = Held(queue, d) /\ InQueue(d)' = Held(Append(queue, m), d)
                BY <2>2 DEF InQueue, Held
            <4>2. Cardinality(Held(Append(queue, m), d)) =
                    Cardinality(Held(queue, d)) + (IF m.conn = d THEN 1 ELSE 0)
                BY <1>2, <2>1, HeldAppend
            <4> QED
                BY <2>1, <4>1, <4>2
        <3>2. refs'[d] = IF c = d THEN refs[d] + 1 ELSE refs[d]
            BY <1>2, <2>2
        <3>3. c \notin freed
            BY <1>1, Counted
        <3>4. /\ refs[d] \in Nat /\ Cardinality(InQueue(d)) \in Nat
              /\ refs[d] = (IF d \in listed THEN 1 ELSE 0) + Cardinality(InQueue(d))
                             + (IF cur.conn = d THEN 1 ELSE 0)
              /\ refs[d] > 0 => d \notin freed
            BY Counted
        <3> QED
            BY <3>1, <3>2, <3>3, <3>4
    <2>6. Fresh'
        <3>1. \A d \in Conns : d # c => refs'[d] = refs[d]
            BY <1>2, <2>2
        <3> QED
            BY <1>1, <3>1, FreshStays
    <2> QED
        BY <1>2, <2>4, <2>5, <2>6 DEF IInv
<1> QED
    BY <1>5, <1>6 DEF Read, Refuse

\* A client whose end was closed, or whose request is refused, is held as before.
LEMMA HangupStep ==
    ASSUME IInv, NEW c \in Conns, Hangup(c) \/ Reject(c)
    PROVE  IInv'
<1>1. /\ closed' = closed \cup {c}
      /\ UNCHANGED <<env, library, sockets, fd, listed, refs, freed, server>>
    BY DEF Hangup, Reject, CloseBegins
<1>2. TypeOK'
    BY <1>1 DEF IInv, TypeOK, library, sockets, server
<1>3. RefsMatch'
    BY <1>1, RefsStay DEF server
<1>4. Connected'
    BY <1>1, ConnectedStays DEF sockets
<1>5. Fresh'
    BY <1>1, FreshStays DEF sockets
<1> QED
    BY <1>2, <1>3, <1>4, <1>5 DEF IInv

\* What a release does to a client that is held.
LEMMA Released ==
    ASSUME IInv, NEW c \in Conns, refs[c] > 0, Release(c)
    PROVE  /\ refs' \in [Conns -> Nat] /\ freed' \subseteq Conns
           /\ \A d \in Conns : refs'[d] = IF d = c THEN refs[d] - 1 ELSE refs[d]
           /\ \A d \in Conns : d \in freed' <=> d \in freed \/ (d = c /\ refs[c] = 1)
BY DEF IInv, TypeOK, Release

\* The listener drops the client it lists.
LEMMA CloseStep ==
    ASSUME IInv, NEW c \in Conns, Close(c)
    PROVE  IInv'
<1>1. /\ c \in listed /\ Release(c)
      /\ owner' = [owner EXCEPT ![fd[c]] = 0] /\ listed' = listed \ {c}
      /\ UNCHANGED <<env, library, conns, backlog, toServer, toClient, fd, closed, server>>
    BY DEF Close
<1>2. refs[c] > 0
    BY <1>1, Counted
<1>3. /\ refs' \in [Conns -> Nat] /\ freed' \subseteq Conns
      /\ \A d \in Conns : refs'[d] = IF d = c THEN refs[d] - 1 ELSE refs[d]
      /\ \A d \in Conns : d \in freed' <=> d \in freed \/ (d = c /\ refs[c] = 1)
    BY <1>1, <1>2, Released
<1>4. TypeOK'
    <2>1. \A d \in freed' : d \notin listed'
        BY <1>1, <1>3 DEF IInv, TypeOK
    <2>2. owner' \in [Fds -> Conns \cup {0}]
        BY <1>1 DEF IInv, TypeOK
    <2> QED
        BY <1>1, <1>3, <2>1, <2>2 DEF IInv, TypeOK, library, server
<1>5. RefsMatch'
    <2> SUFFICES ASSUME NEW d \in Conns
                 PROVE  /\ refs'[d] = (IF d \in listed' THEN 1 ELSE 0)
                                        + Cardinality(InQueue(d))
                                        + (IF cur.conn = d THEN 1 ELSE 0)
                        /\ refs'[d] > 0 => d \notin freed'
        BY <1>1 DEF RefsMatch, InQueue, server
    <2>1. d \in listed' <=> d \in listed /\ d # c
        BY <1>1
    <2> QED
        BY <1>1, <1>3, <2>1, Counted
<1>6. Connected'
    BY <1>1, ConnectedStays
<1>7. Fresh'
    BY <1>1, <1>2, <1>3, FreshStays
<1> QED
    BY <1>4, <1>5, <1>6, <1>7 DEF IInv

\* The message that is taken holds its client until it is answered.
LEMMA TakeStep ==
    ASSUME IInv, Take
    PROVE  IInv'
<1> DEFINE m == Head(queue)
<1>1. /\ cur = Nothing /\ queue # <<>> /\ queue' = Tail(queue)
      /\ cur' = [conn |-> m.conn, call |-> m.call, step |-> "answer"]
      /\ served' = [served EXCEPT ![m.call] = @ + 1]
      /\ UNCHANGED <<env, library, sockets, listener, state>>
    BY DEF Take
<1>2. queue \in Seq(Message) /\ m \in Message /\ queue' \in Seq(Message)
    BY <1>1 DEF IInv, TypeOK
<1>3. m.conn \in Conns /\ m.call \in Calls
    BY <1>2 DEF Message
<1> HIDE DEF m
<1>4. TypeOK'
    <2>1. cur' \in [conn : Conns, call : Calls, step : {"answer", "write", "release"}]
        BY <1>1, <1>3
    <2>2. served' \in [Calls -> Nat]
        BY <1>1, <1>3 DEF IInv, TypeOK
    <2> QED
        BY <1>1, <1>2, <2>1, <2>2 DEF IInv, TypeOK, library, sockets, listener
<1>5. RefsMatch'
    <2> SUFFICES ASSUME NEW c \in Conns
                 PROVE  /\ refs[c] = (IF c \in listed THEN 1 ELSE 0)
                                       + Cardinality(InQueue(c)')
                                       + (IF cur'.conn = c THEN 1 ELSE 0)
                        /\ refs[c] > 0 => c \notin freed
        BY <1>1 DEF RefsMatch, listener
    <2>1. Cardinality(InQueue(c)) =
            Cardinality(InQueue(c)') + (IF m.conn = c THEN 1 ELSE 0)
        <3>1. InQueue(c) = Held(queue, c) /\ InQueue(c)' = Held(Tail(queue), c)
            BY <1>1 DEF InQueue, Held
        <3>2. Cardinality(Held(queue, c)) =
                Cardinality(Held(Tail(queue), c)) + (IF m.conn = c THEN 1 ELSE 0)
            BY <1>1, <1>2, HeldTail DEF m
        <3> QED
            BY <3>1, <3>2
    <2>2. Cardinality(InQueue(c)') \in Nat
        <3>1. InQueue(c)' = Held(queue', c)
            BY DEF InQueue, Held
        <3> QED
            BY <1>2, <3>1, HeldFinite
    <2>3. cur'.conn = m.conn /\ cur.conn # c
        BY <1>1 DEF Nothing, Conns
    <2>4. /\ refs[c] = (IF c \in listed THEN 1 ELSE 0) + Cardinality(InQueue(c))
                         + (IF cur.conn = c THEN 1 ELSE 0)
          /\ refs[c] > 0 => c \notin freed
        BY Counted
    <2> QED
        BY <2>1, <2>2, <2>3, <2>4
<1>6. Connected'
    BY <1>1, ConnectedStays DEF sockets
<1>7. Fresh'
    BY <1>1, FreshStays DEF sockets, listener
<1> QED
    BY <1>4, <1>5, <1>6, <1>7 DEF IInv

\* The answer changes the step of the message and nothing of its client.
LEMMA AnswerStep ==
    ASSUME IInv, Answer \/ Write
    PROVE  IInv'
<1>1. /\ cur # Nothing /\ cur' \in {[cur EXCEPT !.step = "write"], [cur EXCEPT !.step = "release"]}
      /\ UNCHANGED <<env, library, conns, backlog, toServer, owner, listener, queue, served,
                     state>>
    BY DEF Answer, NoAnswer, Write, Nothing, sockets
<1>2. /\ cur \in [conn : Conns, call : Calls, step : {"answer", "write", "release"}]
      /\ cur' \in [conn : Conns, call : Calls, step : {"answer", "write", "release"}]
      /\ cur'.conn = cur.conn
    BY <1>1 DEF IInv, TypeOK
<1>3. toClient' \in [Conns -> Seq(Calls)]
    <2>1. /\ toClient \in [Conns -> Seq(Calls)] /\ cur.call \in Calls
          /\ sock \in [Clients -> Conns \cup {0}]
        BY <1>2 DEF IInv, TypeOK
    <2>2. CASE Answer
        BY <2>1, <2>2 DEF Answer, sockets
    <2>3. CASE Write
        <3> DEFINE c == owner[fd[cur.conn]]
        <3>1. CASE c # 0 /\ c \in {sock[k] : k \in Clients}
            <4>1. c \in Conns /\ toClient[c] \in Seq(Calls)
                BY <2>1, <3>1
            <4>2. toClient' = [toClient EXCEPT ![c] = Append(@, cur.call)]
                BY <2>3, <3>1 DEF Write
            <4> HIDE DEF c
            <4> QED
                BY <2>1, <4>1, <4>2
        <3>2. CASE ~(c # 0 /\ c \in {sock[k] : k \in Clients})
            BY <2>1, <2>3, <3>2 DEF Write
        <3> QED
            BY <3>1, <3>2
    <2> QED
        BY <2>2, <2>3
<1>4. TypeOK'
    BY <1>1, <1>2, <1>3 DEF IInv, TypeOK, library, listener
<1>5. RefsMatch'
    <2>1. \A c \in Conns : InQueue(c)' = InQueue(c)
        BY <1>1 DEF InQueue
    <2> QED
        BY <1>1, <1>2, <2>1 DEF IInv, RefsMatch, listener
<1>6. Connected'
    BY <1>1, ConnectedStays
<1>7. Fresh'
    BY <1>1, FreshStays DEF listener
<1> QED
    BY <1>4, <1>5, <1>6, <1>7 DEF IInv

\* The loop drops the client of the message it is done with.
LEMMA DoneStep ==
    ASSUME IInv, Done
    PROVE  IInv'
<1> DEFINE c == cur.conn
<1>1. /\ cur.step = "release" /\ Release(c) /\ cur' = Nothing
      /\ UNCHANGED <<env, library, sockets, fd, listed, closed, queue, served, state>>
    BY DEF Done
<1>2. c \in Conns
    BY <1>1 DEF IInv, TypeOK, Nothing
<1>3. refs[c] > 0
    BY <1>2, Counted
<1>4. /\ refs' \in [Conns -> Nat] /\ freed' \subseteq Conns
      /\ \A d \in Conns : refs'[d] = IF d = c THEN refs[d] - 1 ELSE refs[d]
      /\ \A d \in Conns : d \in freed' <=> d \in freed \/ (d = c /\ refs[c] = 1)
    BY <1>1, <1>2, <1>3, Released
<1>5. TypeOK'
    <2>1. refs[c] = 1 => c \notin listed
        BY <1>2, Counted
    <2>2. freed' \subseteq Conns \ listed
        BY <1>4, <2>1 DEF IInv, TypeOK
    <2> QED
        BY <1>1, <1>4, <2>2 DEF IInv, TypeOK, library, sockets
<1>6. RefsMatch'
    <2> SUFFICES ASSUME NEW d \in Conns
                 PROVE  /\ refs'[d] = (IF d \in listed THEN 1 ELSE 0)
                                        + Cardinality(InQueue(d))
                                        + (IF cur'.conn = d THEN 1 ELSE 0)
                        /\ refs'[d] > 0 => d \notin freed'
        BY <1>1 DEF RefsMatch, InQueue
    <2>1. cur'.conn # d
        BY <1>1 DEF Nothing, Conns
    <2>2. /\ refs[d] \in Nat /\ Cardinality(InQueue(d)) \in Nat
          /\ refs[d] = (IF d \in listed THEN 1 ELSE 0) + Cardinality(InQueue(d))
                         + (IF c = d THEN 1 ELSE 0)
          /\ refs[d] > 0 => d \notin freed
        BY Counted
    <2> HIDE DEF c
    <2> QED
        BY <1>4, <2>1, <2>2
<1>7. Connected'
    BY <1>1, ConnectedStays DEF sockets
<1>8. Fresh'
    BY <1>1, <1>3, <1>4, FreshStays DEF sockets
<1> QED
    BY <1>5, <1>6, <1>7, <1>8 DEF IInv

\* The end of the listener drops every client it lists.
LEMMA DestroyStep ==
    ASSUME IInv, Destroy
    PROVE  IInv'
<1>1. /\ state' = "down" /\ backlog' = <<>> /\ owner' = [f \in Fds |-> 0]
      /\ listed' = {} /\ closed' = closed \cup listed
      /\ refs' = [c \in Conns |-> IF c \in listed THEN refs[c] - 1 ELSE refs[c]]
      /\ freed' = freed \cup {c \in listed : refs[c] = 1}
      /\ UNCHANGED <<env, library, conns, toServer, toClient, fd, queue, cur, served>>
    BY DEF Destroy
<1>2. \A c \in listed : refs[c] > 0
    <2> SUFFICES ASSUME NEW c \in listed
                 PROVE  refs[c] > 0
        OBVIOUS
    <2>1. c \in Conns
        BY DEF IInv, TypeOK
    <2> QED
        BY <2>1, Counted
<1>3. TypeOK'
    <2>1. refs' \in [Conns -> Nat]
        BY <1>1, <1>2 DEF IInv, TypeOK
    <2>2. backlog' \in Seq(Conns)
        BY <1>1
    <2> QED
        BY <1>1, <2>1, <2>2 DEF IInv, TypeOK, library
<1>4. RefsMatch'
    <2> SUFFICES ASSUME NEW c \in Conns
                 PROVE  /\ refs'[c] = 0 + Cardinality(InQueue(c))
                                        + (IF cur.conn = c THEN 1 ELSE 0)
                        /\ refs'[c] > 0 => c \notin freed'
        BY <1>1 DEF RefsMatch, InQueue
    <2>1. refs'[c] = IF c \in listed THEN refs[c] - 1 ELSE refs[c]
        BY <1>1
    <2>2. /\ refs[c] \in Nat /\ Cardinality(InQueue(c)) \in Nat
          /\ refs[c] = (IF c \in listed THEN 1 ELSE 0) + Cardinality(InQueue(c))
                         + (IF cur.conn = c THEN 1 ELSE 0)
          /\ refs[c] > 0 => c \notin freed
        BY Counted
    <2> QED
        BY <1>1, <2>1, <2>2
<1>5. Connected'
    BY <1>1, ConnectedStays
<1>6. Fresh'
    BY <1>1 DEF IInv, Fresh, Unseen
<1> QED
    BY <1>3, <1>4, <1>5, <1>6 DEF IInv

-----------------------------------------------------------------------------
(* The theorems.                                                           *)

\* At first nobody is connected and nobody is held.
LEMMA InitIsCounted == Init => IInv
<1> SUFFICES ASSUME Init
             PROVE  IInv
    OBVIOUS
<1>1. TypeOK
    BY CallsAssumption, EnvsAssumption DEF Init, TypeOK
<1>2. RefsMatch
    <2> SUFFICES ASSUME NEW c \in Conns
                 PROVE  refs[c] = 0 /\ InQueue(c) = {} /\ cur.conn # c /\ c \notin listed
        BY FS_EmptySet DEF RefsMatch
    <2> QED
        BY DEF Init, InQueue, Nothing, Conns
<1>3. Connected
    <2>1. Trying = {}
        BY DEF Init, Trying
    <2> QED
        BY <2>1, FS_EmptySet DEF Init, Connected
<1>4. Fresh
    BY DEF Init, Fresh
<1> QED
    BY <1>1, <1>2, <1>3, <1>4 DEF IInv

\* Every step keeps the inductive invariant.
LEMMA StepIsCounted == IInv /\ [Next]_vars => IInv'
<1> SUFFICES ASSUME IInv, [Next]_vars
             PROVE  IInv'
    OBVIOUS
<1>1. CASE Library
    BY <1>1, LibraryStep
<1>2. CASE Accept
    BY <1>2, AcceptStep
<1>3. CASE \E c \in Conns : Read(c) \/ Hangup(c) \/ Reject(c) \/ Close(c)
    BY <1>3, ReadStep, HangupStep, CloseStep
<1>4. CASE Take
    BY <1>4, TakeStep
<1>5. CASE Answer \/ Write
    BY <1>5, AnswerStep
<1>6. CASE Done
    BY <1>6, DoneStep
<1>7. CASE Destroy
    BY <1>7, DestroyStep
<1>8. CASE Stop
    <2>1. /\ state' = "stopping"
          /\ UNCHANGED <<env, library, sockets, listener, queue, cur, served>>
        BY <1>8 DEF Stop
    <2>2. TypeOK'
        BY <2>1 DEF IInv, TypeOK, library, sockets, listener
    <2>3. RefsMatch'
        BY <2>1, RefsStay DEF listener
    <2>4. Connected'
        BY <2>1, ConnectedStays DEF sockets
    <2>5. Fresh'
        BY <2>1, FreshStays DEF sockets, listener
    <2> QED
        BY <2>2, <2>3, <2>4, <2>5 DEF IInv
<1>9. CASE UNCHANGED vars
    <2>1. TypeOK'
        BY <1>9 DEF IInv, TypeOK, vars, library, sockets, listener, server
    <2>2. RefsMatch'
        BY <1>9, RefsStay DEF vars, listener, server
    <2>3. Connected'
        BY <1>9, ConnectedStays DEF vars, sockets
    <2>4. Fresh'
        BY <1>9, FreshStays DEF vars, sockets, listener
    <2> QED
        BY <2>1, <2>2, <2>3, <2>4 DEF IInv
<1> QED
    BY <1>1, <1>2, <1>3, <1>4, <1>5, <1>6, <1>7, <1>8, <1>9 DEF Next, Listener, EventLoop

\* The inductive invariant holds, for any number of clients, calls and
\* descriptors and whatever goes wrong.
THEOREM IInvHolds == Spec => []IInv
BY InitIsCounted, StepIsCounted, PTL DEF Spec

\* Every variable has its type; a call connects twice at most, so that
\* 2 * MaxCalls connections are enough for MaxCalls calls.
THEOREM TypeOKHolds == Spec => []TypeOK
<1>1. IInv => TypeOK
    BY DEF IInv
<1> QED
    BY <1>1, IInvHolds, PTL

\* uif_client_retain and uif_client_release: the count of a client structure
\* is the number of its holders, so that none is freed while the listener, a
\* queued message or the answer under way still refers to it.
THEOREM RefsMatchHolds == Spec => []RefsMatch
<1>1. IInv => RefsMatch
    BY DEF IInv
<1> QED
    BY <1>1, IInvHolds, PTL

-----------------------------------------------------------------------------
(* The inductive invariant of patient clients.                             *)

\* As long as the server is there, every connection is the socket of a client,
\* is accepted or will be, and has its descriptor for itself.
Steady ==
    /\ \A k \in Clients : sock[k] <= conns /\ tries[k] # 2
    /\ \A k, l \in Clients : sock[k] = sock[l] /\ sock[k] # 0 => k = l
    /\ \A c \in Conns : c > conns => toClient[c] = <<>>
    /\ state # "up" => cur = Nothing
    /\ state # "down" =>
        /\ closed = {}
        /\ \A c \in Conns : c <= conns => \E k \in Clients : sock[k] = c
        /\ \A c \in Conns : c <= conns => c \in listed \/ \E i \in DOMAIN backlog : backlog[i] = c
        /\ \A c \in listed : fd[c] \in Fds /\ owner[fd[c]] = c
        /\ \A i \in DOMAIN queue : queue[i].conn \in listed
        /\ cur # Nothing => cur.conn \in listed

\* A call that waits to be carried out waits in one place and was not begun.
Waiting ==
    /\ \A n \in Calls : served[n] \in {0, 1} /\ (n > calls => served[n] = 0)
    /\ \A c \in Conns : \A i \in DOMAIN toServer[c] :
        /\ toServer[c][i] <= calls /\ served[toServer[c][i]] = 0
        /\ \A d \in Conns : \A j \in DOMAIN toServer[d] :
            toServer[c][i] = toServer[d][j] => c = d /\ i = j
        /\ \A j \in DOMAIN queue : toServer[c][i] # queue[j].call
    /\ \A i \in DOMAIN queue :
        /\ queue[i].call <= calls /\ served[queue[i].call] = 0
        /\ \A j \in DOMAIN queue : queue[i].call = queue[j].call => i = j

\* What is on its way on the connection of a client belongs to the call it is
\* in, and to none if it is in none.
Owned(k) ==
    LET c == sock[k]
        n == call[k]
    IN  /\ \A i \in DOMAIN toServer[c] : toServer[c][i] = n
        /\ \A i \in DOMAIN queue : queue[i].conn = c => queue[i].call = n
        /\ cur.conn = c /\ cur.step # "release" =>
            cur.call = n /\ served[n] = 1 /\ toClient[c] = <<>>
        /\ toClient[c] # <<>> => toClient[c] = <<n>> /\ served[n] = 1

AllOwned == \A k \in Clients : sock[k] # 0 => Owned(k)

Orderly == Steady /\ Waiting /\ AllOwned /\ OwnAnswer

PatientInv == IInv /\ (Patient => Orderly)

-----------------------------------------------------------------------------
(* What the steps below rest on.                                           *)

\* The types by name.
LEMMA Types ==
    ASSUME IInv
    PROVE  /\ call \in [Clients -> 0..MaxCalls] /\ tries \in [Clients -> 0..2]
           /\ sock \in [Clients -> Conns \cup {0}]
           /\ \A k \in Clients : sock[k] \in Nat
           /\ calls \in Nat /\ conns \in Nat /\ MaxCalls \in Nat
           /\ Conns \subseteq Nat \ {0} /\ Calls \subseteq Nat \ {0}
           /\ backlog \in Seq(Conns)
           /\ toServer \in [Conns -> Seq(Calls)] /\ toClient \in [Conns -> Seq(Calls)]
           /\ queue \in Seq(Message) /\ served \in [Calls -> Nat]
           /\ listed \subseteq Conns
           /\ \A i \in DOMAIN queue : queue[i].conn \in Conns /\ queue[i].call \in Calls
           /\ \A c \in Conns : \A i \in DOMAIN toServer[c] : toServer[c][i] \in Calls
           /\ cur # Nothing => cur.conn \in Conns /\ cur.call \in Calls
           /\ cur = Nothing => cur.conn = 0
<1>1. TypeOK /\ MaxCalls \in Nat
    BY CallsAssumption DEF IInv
<1>2. Conns \subseteq Nat \ {0} /\ Calls \subseteq Nat \ {0}
    BY <1>1 DEF Conns, Calls
<1>3. \A i \in DOMAIN queue : queue[i] \in Message
    BY <1>1 DEF TypeOK
<1>4. \A c \in Conns : \A i \in DOMAIN toServer[c] : toServer[c][i] \in Calls
    BY <1>1 DEF TypeOK
<1>5. calls \in Nat /\ conns \in Nat
    BY <1>1, RoomToDial
<1>6. cur # Nothing => cur.conn \in Conns /\ cur.call \in Calls
    BY <1>1 DEF TypeOK
<1>7. cur = Nothing => cur.conn = 0
    BY DEF Nothing
<1>8. \A k \in Clients : sock[k] \in Nat
    <2>1. Conns \cup {0} \subseteq Nat
        BY <1>1 DEF Conns
    <2> QED
        BY <1>1, <2>1 DEF TypeOK
<1> QED
    BY <1>1, <1>2, <1>3, <1>4, <1>5, <1>6, <1>7, <1>8 DEF TypeOK, Message

\* A client is not cut off before the server is down.
LEMMA NotBroken ==
    ASSUME IInv, Steady, state # "down", NEW k \in Clients, call[k] # 0
    PROVE  ~Broken(k)
<1> DEFINE c == sock[k]
<1>1. c \in Conns /\ c <= conns
    BY Types DEF IInv, Connected, Steady
<1>2. CASE \E i \in DOMAIN backlog : backlog[i] = c
    BY <1>2 DEF Broken, HasHung
<1>3. CASE c \in listed
    BY <1>3 DEF Broken, HasHung, Hung, Steady
<1> QED
    BY <1>1, <1>2, <1>3 DEF Steady

\* A client that waits in no call has nothing on its way.
LEMMA IdleIsEmpty ==
    ASSUME IInv, NEW k \in Clients, sock[k] # 0, call[k] = 0, Owned(k)
    PROVE  /\ toServer[sock[k]] = <<>> /\ toClient[sock[k]] = <<>>
           /\ \A i \in DOMAIN queue : queue[i].conn # sock[k]
           /\ ~(cur.conn = sock[k] /\ cur.step # "release")
<1> DEFINE c == sock[k]
<1>1. c \in Conns /\ toServer[c] \in Seq(Calls) /\ toClient[c] \in Seq(Calls) /\ 0 \notin Calls
    BY Types
<1>2. /\ \A i \in DOMAIN toServer[c] : toServer[c][i] = 0
      /\ \A i \in DOMAIN queue : queue[i].conn = c => queue[i].call = 0
      /\ cur.conn = c /\ cur.step # "release" => cur.call = 0
      /\ toClient[c] # <<>> => toClient[c] = <<0>>
    BY DEF Owned
<1>3. toServer[c] = <<>>
    <2>1. \A i \in DOMAIN toServer[c] : toServer[c][i] \in Calls
        BY <1>1
    <2>2. 1 \notin DOMAIN toServer[c]
        BY <1>1, <1>2, <2>1
    <2>3. toServer[c] # <<>> => 1 \in DOMAIN toServer[c]
        BY <1>1
    <2> QED
        BY <2>2, <2>3
<1>4. toClient[c] = <<>>
    <2>1. <<0>> \notin Seq(Calls)
        <3>1. <<0>> \in Seq(Calls) => <<0>>[1] \in Calls
            OBVIOUS
        <3> QED
            BY <1>1, <3>1
    <2> QED
        BY <1>1, <1>2, <2>1
<1>5. \A i \in DOMAIN queue : queue[i].conn # c
    BY <1>1, <1>2, Types
<1>6. ~(cur.conn = c /\ cur.step # "release")
    BY <1>1, <1>2, Types
<1> QED
    BY <1>3, <1>4, <1>5, <1>6

-----------------------------------------------------------------------------
(* The steps of the clients.                                               *)

\* A call begins on a connection that nothing is on its way on, and that no
\* other client has.
LEMMA BeginsAlone ==
    ASSUME IInv, Orderly, NEW k \in Clients, Begin(k)
    PROVE  /\ sock'[k] \in Conns /\ sock'[k] <= conns'
           /\ sock' = [sock EXCEPT ![k] = sock'[k]]
           /\ toServer' = [toServer EXCEPT ![sock'[k]] = <<calls + 1>>]
           /\ \A l \in Clients : l # k => sock[l] # sock'[k]
           /\ \A i \in DOMAIN queue : queue[i].conn # sock'[k]
           /\ ~(cur.conn = sock'[k] /\ cur.step # "release")
           /\ toClient[sock'[k]] = <<>>
           /\ \/ UNCHANGED <<sock, conns, backlog>>
              \/ /\ state # "down" /\ sock[k] = 0
                 /\ conns' = conns + 1 /\ sock'[k] = conns + 1
                 /\ backlog' = Append(backlog, conns + 1)
<1>1. /\ sock \in [Clients -> Conns \cup {0}] /\ conns \in Nat /\ Conns \subseteq Nat \ {0}
      /\ toServer \in [Conns -> Seq(Calls)]
    BY Types
<1>2. \A l \in Clients : sock[l] <= conns
    BY DEF Orderly, Steady
<1>3. CASE /\ sock[k] # 0 /\ UNCHANGED <<sock, conns, backlog>>
           /\ toServer' = [toServer EXCEPT ![sock[k]] = Append(@, calls + 1)]
    <2>1. /\ toServer[sock[k]] = <<>> /\ toClient[sock[k]] = <<>>
          /\ \A i \in DOMAIN queue : queue[i].conn # sock[k]
          /\ ~(cur.conn = sock[k] /\ cur.step # "release")
        BY <1>3, IdleIsEmpty DEF Orderly, AllOwned, Begin
    <2>2. toServer' = [toServer EXCEPT ![sock[k]] = <<calls + 1>>]
        BY <1>1, <1>3, <2>1
    <2>3. \A l \in Clients : l # k => sock[l] # sock[k]
        BY <1>3 DEF Orderly, Steady
    <2>4. sock'[k] = sock[k] /\ sock[k] \in Conns /\ conns' = conns
        BY <1>1, <1>3
    <2>5. sock' = [sock EXCEPT ![k] = sock'[k]]
        BY <1>1, <1>3
    <2>6. toServer' = [toServer EXCEPT ![sock'[k]] = <<calls + 1>>]
        BY <2>2, <2>4
    <2>7. sock'[k] \in Conns /\ sock'[k] <= conns' /\ toClient[sock'[k]] = <<>>
        BY <1>2, <2>1, <2>4
    <2> QED
        BY <1>3, <2>1, <2>3, <2>4, <2>5, <2>6, <2>7
<1>4. CASE sock[k] = 0 /\ Dial(k, calls + 1)
    <2> DEFINE c == conns + 1
    <2>1. c \in Conns
        BY RoomToDial DEF Begin
    <2>2. /\ state # "down" /\ conns' = c /\ sock' = [sock EXCEPT ![k] = c] /\ sock'[k] = c
          /\ toServer' = [toServer EXCEPT ![c] = <<calls + 1>>]
          /\ backlog' = Append(backlog, c)
        BY <1>1, <1>4 DEF Dial
    <2>3. c > conns /\ c <= conns'
        BY <1>1, <2>2
    <2>4. c \notin listed
        BY <2>1, <2>3, Counted DEF Unseen
    <2>5. /\ \A i \in DOMAIN queue : queue[i].conn # c
          /\ cur.conn # c
        <3>1. /\ \A i \in DOMAIN queue : queue[i].conn \in listed
              /\ cur # Nothing => cur.conn \in listed
            BY <2>2 DEF Orderly, Steady
        <3>2. cur = Nothing => cur.conn = 0
            BY Types
        <3>3. c # 0
            BY <1>1, <2>1
        <3> QED
            BY <2>4, <3>1, <3>2, <3>3
    <2>6. toClient[c] = <<>>
        BY <2>1, <2>3 DEF Orderly, Steady
    <2>7. \A l \in Clients : sock[l] # c
        BY <1>1, <1>2, <2>3
    <2> HIDE DEF c
    <2>8. /\ sock' = [sock EXCEPT ![k] = sock'[k]]
          /\ toServer' = [toServer EXCEPT ![sock'[k]] = <<calls + 1>>]
        BY <2>2
    <2> QED
        BY <1>4, <2>1, <2>2, <2>3, <2>5, <2>6, <2>7, <2>8 DEF c
<1> QED
    BY <1>3, <1>4 DEF Begin

\* The new connection of a call, if it makes one, is steady.
LEMMA BeginIsSteady ==
    ASSUME IInv, Orderly, NEW k \in Clients, Begin(k)
    PROVE  Steady'
<1> DEFINE c == sock'[k]
<1>1. /\ c \in Conns /\ c <= conns' /\ sock' = [sock EXCEPT ![k] = c]
      /\ \A l \in Clients : l # k => sock[l] # c
      /\ toClient[c] = <<>>
      /\ \/ UNCHANGED <<sock, conns, backlog>>
         \/ /\ state # "down" /\ sock[k] = 0 /\ conns' = conns + 1 /\ c = conns + 1
            /\ backlog' = Append(backlog, conns + 1)
    BY BeginsAlone
<1>2. /\ tries' = [tries EXCEPT ![k] = 1]
      /\ UNCHANGED <<toClient, owner, listener, server>>
    BY DEF Begin
<1>3. /\ sock \in [Clients -> Conns \cup {0}] /\ tries \in [Clients -> 0..2]
      /\ conns \in Nat /\ Conns \subseteq Nat \ {0} /\ backlog \in Seq(Conns)
    BY Types
<1> HIDE DEF c
<1>4. conns' \in Nat /\ conns <= conns' /\ \A d \in Conns : d <= conns' => d <= conns \/ d = c
    BY <1>1, <1>3
<1>5. ASSUME NEW l \in Clients PROVE sock'[l] <= conns' /\ tries'[l] # 2
    <2>1. sock[l] <= conns /\ tries[l] # 2
        BY DEF Orderly, Steady
    <2>3. sock[l] \in Nat
        BY Types
    <2>2. sock'[l] = (IF l = k THEN c ELSE sock[l]) /\ tries'[l] = (IF l = k THEN 1 ELSE tries[l])
        BY <1>1, <1>2, <1>3
    <2> QED
        BY <1>1, <1>3, <1>4, <2>1, <2>2, <2>3
<1>6. \A l, m \in Clients : sock'[l] = sock'[m] /\ sock'[l] # 0 => l = m
    BY <1>1, <1>3 DEF Orderly, Steady
<1>7. ASSUME NEW d \in Conns, d > conns' PROVE toClient[d] = <<>>
    <2>1. d > conns
        BY <1>3, <1>4, <1>7
    <2> QED
        BY <2>1 DEF Orderly, Steady
<1>8. ASSUME NEW d \in Conns, state # "down", d <= conns' PROVE \E l \in Clients : sock'[l] = d
    <2>1. CASE d = c
        BY <1>1, <1>3, <2>1
    <2>2. CASE d # c
        <3>1. PICK l \in Clients : sock[l] = d
            BY <1>4, <1>8, <2>2 DEF Orderly, Steady
        <3>2. l # k \/ sock' = sock
            BY <1>1, <1>3, <3>1
        <3> QED
            BY <1>1, <1>3, <3>1, <3>2
    <2> QED
        BY <2>1, <2>2
<1>9. ASSUME NEW d \in Conns, state # "down", d <= conns'
      PROVE  d \in listed \/ \E i \in DOMAIN backlog' : backlog'[i] = d
    <2>1. CASE UNCHANGED <<conns, backlog>>
        BY <1>9, <2>1 DEF Orderly, Steady
    <2>2. CASE conns' = conns + 1 /\ c = conns + 1 /\ backlog' = Append(backlog, conns + 1)
        <3>1. /\ Len(backlog) \in Nat /\ DOMAIN backlog = 1..Len(backlog)
              /\ DOMAIN backlog' = 1..(Len(backlog) + 1)
              /\ \A i \in 1..Len(backlog) : backlog'[i] = backlog[i]
              /\ backlog'[Len(backlog) + 1] = c
            BY <1>3, <2>2
        <3>2. CASE d = c
            BY <3>1, <3>2
        <3>3. CASE d # c
            <4>1. d \in listed \/ \E i \in DOMAIN backlog : backlog[i] = d
                BY <1>4, <1>9, <3>3 DEF Orderly, Steady
            <4>2. DOMAIN backlog \subseteq DOMAIN backlog'
                BY <3>1
            <4> QED
                BY <3>1, <4>1, <4>2
        <3> QED
            BY <3>2, <3>3
    <2> QED
        BY <1>1, <2>1, <2>2
<1> QED
    BY <1>2, <1>5, <1>6, <1>7, <1>8, <1>9 DEF Orderly, Steady, listener, server

\* A new call waits on its connection and nowhere else.
LEMMA BeginStep ==
    ASSUME IInv, Orderly, NEW k \in Clients, Begin(k)
    PROVE  Orderly'
<1> DEFINE c == sock'[k]
           n == calls + 1
<1>1. /\ c \in Conns /\ sock' = [sock EXCEPT ![k] = c]
      /\ toServer' = [toServer EXCEPT ![c] = <<n>>]
      /\ \A l \in Clients : l # k => sock[l] # c
      /\ \A i \in DOMAIN queue : queue[i].conn # c
      /\ ~(cur.conn = c /\ cur.step # "release")
      /\ toClient[c] = <<>>
    BY BeginsAlone
<1>2. /\ calls' = n /\ call' = [call EXCEPT ![k] = n] /\ calls < MaxCalls
      /\ UNCHANGED <<returned, toClient, queue, cur, served>>
    BY DEF Begin, server
<1>3. /\ sock \in [Clients -> Conns \cup {0}] /\ call \in [Clients -> 0..MaxCalls]
      /\ calls \in Nat /\ MaxCalls \in Nat /\ Calls \subseteq Nat
      /\ toServer \in [Conns -> Seq(Calls)]
      /\ \A i \in DOMAIN queue : queue[i].call \in Calls
      /\ \A d \in Conns : \A i \in DOMAIN toServer[d] : toServer[d][i] \in Calls
    BY Types
<1>4. n \in Calls /\ n > calls
    BY <1>2, <1>3 DEF Calls
<1>5. served[n] = 0
    BY <1>4 DEF Orderly, Waiting
<1> HIDE DEF c, n
<1>6. /\ DOMAIN toServer'[c] = {1} /\ toServer'[c][1] = n
      /\ \A d \in Conns : d # c => toServer'[d] = toServer[d]
    <2>1. toServer'[c] = <<n>>
        BY <1>1, <1>3
    <2>2. DOMAIN <<n>> = {1}
        OBVIOUS
    <2> QED
        BY <1>1, <1>3, <2>1, <2>2
<1>7. Waiting'
    <2>1. ASSUME NEW m \in Calls PROVE served[m] \in {0, 1} /\ (m > n => served[m] = 0)
        <3>1. served[m] \in {0, 1} /\ (m > calls => served[m] = 0)
            BY DEF Orderly, Waiting
        <3>2. m > n => m > calls
            BY <1>3, <1>4
        <3> QED
            BY <3>1, <3>2
    <2>2. ASSUME NEW d \in Conns, d # c, NEW i \in DOMAIN toServer[d]
          PROVE  /\ toServer[d][i] <= calls /\ toServer[d][i] < n
                 /\ served[toServer[d][i]] = 0 /\ toServer[d][i] # n
        <3>1. toServer[d][i] <= calls /\ served[toServer[d][i]] = 0 /\ toServer[d][i] \in Nat
            BY <1>3 DEF Orderly, Waiting
        <3> QED
            BY <1>3, <1>4, <3>1 DEF Calls
    <2>3. ASSUME NEW i \in DOMAIN queue
          PROVE  queue[i].call <= n /\ queue[i].call # n
        <3>1. queue[i].call <= calls /\ queue[i].call \in Nat
            BY <1>3 DEF Orderly, Waiting
        <3> QED
            BY <1>3, <1>4, <3>1 DEF Calls
    <2>4. ASSUME NEW d \in Conns, NEW i \in DOMAIN toServer'[d]
          PROVE  /\ toServer'[d][i] <= n /\ served[toServer'[d][i]] = 0
                 /\ \A e \in Conns : \A j \in DOMAIN toServer'[e] :
                      toServer'[d][i] = toServer'[e][j] => d = e /\ i = j
                 /\ \A j \in DOMAIN queue : toServer'[d][i] # queue[j].call
        <3>1. CASE d = c
            <4>1. i = 1 /\ toServer'[d][i] = n /\ n <= n
                BY <1>3, <1>4, <1>6, <2>4, <3>1
            <4>2. ASSUME NEW e \in Conns, NEW j \in DOMAIN toServer'[e], toServer'[e][j] = n
                  PROVE  e = c /\ j = 1
                <5>1. CASE e = c
                    BY <1>6, <4>2, <5>1
                <5>2. CASE e # c
                    BY <1>6, <2>2, <4>2, <5>2
                <5> QED
                    BY <5>1, <5>2
            <4> QED
                BY <1>5, <2>3, <3>1, <4>1, <4>2
        <3>2. CASE d # c
            <4>1. toServer'[d] = toServer[d] /\ i \in DOMAIN toServer[d]
                BY <1>6, <2>4, <3>2
            <4>2. /\ toServer[d][i] < n /\ served[toServer[d][i]] = 0 /\ toServer[d][i] # n
                  /\ toServer[d][i] \in Nat
                BY <1>3, <2>2, <3>2, <4>1
            <4>3. \A j \in DOMAIN queue : toServer[d][i] # queue[j].call
                BY <4>1 DEF Orderly, Waiting
            <4>4. ASSUME NEW e \in Conns, NEW j \in DOMAIN toServer'[e],
                         toServer[d][i] = toServer'[e][j]
                  PROVE  d = e /\ i = j
                <5>1. e # c
                    BY <1>6, <4>2, <4>4
                <5> QED
                    BY <1>6, <4>1, <4>4, <5>1 DEF Orderly, Waiting
            <4> QED
                BY <1>3, <1>4, <4>1, <4>2, <4>3, <4>4
        <3> QED
            BY <3>1, <3>2
    <2>5. ASSUME NEW i \in DOMAIN queue
          PROVE  /\ queue[i].call <= n /\ served[queue[i].call] = 0
                 /\ \A j \in DOMAIN queue : queue[i].call = queue[j].call => i = j
        <3>1. queue[i].call <= n
            BY <2>3
        <3> QED
            BY <3>1 DEF Orderly, Waiting
    <2> QED
        BY <1>2, <2>1, <2>4, <2>5 DEF Waiting
<1>8. AllOwned'
    <2> SUFFICES ASSUME NEW l \in Clients, sock'[l] # 0
                 PROVE  Owned(l)'
        BY DEF AllOwned
    <2>1. CASE l = k
        <3>1. sock'[l] = c /\ call'[l] = n
            BY <1>1, <1>2, <1>3, <2>1
        <3> QED
            BY <1>1, <1>2, <1>6, <3>1 DEF Owned
    <2>2. CASE l # k
        <3>1. /\ sock'[l] = sock[l] /\ call'[l] = call[l] /\ sock[l] \in Conns /\ sock[l] # c
              /\ toServer'[sock[l]] = toServer[sock[l]]
            BY <1>1, <1>2, <1>3, <1>6, <2>2
        <3>2. Owned(l)
            BY <2>2, <3>1 DEF Orderly, AllOwned
        <3> QED
            BY <1>2, <3>1, <3>2 DEF Owned
    <2> QED
        BY <2>1, <2>2
<1>9. OwnAnswer'
    BY <1>2 DEF Orderly, OwnAnswer
<1> QED
    BY <1>7, <1>8, <1>9, BeginIsSteady DEF Orderly

\* A client that returns has the answer to its call, and nothing else is on its
\* way.
LEMMA ReceiveStep ==
    ASSUME IInv, Orderly, NEW k \in Clients, Receive(k)
    PROVE  Orderly'
<1> DEFINE c == sock[k]
           n == call[k]
<1>1. /\ n # 0 /\ toClient[c] # <<>>
      /\ returned' = [returned EXCEPT ![k] = [asked |-> n, told |-> Head(toClient[c])]]
      /\ toClient' = [toClient EXCEPT ![c] = Tail(@)]
      /\ call' = [call EXCEPT ![k] = 0]
      /\ UNCHANGED <<tries, sock, calls, conns, backlog, toServer, owner, listener, server>>
    BY DEF Receive
<1>2. /\ sock \in [Clients -> Conns \cup {0}] /\ call \in [Clients -> 0..MaxCalls]
      /\ toClient \in [Conns -> Seq(Calls)] /\ Calls = 1..MaxCalls
    BY Types DEF Calls
<1>3. c # 0 /\ c \in Conns /\ n \in Calls
    BY <1>1, <1>2 DEF IInv, Connected
<1>4. Owned(k) /\ toClient[c] = <<n>> /\ served[n] = 1
    <2>1. Owned(k)
        BY <1>3 DEF Orderly, AllOwned
    <2> QED
        BY <1>1, <2>1 DEF Owned
<1>5. /\ Head(toClient[c]) = n /\ toClient'[c] = <<>>
      /\ \A d \in Conns : d # c => toClient'[d] = toClient[d]
    BY <1>1, <1>2, <1>3, <1>4
<1>6. Steady'
    BY <1>1, <1>5 DEF Orderly, Steady, listener, server
<1>7. Waiting'
    BY <1>1 DEF Orderly, Waiting, server
<1>8. AllOwned'
    <2> SUFFICES ASSUME NEW l \in Clients, sock[l] # 0
                 PROVE  Owned(l)'
        BY <1>1 DEF AllOwned
    <2>1. CASE l = k
        <3>1. \A i \in DOMAIN toServer[c] : FALSE
            BY <1>3, <1>4 DEF Owned, Orderly, Waiting
        <3>2. \A i \in DOMAIN queue : queue[i].conn # c
            BY <1>4 DEF Owned, Orderly, Waiting
        <3>3. ~(cur.conn = c /\ cur.step # "release")
            BY <1>1, <1>4 DEF Owned
        <3>4. sock'[l] = c /\ call'[l] = 0
            BY <1>1, <1>2, <2>1
        <3> QED
            BY <1>1, <1>5, <3>1, <3>2, <3>3, <3>4 DEF Owned, server
    <2>2. CASE l # k
        <3>1. sock[l] \in Conns /\ sock[l] # c
            BY <1>2, <1>3, <2>2 DEF Orderly, Steady
        <3>2. sock'[l] = sock[l] /\ call'[l] = call[l] /\ toClient'[sock[l]] = toClient[sock[l]]
            BY <1>1, <1>2, <1>5, <2>2, <3>1
        <3>3. Owned(l)
            BY DEF Orderly, AllOwned
        <3> QED
            BY <1>1, <3>2, <3>3 DEF Owned, server
    <2> QED
        BY <2>1, <2>2
<1>9. OwnAnswer'
    <2>1. returned \in [Clients -> [asked : 0..MaxCalls, told : 0..MaxCalls]]
        BY DEF IInv, TypeOK
    <2> QED
        BY <1>1, <1>5, <2>1 DEF Orderly, OwnAnswer
<1> QED
    BY <1>6, <1>7, <1>8, <1>9 DEF Orderly

\* A patient client sends its call again when the server is down only, and that
\* comes to nothing.
LEMMA RetryStep ==
    ASSUME IInv, Orderly, Patient, NEW k \in Clients, Retry(k)
    PROVE  Orderly'
<1>1. call[k] # 0 /\ Broken(k)
    BY DEF Retry, Broken, Late, Patient
<1>2. state = "down"
    BY <1>1, NotBroken DEF Orderly
<1>3. /\ sock' = [sock EXCEPT ![k] = 0] /\ call' = [call EXCEPT ![k] = 0]
      /\ UNCHANGED <<tries, conns, backlog, toServer>>
      /\ UNCHANGED <<calls, returned, toClient, owner, listener, server>>
    BY <1>2 DEF Retry, Dial
<1>4. /\ sock \in [Clients -> Conns \cup {0}] /\ call \in [Clients -> 0..MaxCalls]
      /\ \A l \in Clients : sock[l] \in Nat /\ conns \in Nat
    BY Types
<1>5. \A l \in Clients : IF l = k THEN sock'[l] = 0 ELSE sock'[l] = sock[l] /\ call'[l] = call[l]
    BY <1>3, <1>4
<1>6. Steady'
    <2>1. \A l \in Clients : sock'[l] <= conns /\ tries[l] # 2
        BY <1>4, <1>5 DEF Orderly, Steady
    <2>2. \A l, m \in Clients : sock'[l] = sock'[m] /\ sock'[l] # 0 => l = m
        BY <1>5 DEF Orderly, Steady
    <2> QED
        BY <1>2, <1>3, <2>1, <2>2 DEF Orderly, Steady, server
<1>7. Waiting'
    BY <1>3 DEF Orderly, Waiting, server
<1>8. AllOwned'
    <2> SUFFICES ASSUME NEW l \in Clients, sock'[l] # 0
                 PROVE  Owned(l)'
        BY DEF AllOwned
    <2>1. sock'[l] = sock[l] /\ call'[l] = call[l] /\ Owned(l)
        BY <1>5 DEF Orderly, AllOwned
    <2> QED
        BY <1>3, <2>1 DEF Owned, server
<1>9. OwnAnswer'
    BY <1>3 DEF Orderly, OwnAnswer
<1> QED
    BY <1>6, <1>7, <1>8, <1>9 DEF Orderly

-----------------------------------------------------------------------------
(* The steps of the listener.                                              *)

\* An accepted connection has a descriptor that no other one has.
LEMMA AcceptIsOrderly ==
    ASSUME IInv, Orderly, Patient, Accept
    PROVE  Orderly'
<1> DEFINE h == Head(backlog)
<1>1. PICK f \in Fds :
        /\ owner[f] = 0
        /\ owner' = [owner EXCEPT ![f] = h] /\ fd' = [fd EXCEPT ![h] = f]
        /\ listed' = listed \cup {h}
    BY DEF Accept, Patient
<1>2. /\ state # "down" /\ backlog # <<>> /\ backlog' = Tail(backlog)
      /\ UNCHANGED <<library, conns, toServer, toClient, closed, server>>
    BY DEF Accept
<1>3. h \in Conns /\ Unseen(h)
    BY <1>2, AcceptedOnce
<1>4. h \notin listed
    BY <1>3, Counted
<1>5. /\ owner \in [Fds -> Conns \cup {0}] /\ fd \in [Conns -> Fds \cup {0}]
      /\ backlog \in Seq(Conns) /\ Conns \subseteq Nat \ {0} /\ listed \subseteq Conns
    BY Types DEF IInv, TypeOK
<1>6. \A d \in Conns : (\E i \in DOMAIN backlog : backlog[i] = d)
                         => d = h \/ \E i \in DOMAIN backlog' : backlog'[i] = d
    <2> SUFFICES ASSUME NEW d \in Conns, NEW i \in DOMAIN backlog, backlog[i] = d, d # h
                 PROVE  \E j \in DOMAIN backlog' : backlog'[j] = d
        OBVIOUS
    <2>1. /\ Len(backlog) \in Nat /\ DOMAIN backlog = 1..Len(backlog) /\ h = backlog[1]
          /\ DOMAIN backlog' = 1..(Len(backlog) - 1)
          /\ \A j \in 1..(Len(backlog) - 1) : backlog'[j] = backlog[j + 1]
        BY <1>2, <1>5
    <2>2. i \in Nat /\ i # 1 /\ i - 1 \in DOMAIN backlog' /\ (i - 1) + 1 = i
        BY <2>1
    <2> QED
        BY <2>1, <2>2
<1> HIDE DEF h
<1>7. Steady'
    <2>1. \A d \in listed' : fd'[d] \in Fds /\ owner'[fd'[d]] = d
        <3> SUFFICES ASSUME NEW d \in listed'
                     PROVE  fd'[d] \in Fds /\ owner'[fd'[d]] = d
            OBVIOUS
        <3>1. CASE d = h
            BY <1>1, <1>3, <1>5, <3>1
        <3>2. CASE d # h
            <4>1. d \in listed /\ d # 0 /\ d \in Conns
                BY <1>1, <1>5, <3>2
            <4>2. fd[d] \in Fds /\ owner[fd[d]] = d
                BY <1>2, <4>1 DEF Orderly, Steady
            <4>3. fd'[d] = fd[d] /\ fd[d] # f
                BY <1>1, <1>5, <3>2, <4>1, <4>2
            <4> QED
                BY <1>1, <1>5, <4>2, <4>3
        <3> QED
            BY <3>1, <3>2
    <2>2. \A d \in Conns : d <= conns => d \in listed' \/ \E i \in DOMAIN backlog' : backlog'[i] = d
        BY <1>1, <1>2, <1>6 DEF Orderly, Steady
    <2> QED
        BY <1>1, <1>2, <2>1, <2>2 DEF Orderly, Steady, library, server
<1>8. Waiting' /\ AllOwned' /\ OwnAnswer'
    BY <1>2 DEF Orderly, Waiting, AllOwned, Owned, OwnAnswer, library, server
<1> QED
    BY <1>7, <1>8 DEF Orderly

\* A request that is read waits in the queue and no longer in the socket.
LEMMA ReadIsOrderly ==
    ASSUME IInv, Orderly, Patient, NEW c \in Conns, Read(c)
    PROVE  Orderly'
<1> DEFINE n == Head(toServer[c])
           m == [conn |-> c, call |-> n]
<1>1. /\ c \in listed /\ toServer[c] # <<>>
      /\ toServer' = [toServer EXCEPT ![c] = Tail(@)]
      /\ queue' = Append(queue, m)
      /\ UNCHANGED <<library, conns, backlog, toClient, owner, fd, listed, closed, cur, served,
                     state>>
    BY DEF Read, Refuse, Enqueue, Patient
<1>2. /\ toServer \in [Conns -> Seq(Calls)] /\ queue \in Seq(Message)
    BY Types
<1>3. /\ toServer[c] \in Seq(Calls) /\ 1 \in DOMAIN toServer[c] /\ n = toServer[c][1]
      /\ n \in Calls /\ m \in Message /\ m.conn = c /\ m.call = n
      /\ toServer'[c] = Tail(toServer[c])
      /\ \A d \in Conns : d # c => toServer'[d] = toServer[d]
    BY <1>1, <1>2 DEF Message
<1>4. /\ \A i \in DOMAIN toServer'[c] : /\ i + 1 \in DOMAIN toServer[c] /\ i + 1 # 1
                                        /\ toServer'[c][i] = toServer[c][i + 1]
      /\ DOMAIN toServer'[c] \subseteq Nat
    BY <1>3
<1>5. /\ DOMAIN queue' = DOMAIN queue \cup {Len(queue) + 1}
      /\ Len(queue) + 1 \notin DOMAIN queue
      /\ \A i \in DOMAIN queue : queue'[i] = queue[i]
      /\ queue'[Len(queue) + 1] = m
    BY <1>1, <1>2, <1>3
<1> DEFINE last == Len(queue) + 1
<1> HIDE DEF n, m, last
<1>6. Steady'
    <2>1. state # "down" => \A i \in DOMAIN queue' : queue'[i].conn \in listed
        BY <1>1, <1>3, <1>5 DEF Orderly, Steady, last
    <2> QED
        BY <1>1, <2>1 DEF Orderly, Steady, library
<1>7. ASSUME NEW d \in Conns, NEW i \in DOMAIN toServer'[d]
      PROVE  \E j \in DOMAIN toServer[d] :
                /\ toServer'[d][i] = toServer[d][j]
                /\ d = c => j = i + 1 /\ j # 1
                /\ d # c => j = i
    BY <1>3, <1>4, <1>7
<1>8. /\ n <= calls /\ served[n] = 0
      /\ \A j \in DOMAIN queue : queue[j].call # n
      /\ \A d \in Conns : \A j \in DOMAIN toServer[d] : toServer[d][j] = n => d = c /\ j = 1
    BY <1>3 DEF Orderly, Waiting
<1>9. \A i \in DOMAIN queue' : i = last \/ (i \in DOMAIN queue /\ queue'[i] = queue[i])
    BY <1>5 DEF last
<1>10. last \notin DOMAIN queue /\ queue'[last] = m
    BY <1>5 DEF last
<1>11. Waiting'
    <2>1. ASSUME NEW d \in Conns, NEW i \in DOMAIN toServer'[d]
          PROVE  /\ toServer'[d][i] <= calls /\ served[toServer'[d][i]] = 0
                 /\ \A e \in Conns : \A k \in DOMAIN toServer'[e] :
                      toServer'[d][i] = toServer'[e][k] => d = e /\ i = k
                 /\ \A k \in DOMAIN queue' : toServer'[d][i] # queue'[k].call
        <3>1. PICK j \in DOMAIN toServer[d] :
                /\ toServer'[d][i] = toServer[d][j]
                /\ d = c => j = i + 1 /\ j # 1
                /\ d # c => j = i
            BY <1>7, <2>1
        <3>2. toServer[d][j] <= calls /\ served[toServer[d][j]] = 0
            BY DEF Orderly, Waiting
        <3>3. ASSUME NEW e \in Conns, NEW k \in DOMAIN toServer'[e],
                     toServer'[d][i] = toServer'[e][k]
              PROVE  d = e /\ i = k
            <4>1. PICK j2 \in DOMAIN toServer[e] :
                    /\ toServer'[e][k] = toServer[e][j2]
                    /\ e = c => j2 = k + 1
                    /\ e # c => j2 = k
                BY <1>7, <3>3
            <4>2. d = e /\ j = j2
                <5>1. toServer[d][j] = toServer[e][j2]
                    BY <3>1, <3>3, <4>1
                <5> QED
                    BY <5>1 DEF Orderly, Waiting
            <4>3. d = c => i \in Nat /\ k \in Nat
                BY <1>4, <2>1, <3>3, <4>2
            <4> QED
                BY <3>1, <4>1, <4>2, <4>3
        <3>4. ASSUME NEW k \in DOMAIN queue' PROVE toServer[d][j] # queue'[k].call
            <4>1. CASE k = last
                BY <1>3, <1>8, <1>10, <3>1, <4>1
            <4>2. CASE k \in DOMAIN queue /\ queue'[k] = queue[k]
                BY <4>2 DEF Orderly, Waiting
            <4> QED
                BY <1>9, <4>1, <4>2
        <3> QED
            BY <3>1, <3>2, <3>3, <3>4
    <2>2. ASSUME NEW i \in DOMAIN queue'
          PROVE  /\ queue'[i].call <= calls /\ served[queue'[i].call] = 0
                 /\ \A k \in DOMAIN queue' : queue'[i].call = queue'[k].call => i = k
        <3>1. CASE i = last
            BY <1>3, <1>8, <1>9, <1>10, <3>1
        <3>2. CASE i \in DOMAIN queue /\ queue'[i] = queue[i]
            <4>1. /\ queue[i].call <= calls /\ served[queue[i].call] = 0 /\ queue[i].call # n
                  /\ \A k \in DOMAIN queue : queue[i].call = queue[k].call => i = k
                BY <1>8, <3>2 DEF Orderly, Waiting
            <4> QED
                BY <1>3, <1>9, <1>10, <3>2, <4>1
        <3> QED
            BY <1>9, <2>2, <3>1, <3>2
    <2> QED
        BY <1>1, <2>1, <2>2 DEF Orderly, Waiting, library
<1>12. AllOwned'
    <2> SUFFICES ASSUME NEW l \in Clients, sock[l] # 0
                 PROVE  Owned(l)'
        BY <1>1 DEF AllOwned, library
    <2>1. Owned(l) /\ sock[l] \in Conns
        BY Types DEF Orderly, AllOwned
    <2>2. ASSUME NEW i \in DOMAIN toServer'[sock[l]] PROVE toServer'[sock[l]][i] = call[l]
        BY <1>7, <2>1, <2>2 DEF Owned
    <2>3. ASSUME NEW i \in DOMAIN queue', queue'[i].conn = sock[l] PROVE queue'[i].call = call[l]
        <3>1. CASE i = last
            BY <1>3, <1>10, <2>1, <2>3, <3>1 DEF Owned
        <3>2. CASE i \in DOMAIN queue /\ queue'[i] = queue[i]
            BY <2>1, <2>3, <3>2 DEF Owned
        <3> QED
            BY <1>9, <2>3, <3>1, <3>2
    <2> QED
        BY <1>1, <2>1, <2>2, <2>3 DEF Owned, library
<1>13. OwnAnswer'
    BY <1>1 DEF Orderly, OwnAnswer, library
<1> QED
    BY <1>6, <1>11, <1>12, <1>13 DEF Orderly

\* Before the server is down every connection is the socket of a client, so
\* that the listener sees none hang up.
LEMMA HangupIsOrderly ==
    ASSUME IInv, Orderly, NEW c \in Conns, Hangup(c) \/ Close(c)
    PROVE  Orderly'
<1>1. UNCHANGED <<library, conns, backlog, toServer, toClient, server, fd>>
    BY DEF Hangup, CloseBegins, Close, sockets
<1>2. state = "down"
    <2>1. CASE Hangup(c)
        <3>1. c \in listed /\ c \notin {sock[k] : k \in Clients}
            BY <2>1 DEF Hangup, CloseBegins
        <3>2. ~Unseen(c)
            BY <3>1, Counted
        <3>3. c <= conns
            BY <3>2, Types DEF Unseen
        <3> QED
            BY <3>1, <3>3 DEF Orderly, Steady
    <2>2. CASE Close(c)
        BY <2>2 DEF Close, Orderly, Steady
    <2> QED
        BY <2>1, <2>2
<1>3. Steady'
    BY <1>1, <1>2 DEF Orderly, Steady, library, server
<1>4. Waiting'
    BY <1>1 DEF Orderly, Waiting, library, server
<1>5. AllOwned' /\ OwnAnswer'
    BY <1>1 DEF Orderly, AllOwned, Owned, OwnAnswer, library, server
<1> QED
    BY <1>3, <1>4, <1>5 DEF Orderly

-----------------------------------------------------------------------------
(* The steps of the event loop, and the shutdown.                          *)

\* A call is carried out for the first time.
LEMMA TakeIsOrderly ==
    ASSUME IInv, Orderly, Take
    PROVE  Orderly'
<1> DEFINE m == Head(queue)
<1>1. /\ state = "up" /\ queue # <<>> /\ queue' = Tail(queue)
      /\ cur' = [conn |-> m.conn, call |-> m.call, step |-> "answer"]
      /\ served' = [served EXCEPT ![m.call] = @ + 1]
      /\ UNCHANGED <<library, sockets, listener, state>>
    BY DEF Take
<1>2. queue \in Seq(Message) /\ served \in [Calls -> Nat]
    BY Types
<1>3. /\ 1 \in DOMAIN queue /\ m = queue[1] /\ m \in Message
      /\ m.conn \in Conns /\ m.call \in Calls
    <2>1. 1 \in DOMAIN queue /\ m = queue[1] /\ m \in Message
        BY <1>1, <1>2
    <2> QED
        BY <2>1 DEF Message
<1>4. /\ DOMAIN queue' \subseteq Nat
      /\ \A i \in DOMAIN queue' : /\ i + 1 \in DOMAIN queue /\ i + 1 # 1
                                  /\ queue'[i] = queue[i + 1]
    BY <1>1, <1>2
<1>5. /\ served[m.call] = 0 /\ m.call <= calls
      /\ \A j \in DOMAIN queue : queue[j].call = m.call => j = 1
      /\ \A c \in Conns : \A i \in DOMAIN toServer[c] : toServer[c][i] # m.call
    BY <1>3 DEF Orderly, Waiting
<1> HIDE DEF m
<1>6. served'[m.call] = 1 /\ \A n \in Calls : n # m.call => served'[n] = served[n]
    BY <1>1, <1>2, <1>3, <1>5
<1>7. Steady'
    <2>1. state # "down" => \A i \in DOMAIN queue' : queue'[i].conn \in listed
        BY <1>4 DEF Orderly, Steady
    <2>2. m.conn \in listed /\ cur'.conn = m.conn
        BY <1>1, <1>3 DEF Orderly, Steady
    <2> QED
        BY <1>1, <2>1, <2>2 DEF Orderly, Steady, library, sockets, listener
<1>8. Waiting'
    <2>1. ASSUME NEW n \in Calls PROVE served'[n] \in {0, 1} /\ (n > calls => served'[n] = 0)
        <3>1. CASE n = m.call
            <4>1. ~(n > calls)
                BY <1>5, <3>1, Types
            <4> QED
                BY <1>6, <3>1, <4>1
        <3>2. CASE n # m.call
            BY <1>6, <3>2 DEF Orderly, Waiting
        <3> QED
            BY <3>1, <3>2
    <2>2. ASSUME NEW c \in Conns, NEW i \in DOMAIN toServer[c]
          PROVE  /\ toServer[c][i] <= calls /\ served'[toServer[c][i]] = 0
                 /\ \A d \in Conns : \A j \in DOMAIN toServer[d] :
                      toServer[c][i] = toServer[d][j] => c = d /\ i = j
                 /\ \A j \in DOMAIN queue' : toServer[c][i] # queue'[j].call
        <3>1. toServer[c][i] \in Calls
            BY Types
        <3>2. served'[toServer[c][i]] = 0
            BY <1>5, <1>6, <3>1 DEF Orderly, Waiting
        <3>3. \A j \in DOMAIN queue' : toServer[c][i] # queue'[j].call
            BY <1>4 DEF Orderly, Waiting
        <3> QED
            BY <3>2, <3>3 DEF Orderly, Waiting
    <2>3. ASSUME NEW i \in DOMAIN queue'
          PROVE  /\ queue'[i].call <= calls /\ served'[queue'[i].call] = 0
                 /\ \A j \in DOMAIN queue' : queue'[i].call = queue'[j].call => i = j
        <3>1. i + 1 \in DOMAIN queue /\ i + 1 # 1 /\ queue'[i] = queue[i + 1] /\ i \in Nat
            BY <1>4, <2>3
        <3>2. /\ queue[i + 1].call \in Calls /\ queue[i + 1].call # m.call
              /\ queue[i + 1].call <= calls /\ served[queue[i + 1].call] = 0
            BY <1>5, <3>1, Types DEF Orderly, Waiting
        <3>3. ASSUME NEW j \in DOMAIN queue', queue'[i].call = queue'[j].call
              PROVE  i = j
            <4>1. j + 1 \in DOMAIN queue /\ queue'[j] = queue[j + 1] /\ j \in Nat
                BY <1>4, <3>3
            <4>2. i + 1 = j + 1
                BY <3>1, <3>3, <4>1 DEF Orderly, Waiting
            <4> QED
                BY <3>1, <4>1, <4>2
        <3> QED
            BY <1>6, <3>1, <3>2, <3>3
    <2> QED
        BY <1>1, <2>1, <2>2, <2>3 DEF Waiting, library, sockets
<1>9. AllOwned'
    <2> SUFFICES ASSUME NEW l \in Clients, sock[l] # 0
                 PROVE  Owned(l)'
        BY <1>1 DEF AllOwned, library
    <2>1. Owned(l) /\ sock[l] \in Conns /\ call[l] \in 0..MaxCalls
        BY Types DEF Orderly, AllOwned
    <2>2. \A i \in DOMAIN queue' : queue'[i].conn = sock[l] => queue'[i].call = call[l]
        BY <1>4, <2>1 DEF Owned
    <2>3. cur'.conn = sock[l] => call[l] = m.call
        BY <1>1, <1>3, <2>1 DEF Owned
    <2>4. toClient[sock[l]] # <<>> => /\ call[l] # m.call
                                      /\ toClient[sock[l]] = <<call[l]>> /\ served'[call[l]] = 1
        <3> SUFFICES ASSUME toClient[sock[l]] # <<>>
                     PROVE  /\ call[l] # m.call
                            /\ toClient[sock[l]] = <<call[l]>> /\ served'[call[l]] = 1
            OBVIOUS
        <3>1. toClient[sock[l]] = <<call[l]>> /\ served[call[l]] = 1
            BY <2>1 DEF Owned
        <3>2. call[l] \in Calls
            <4>1. toClient[sock[l]] \in Seq(Calls)
                BY <2>1, Types
            <4>2. <<call[l]>>[1] \in Calls
                BY <3>1, <4>1
            <4> QED
                BY <4>2
        <3> QED
            BY <1>5, <1>6, <3>1, <3>2
    <2>5. cur'.conn = sock[l] =>
            cur'.call = call[l] /\ served'[call[l]] = 1 /\ toClient[sock[l]] = <<>>
        BY <1>1, <1>6, <2>3, <2>4
    <2> QED
        BY <1>1, <2>1, <2>2, <2>4, <2>5 DEF Owned, library, sockets
<1>10. OwnAnswer'
    BY <1>1 DEF Orderly, OwnAnswer, library
<1> QED
    BY <1>7, <1>8, <1>9, <1>10 DEF Orderly

\* Every call has an answer, and its client is there.
LEMMA AnswerIsOrderly ==
    ASSUME IInv, Orderly, Patient, Answer
    PROVE  Orderly'
<1>1. /\ cur # Nothing /\ cur.step = "answer"
      /\ UNCHANGED <<library, sockets, listener, queue, served, state>>
    BY DEF Answer, Nothing
<1>2. state # "down" /\ cur.conn \notin closed
    BY <1>1 DEF Orderly, Steady
<1>3. cur' = [cur EXCEPT !.step = "write"]
    BY <1>2 DEF Answer, NoAnswer, Patient
<1>4. cur'.conn = cur.conn /\ cur'.call = cur.call /\ cur'.step = "write"
    BY <1>1, <1>3 DEF IInv, TypeOK
<1>5. Steady'
    BY <1>1, <1>4 DEF Orderly, Steady, library, sockets, listener
<1>6. Waiting' /\ OwnAnswer'
    BY <1>1 DEF Orderly, Waiting, OwnAnswer, library, sockets
<1>7. AllOwned'
    BY <1>1, <1>4 DEF Orderly, AllOwned, Owned, library, sockets
<1> QED
    BY <1>5, <1>6, <1>7 DEF Orderly

\* The answer goes to the client that asked: its connection has kept the
\* descriptor.
LEMMA WriteIsOrderly ==
    ASSUME IInv, Orderly, Write
    PROVE  Orderly'
<1> DEFINE c == cur.conn
<1>1. /\ cur # Nothing /\ cur.step = "write" /\ cur' = [cur EXCEPT !.step = "release"]
      /\ UNCHANGED <<library, conns, backlog, toServer, owner, listener, queue, served, state>>
    BY DEF Write, Nothing
<1>2. /\ state # "down" /\ c \in listed /\ owner[fd[c]] = c /\ c \in Conns /\ c # 0
      /\ cur'.conn = c /\ cur'.step = "release" /\ cur'.call = cur.call
      /\ cur \in [conn : Conns, call : Calls, step : {"answer", "write", "release"}]
    <2>1. cur \in [conn : Conns, call : Calls, step : {"answer", "write", "release"}]
        BY <1>1 DEF IInv, TypeOK
    <2>2. c \in Conns /\ c # 0
        BY <2>1, Types
    <2> QED
        BY <1>1, <2>1, <2>2 DEF Orderly, Steady
<1>3. toClient \in [Conns -> Seq(Calls)] /\ sock \in [Clients -> Conns \cup {0}] /\ conns \in Nat
    BY Types
<1>4. toClient' = IF c \in {sock[k] : k \in Clients}
                  THEN [toClient EXCEPT ![c] = Append(@, cur.call)]
                  ELSE toClient
    BY <1>2 DEF Write
<1> HIDE DEF c
<1>5. \A d \in Conns : d # c => toClient'[d] = toClient[d]
    BY <1>2, <1>3, <1>4
<1>6. Steady'
    <2>1. ASSUME NEW d \in Conns, d > conns PROVE toClient'[d] = <<>>
        <3>1. c <= conns
            BY <1>2, <1>3, Counted, Types, SMTT(30) DEF Unseen
        <3>2. d # c
            BY <1>3, <2>1, <3>1, Types
        <3> QED
            BY <1>5, <2>1, <3>2 DEF Orderly, Steady
    <2> QED
        BY <1>1, <1>2, <2>1 DEF Orderly, Steady, library, listener, c
<1>7. Waiting' /\ OwnAnswer'
    BY <1>1 DEF Orderly, Waiting, OwnAnswer, library
<1>8. AllOwned'
    <2> SUFFICES ASSUME NEW l \in Clients, sock[l] # 0
                 PROVE  Owned(l)'
        BY <1>1 DEF AllOwned, library
    <2>1. Owned(l) /\ sock[l] \in Conns
        BY Types DEF Orderly, AllOwned
    <2>2. CASE sock[l] = c
        <3>1. cur.call = call[l] /\ served[call[l]] = 1 /\ toClient[c] = <<>>
            BY <1>1, <2>1, <2>2 DEF Owned, c
        <3>2. toClient'[c] = <<call[l]>>
            BY <1>2, <1>3, <1>4, <2>2, <3>1
        <3> QED
            BY <1>1, <1>2, <2>1, <2>2, <3>1, <3>2 DEF Owned, library
    <2>3. CASE sock[l] # c
        BY <1>1, <1>2, <1>5, <2>1, <2>3 DEF Owned, library
    <2> QED
        BY <2>2, <2>3
<1> QED
    BY <1>6, <1>7, <1>8 DEF Orderly

\* The end of a message, of the loop and of the listener.
LEMMA EndIsOrderly ==
    ASSUME IInv, Orderly, Done \/ Stop \/ Destroy
    PROVE  Orderly'
<1>1. UNCHANGED <<library, conns, toServer, toClient, queue, served>>
    BY DEF Done, Stop, Destroy, sockets
<1>2. Steady'
    <2>1. CASE Done
        BY <2>1 DEF Done, Orderly, Steady, library, sockets
    <2>2. CASE Stop
        BY <2>2 DEF Stop, Orderly, Steady, library, sockets, listener
    <2>3. CASE Destroy
        BY <2>3 DEF Destroy, Orderly, Steady, library
    <2> QED
        BY <2>1, <2>2, <2>3
<1>3. Waiting' /\ OwnAnswer'
    BY <1>1 DEF Orderly, Waiting, OwnAnswer, library
<1>4. AllOwned'
    <2>1. \/ cur'.conn = 0
          \/ cur' = cur
        BY DEF Done, Stop, Destroy, Nothing
    <2> QED
        BY <1>1, <2>1 DEF Orderly, AllOwned, Owned, library
<1> QED
    BY <1>2, <1>3, <1>4 DEF Orderly

-----------------------------------------------------------------------------
(* The theorems.                                                           *)

\* At first no client has a connection and nothing is on its way.
LEMMA InitIsOrderly == Init => PatientInv
<1> SUFFICES ASSUME Init
             PROVE  PatientInv
    OBVIOUS
<1>1. IInv
    BY InitIsCounted
<1>2. Steady
    BY <1>1, Types DEF Init, Steady
<1>3. Waiting
    BY DEF Init, Waiting
<1>4. AllOwned /\ OwnAnswer
    BY DEF Init, AllOwned, OwnAnswer
<1> QED
    BY <1>1, <1>2, <1>3, <1>4 DEF PatientInv, Orderly

\* Every step keeps the order; a client that is patient remains so.
LEMMA StepIsOrderly == PatientInv /\ [Next]_vars => PatientInv'
<1> SUFFICES ASSUME PatientInv, [Next]_vars
             PROVE  PatientInv'
    OBVIOUS
<1>1. IInv /\ IInv'
    BY StepIsCounted DEF PatientInv
<1>2. UNCHANGED env
    BY DEF Next, Library, Listener, EventLoop, Begin, Receive, Retry, GiveUp, Quit, Accept, Read,
           Hangup, Reject, CloseBegins, Close, Take, Answer, Write, Done, Stop, Destroy, vars
<1>3. Patient' <=> Patient
    BY <1>2 DEF Patient, Timeouts, Quits, Faults
<1>4. ASSUME Patient PROVE Orderly'
    <2>1. Orderly
        BY <1>4 DEF PatientInv
    <2>2. ASSUME NEW k \in Clients, Begin(k) \/ Receive(k) \/ Retry(k) \/ GiveUp(k) \/ Quit(k)
          PROVE  Orderly'
        <3>1. ~GiveUp(k)
            BY <2>1 DEF GiveUp, Orderly, Steady
        <3>2. ~Quit(k)
            BY <1>4 DEF Quit, Patient
        <3> QED
            BY <1>1, <1>4, <2>1, <2>2, <3>1, <3>2, BeginStep, ReceiveStep, RetryStep
    <2>3. CASE Accept
        BY <1>1, <1>4, <2>1, <2>3, AcceptIsOrderly
    <2>4. ASSUME NEW c \in Conns, Read(c) \/ Hangup(c) \/ Reject(c) \/ Close(c)
          PROVE  Orderly'
        <3>1. ~Reject(c)
            BY <1>4 DEF Patient, Reject
        <3> QED
            BY <1>1, <1>4, <2>1, <2>4, <3>1, ReadIsOrderly, HangupIsOrderly
    <2>5. CASE EventLoop
        BY <1>1, <1>4, <2>1, <2>5, TakeIsOrderly, AnswerIsOrderly, WriteIsOrderly, EndIsOrderly
           DEF EventLoop
    <2>6. CASE Stop \/ Destroy
        BY <1>1, <2>1, <2>6, EndIsOrderly
    <2>7. CASE UNCHANGED vars
        <3>1. Steady' /\ Waiting'
            BY <2>1, <2>7 DEF Orderly, Steady, Waiting, vars, library, sockets, listener, server
        <3>2. AllOwned' /\ OwnAnswer'
            BY <2>1, <2>7 DEF Orderly, AllOwned, Owned, OwnAnswer, vars, library, sockets, server
        <3> QED
            BY <3>1, <3>2 DEF Orderly
    <2> QED
        BY <2>2, <2>3, <2>4, <2>5, <2>6, <2>7 DEF Next, Library, Listener
<1> QED
    BY <1>1, <1>3, <1>4 DEF PatientInv

\* What a patient client asks for is carried out once at most, and it is told
\* the answer to the call it is in, for any number of clients and descriptors
\* and also when the server is shut down in the middle of calls.
THEOREM PatientIsServedHolds == Spec => []PatientIsServed
<1>1. PatientInv => PatientIsServed
    <2> SUFFICES ASSUME PatientInv, Patient
                 PROVE  OwnAnswer /\ \A n \in Calls : served[n] <= 1
        BY DEF PatientIsServed
    <2>1. OwnAnswer /\ \A n \in Calls : served[n] \in {0, 1}
        BY DEF PatientInv, Orderly, Waiting
    <2> QED
        BY <2>1
<1> QED
    BY <1>1, InitIsOrderly, StepIsOrderly, PTL DEF Spec
=============================================================================
