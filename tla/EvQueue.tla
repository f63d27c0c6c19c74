------------------------------ MODULE EvQueue ------------------------------
(***************************************************************************)
(* The queue of messages to the event loop (ev-queue.c): a linked list of  *)
(* nodes, a list of free nodes that are used before memory is asked for,   *)
(* and the condition on which the event loop waits.  Every operation is    *)
(* one step, under the mutex of the queue.                                 *)
(***************************************************************************)
EXTENDS Integers

CONSTANTS InitialNodes,  \* EVQ_INITIAL_FREE_NODES
          MaxNodes       \* nodes that are made in all (bound)

Nodes == 1..MaxNodes

ASSUME NodesAssumption ==
    MaxNodes \in Nat /\ InitialNodes \in Nat /\ InitialNodes <= MaxNodes

VARIABLES
    head, tail,  \* the first and the last node of the queue, or 0
    free,        \* the first free node, or 0
    next,        \* ev_queue_node.next
    item,        \* ev_queue_node.data
    made,        \* the nodes made so far
    waiting      \* is the event loop in pthread_cond_wait?

queueVars == <<head, tail, free, next, item, made, waiting>>

InitQueue(none) ==
    /\ head = 0 /\ tail = 0
    /\ free = InitialNodes
    /\ next = [n \in Nodes |-> IF n <= InitialNodes THEN n - 1 ELSE 0]
    /\ item = [n \in Nodes |-> none]
    /\ made = InitialNodes
    /\ waiting = FALSE

\* alloc_node: the node that it returns.
NewNode == IF free # 0 THEN free ELSE made + 1

\* Mutant: the node is used and stays in the list of the free ones.
AllocNodeKeeps ==
    /\ made < MaxNodes \/ free # 0
    /\ made' = IF free # 0 THEN made ELSE made + 1
    /\ UNCHANGED free

AllocNode ==
    \/ free # 0 /\ free' = next[free] /\ UNCHANGED made
    \/ free = 0 /\ made < MaxNodes /\ made' = made + 1 /\ UNCHANGED free

\* pthread_cond_signal: there is one thread that waits.
Signal == waiting' = FALSE

\* evq_push
Push(m) ==
    /\ AllocNode
    /\ item' = [item EXCEPT ![NewNode] = m]
    /\ next' = [n \in Nodes |-> IF n = NewNode THEN 0
                                ELSE IF n = tail THEN NewNode ELSE next[n]]
    /\ head' = IF tail # 0 THEN head ELSE NewNode
    /\ tail' = NewNode
    /\ Signal

\* evq_wait, when there is nothing to take.
Sleep ==
    /\ head = 0 /\ ~waiting
    /\ waiting' = TRUE
    /\ UNCHANGED <<head, tail, free, next, item, made>>

\* evq_wait, when there is: the message is item[head].
Pop ==
    /\ head # 0 /\ ~waiting
    /\ head' = next[head]
    /\ tail' = IF next[head] = 0 THEN 0 ELSE tail
    /\ next' = [next EXCEPT ![head] = free]
    /\ free' = head
    /\ UNCHANGED <<item, made, waiting>>

-----------------------------------------------------------------------------
(* The lists as sets, for the properties.                                  *)

\* The node that is i behind the first one of a list.
Nth(first, i) ==
    LET nth[j \in 0..MaxNodes] ==
            IF j = 0 THEN first
            ELSE IF nth[j - 1] = 0 THEN 0 ELSE next[nth[j - 1]]
    IN  nth[i]

From(first) == {Nth(first, i) : i \in 0..MaxNodes} \ {0}

\* Every node that was made is in one of the two lists, once, the lists end, and
\* the tail is the end of the queue: a node that is in none is lost, one in both
\* makes a message overwrite another (ev-queue.c:38-54, 120-175).
NodesAreKept ==
    /\ From(head) \cup From(free) = 1..made
    /\ From(head) \cap From(free) = {}
    /\ Nth(head, MaxNodes) = 0 /\ Nth(free, MaxNodes) = 0
    /\ (head = 0) = (tail = 0)
    /\ tail # 0 => tail \in From(head) /\ next[tail] = 0
=============================================================================
