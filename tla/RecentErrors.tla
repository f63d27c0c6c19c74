---------------------------- MODULE RecentErrors ----------------------------
(***************************************************************************)
(* What the asynchronous error log promises its readers (mcp_server.py,    *)
(* get_async_errors): the most recent Cap messages, oldest first.          *)
(***************************************************************************)
EXTENDS Integers, Sequences

CONSTANTS Cap,     \* how many messages are kept
          Msgs     \* the messages

VARIABLES recent,  \* the messages that are kept, oldest first
          report   \* what the last reader was given

Init == recent = <<>> /\ report = <<>>

\* The oldest message makes room for the new one.
Push(m) ==
    /\ recent' = IF Len(recent) < Cap THEN Append(recent, m) ELSE Append(Tail(recent), m)
    /\ UNCHANGED report

Read == report' = recent /\ UNCHANGED recent

Next == Read \/ \E m \in Msgs : Push(m)

Spec == Init /\ [][Next]_<<recent, report>>
=============================================================================
