------------------------------- MODULE ErrLog -------------------------------
(***************************************************************************)
(* The asynchronous error log (prof-err-log.c): a ring of LogCap entries   *)
(* that the event loop writes when an instrument is lost, and reads, from  *)
(* the same thread, for a get_async_errors request.  A message that cannot *)
(* be allocated is dropped before it reaches the ring and is not modelled. *)
(***************************************************************************)
EXTENDS Integers, Sequences

CONSTANTS LogCap,  \* PROF_ERR_LOG_CAP
          Msgs,    \* messages, abstracted to their identity
          NoMsg    \* a NULL message

ASSUME CapPositive == LogCap \in Nat \ {0}
ASSUME NoneNotMsg  == NoMsg \notin Msgs

Index == 0..(LogCap - 1)

VARIABLES entries,  \* log->entries[i].msg
          next,     \* log->next: where the next message goes
          count,    \* log->count
          report    \* the body of the last get_async_errors response

logVars == <<entries, next, count, report>>

LogTypeOK ==
    /\ entries \in [Index -> Msgs \cup {NoMsg}]
    /\ next \in Index
    /\ count \in 0..LogCap
    /\ report \in Seq(Msgs \cup {NoMsg})

\* prof_err_log_init
InitLog ==
    /\ entries = [i \in Index |-> NoMsg]
    /\ next = 0
    /\ count = 0
    /\ report = <<>>

\* prof_err_log_start: the oldest entry.
Start == (next + LogCap - count) % LogCap

\* What prof_err_log_iterate returns, call after call.
Messages == [i \in 1..count |-> entries[(Start + i - 1) % LogCap]]

\* Mutant: a full ring is emptied instead of losing its oldest entry.
PushRestarts(m) ==
    /\ entries' = [entries EXCEPT ![next] = m]
    /\ next' = (next + 1) % LogCap
    /\ count' = IF count < LogCap THEN count + 1 ELSE 1
    /\ UNCHANGED report

\* do_push: the oldest message is freed when its entry is taken.
Push(m) ==
    /\ entries' = [entries EXCEPT ![next] = m]
    /\ next' = (next + 1) % LogCap
    /\ count' = IF count < LogCap THEN count + 1 ELSE count
    /\ UNCHANGED report

\* uif_respond_get_async_errors: the size is computed in a first pass over the
\* ring and the message filled in a second one, with no push in between.
Respond ==
    /\ report' = Messages
    /\ UNCHANGED <<entries, next, count>>

LogNext == Respond \/ \E m \in Msgs : Push(m)

LogSpec == InitLog /\ [][LogNext]_logVars

-----------------------------------------------------------------------------
\* The entries a reader is given are never NULL: prof_err_log_size and the
\* response dereference them without a check (prof-err-log.c:101-104).
NoNullRead == \A i \in 1..count : Messages[i] # NoMsg

\* get_async_errors reports the most recent LogCap messages, oldest first
\* (mcp_server.py, get_async_errors): the ring implements RecentErrors.
Log == INSTANCE RecentErrors WITH recent <- Messages, Cap <- LogCap
KeepsMostRecent == Log!Spec

-----------------------------------------------------------------------------
\* What the two properties need to be inductive: until the ring is full it is
\* filled from entry 0 on, and the entries that count are filled.
Filled ==
    /\ count < LogCap => next = count
    /\ \A i \in Index : i < count => entries[i] \in Msgs

LogIInv == LogTypeOK /\ Filled
=============================================================================
