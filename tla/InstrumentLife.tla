--------------------------- MODULE InstrumentLife ---------------------------
(***************************************************************************)
(* The life of an instrument, as its client is told of it (mcp_server.py,  *)
(* instrument_method, deinstrument_by_id and get_async_errors): an id is   *)
(* given out once and names one instrument; what has been accepted stays   *)
(* until the client removes it or the log of errors is told that it is lost. *)
(***************************************************************************)
CONSTANTS Ids,
          Things,  \* the instruments that can be asked for
          None,
          NoMemory  \* may the log be out of memory?

VARIABLES life,    \* what has become of each id
          what,    \* the instrument that it names while it is there
          log,     \* the ids that the log of errors has a message about
          unheard  \* those whose message it could not keep

vars == <<life, what, log, unheard>>

Init ==
    /\ life = [i \in Ids |-> "none"]
    /\ what = [i \in Ids |-> None]
    /\ log = {} /\ unheard = {}

There(i) == life[i] \in {"active", "deferred"}

Ask(i) ==
    /\ life[i] = "none"
    /\ \/ /\ life' = [life EXCEPT ![i] = "refused"]
          /\ UNCHANGED what
       \/ \E x \in Things :
             /\ \/ life' = [life EXCEPT ![i] = "active"]
                \/ life' = [life EXCEPT ![i] = "deferred"]
             /\ what' = [what EXCEPT ![i] = x]
    /\ UNCHANGED <<log, unheard>>

\* The last of its classes has been loaded.
Apply(i) ==
    /\ life[i] = "deferred"
    /\ life' = [life EXCEPT ![i] = "active"]
    /\ UNCHANGED <<what, log, unheard>>

Gone(i, as) ==
    /\ There(i)
    /\ life' = [life EXCEPT ![i] = as]
    /\ what' = [what EXCEPT ![i] = None]

\* A message to the log.
Written(ids) ==
    \/ log' = log \cup ids /\ UNCHANGED unheard
    \/ NoMemory /\ unheard' = unheard \cup ids /\ UNCHANGED log

\* It cannot be applied, or not to a new version of its class: the log is told
\* before it is gone or as it goes.
Lose(i) ==
    /\ Gone(i, "lost")
    /\ \/ i \in log \cup unheard /\ UNCHANGED <<log, unheard>>
       \/ Written({i})

Remove(i) == Gone(i, "removed") /\ UNCHANGED <<log, unheard>>

\* What could not be applied again is logged first, all of it.
Report == \E ids \in SUBSET {i \in Ids : life[i] \notin {"none", "deferred"}} :
              Written(ids) /\ UNCHANGED <<life, what>>

Next == Report \/ \E i \in Ids : Ask(i) \/ Apply(i) \/ Lose(i) \/ Remove(i)

Spec == Init /\ [][Next]_vars
=============================================================================
