------------------------------ MODULE ReportQueue ------------------------------
(***************************************************************************)
(* What the report queues of the channels promise: reports are filed, and  *)
(* dismissed, resolved and escalated, one at a time and as a whole.        *)
(* Reports implements it with reads and writes of a store under a mutex.   *)
(***************************************************************************)
EXTENDS ReportOps

VARIABLES
    queue,  \* channel -> its reports, newest first
    filed   \* the ID of the next report

queueVars == <<queue, filed>>

Init ==
    /\ queue = [c \in Channels |-> <<>>]
    /\ filed = 1

New(u, s, stamp) ==
    [id |-> filed, by |-> u, about |-> s, status |-> "open", stamp |-> stamp]

\* A member reports somebody else, or a message of somebody else's, and has not
\* got an unresolved report about the same already.
File(c, u, s) ==
    /\ filed' = filed + 1
    /\ u # Target[s]
    /\ c \in ChannelsOf[s]
    /\ ~hasDuplicateReport(queue[c], u, s)
    /\ \E stamp \in 0..MaxTime :
        queue' = [queue EXCEPT ![c] = capReports(<<New(u, s, stamp)>> \o @)]

Change(c, op, x) ==
    /\ UNCHANGED filed
    /\ queue' = [queue EXCEPT ![c] =
                    [i \in DOMAIN @ |-> Edited([op |-> op, arg |-> x], @[i])]]

Next ==
    \E c \in Channels :
        \/ \E u \in Reporters, s \in Subjects : File(c, u, s)
        \/ \E op \in {"dismiss", "resolveOne"}, id \in Ids : Change(c, op, id)
        \/ \E op \in {"resolveUser", "escalate"}, t \in Targets : Change(c, op, t)
        \/ \E s \in Posts : Change(c, "resolvePost", s)

Spec == Init /\ [][Next]_queueVars
==============================================================================
