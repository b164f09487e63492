------------------------------- MODULE Reports -------------------------------
(***************************************************************************)
(* The report queue of each channel (server/reports.go and the report      *)
(* handlers of server/api.go).                                             *)
(*                                                                         *)
(* A channel's reports are one value in the store, newest first.  Every    *)
(* change reads the value, edits it and writes it back under the channel's *)
(* cluster mutex.  A member's submission stamps, which the rate limit      *)
(* counts, are another value, read and written under the mutex of          *)
(* whichever channel the report is about.                                  *)
(***************************************************************************)
EXTENDS ReportOps

CONSTANTS
    Handlers,    \* concurrent requests, on all nodes
    RateLimits,  \* values of configuration.ReportRateLimit; 0 turns the limit off
    Window,      \* configuration.ReportRateWindowMinutes
    Failures,    \* whether a call may fail, or a node stop, in mid request
    Free,        \* a mutex nobody holds
    NoRequest    \* what a handler at rest serves

\* stamp is the time at which the report was counted against its reporter, 0
\* when the limit is off.
Report == [id : Ids, by : Reporters, about : Subjects, status : Statuses, stamp : 0..MaxTime]

ASSUME BoundsAssumption ==
    /\ RateLimits \subseteq Nat /\ Window \in Nat
    /\ Failures \in BOOLEAN
ASSUME HandlersAssumption == IsFiniteSet(Handlers) /\ Free \notin Handlers

VARIABLES
    limit,    \* the ReportRateLimit in force
    reports,  \* channel -> its reports, newest first
    lock,     \* channel -> the handler that holds its mutex
    stamps,   \* reporter -> the times of recent submissions
    posts,    \* the messages that exist
    stage,    \* handler -> how far its request is
    request,  \* handler -> the request
    seen,     \* handler -> the reports it read
    recent,   \* handler -> the stamps it found, and its own, not yet written
    nextId,   \* the next report ID
    now       \* the time

local == <<stage, request, seen, recent>>
vars == <<limit, reports, lock, stamps, posts, local, nextId, now>>

Requests == [op : {"create", "dismiss", "resolveUser", "resolvePost", "resolveOne", "escalate"},
             channel : Channels, by : Reporters \cup {NoRequest},
             arg : Ids \cup Subjects \cup Targets]

\* A request waits for the mutex, holds it with the reports read, holds it with
\* the stamps read too, and holds it with the stamps written.
Stages == {"idle", "wait", "reports", "stamps", "stamped"}

TypeOK ==
    /\ limit \in RateLimits
    /\ reports \in [Channels -> Seq(Report)]
    /\ \A c \in Channels : Len(reports[c]) <= MaxStored
    /\ lock \in [Channels -> Handlers \cup {Free}]
    /\ stamps \in [Reporters -> Seq(1..MaxTime)]
    /\ posts \subseteq Posts
    /\ stage \in [Handlers -> Stages]
    /\ request \in [Handlers -> Requests \cup {NoRequest}]
    /\ seen \in [Handlers -> Seq(Report)]
    /\ recent \in [Handlers -> [kept : Seq(1..MaxTime), stamp : 0..MaxTime]]
    /\ nextId \in 1..(MaxReports + 1)
    /\ now \in 1..MaxTime

NoStamps == [kept |-> <<>>, stamp |-> 0]

Init ==
    /\ limit \in RateLimits
    /\ reports = [c \in Channels |-> <<>>]
    /\ lock = [c \in Channels |-> Free]
    /\ stamps = [u \in Reporters |-> <<>>]
    /\ posts = Posts
    /\ stage = [h \in Handlers |-> "idle"]
    /\ request = [h \in Handlers |-> NoRequest]
    /\ seen = [h \in Handlers |-> <<>>]
    /\ recent = [h \in Handlers |-> NoStamps]
    /\ nextId = 1
    /\ now = 1

InQueue(c) == {reports[c][i] : i \in DOMAIN reports[c]}

Holding(h) == stage[h] \in {"reports", "stamps", "stamped"}

------------------------------------------------------------------------------
(* The reporter's stamps.                                                  *)

\* pruneStamps: stamps at or after the start of the window.
Recent(times) == AtPositions(times, {i \in DOMAIN times : times[i] + Window >= now})

------------------------------------------------------------------------------
(* Requests.                                                               *)

\* A handler takes a request up.
Take(h, op, c, u, x) ==
    /\ stage[h] = "idle"
    /\ stage' = [stage EXCEPT ![h] = "wait"]
    /\ request' = [request EXCEPT ![h] = [op |-> op, channel |-> c, by |-> u, arg |-> x]]
    /\ UNCHANGED <<seen, recent>>

\* Reports filed or being filed, to respect the bound.
InFlight == {h \in Handlers : stage[h] # "idle" /\ request[h].op = "create"}

\* createReport up to the mutex: the message exists and is in this channel.
StartCreate(h, c, u, s) ==
    /\ nextId + Cardinality(InFlight) <= MaxReports
    /\ u # Target[s]
    /\ c \in ChannelsOf[s]
    /\ s \in Posts => s \in posts
    /\ Take(h, "create", c, u, s)
    /\ UNCHANGED <<limit, reports, lock, stamps, posts, nextId, now>>

\* handleDismissReport, resolveRestrictedMemberReports, resolveActionedReport
\* (a report ID that is not about the member it came with matches nothing, like
\* one that is not in the channel) and handleEscalate.
StartEdit(h, c, op, x) ==
    /\ Take(h, op, c, NoRequest, x)
    /\ UNCHANGED <<limit, reports, lock, stamps, posts, nextId, now>>

\* handleDeletePost: the message is gone before its reports are resolved.
DeletePost(h, c, s) ==
    /\ s \in posts /\ ChannelsOf[s] = {c}
    /\ posts' = posts \ {s}
    /\ Take(h, "resolvePost", c, NoRequest, s)
    /\ UNCHANGED <<limit, reports, lock, stamps, nextId, now>>

\* The mutex taken for granted.
NoMutex(c) == TRUE
Available(c) == lock[c] = Free

\* lockChannel, then GetReports.
Lock(h) ==
    /\ stage[h] = "wait"
    /\ Available(request[h].channel)
    /\ lock' = [lock EXCEPT ![request[h].channel] = h]
    /\ stage' = [stage EXCEPT ![h] = "reports"]
    /\ seen' = [seen EXCEPT ![h] = reports[request[h].channel]]
    /\ UNCHANGED <<limit, reports, stamps, posts, request, recent, nextId, now>>

\* An early return that forgets the mutex, and the one every path makes.
ForgetUnlock(h) == UNCHANGED lock
Unlock(h) == lock' = [lock EXCEPT ![request[h].channel] = Free]

Return(h) ==
    /\ stage' = [stage EXCEPT ![h] = "idle"]
    /\ request' = [request EXCEPT ![h] = NoRequest]
    /\ seen' = [seen EXCEPT ![h] = <<>>]
    /\ recent' = [recent EXCEPT ![h] = NoStamps]

\* SaveReports, then the deferred unlock.
Save(h, rs) ==
    /\ reports' = [reports EXCEPT ![request[h].channel] = rs]
    /\ lock' = [lock EXCEPT ![request[h].channel] = Free]
    /\ Return(h)

NewReport(h, stamp) ==
    [id |-> nextId, by |-> request[h].by, about |-> request[h].arg,
     status |-> "open", stamp |-> stamp]

\* createReport stores the report; with the limit on, after its stamp.
SaveNew(h, stamp) ==
    /\ Save(h, capReports(<<NewReport(h, stamp)>> \o seen[h]))
    /\ nextId' = nextId + 1
    /\ UNCHANGED <<limit, stamps, posts, now>>

Duplicate(h) == hasDuplicateReport(seen[h], request[h].by, request[h].arg)

CreateUnlimited(h) ==
    /\ stage[h] = "reports" /\ request[h].op = "create"
    /\ ~Duplicate(h)
    /\ limit = 0
    /\ SaveNew(h, 0)

\* checkReportRateLimit: one read and one write of the reporter's stamps.
ReadStamps(h) ==
    LET kept == Recent(stamps[request[h].by])
    IN  /\ stage[h] = "reports" /\ request[h].op = "create"
        /\ ~Duplicate(h)
        /\ limit > 0
        /\ Len(kept) < limit
        /\ stage' = [stage EXCEPT ![h] = "stamps"]
        /\ recent' = [recent EXCEPT ![h] = [kept |-> kept, stamp |-> now]]
        /\ UNCHANGED <<limit, reports, lock, stamps, posts, request, seen, nextId, now>>

SaveStamps(h) ==
    /\ stage[h] = "stamps"
    /\ stamps' = [stamps EXCEPT ![request[h].by] = Append(recent[h].kept, recent[h].stamp)]
    /\ stage' = [stage EXCEPT ![h] = "stamped"]
    /\ UNCHANGED <<limit, reports, lock, posts, request, seen, recent, nextId, now>>

CreateStamped(h) ==
    /\ stage[h] = "stamped"
    /\ SaveNew(h, recent[h].stamp)

\* updateReportStatus, resolveReports and escalateReportsForUser.
SaveEdited(h) ==
    LET q == request[h]
        edited == [i \in DOMAIN seen[h] |-> Edited(q, seen[h][i])]
    IN  /\ stage[h] = "reports" /\ q.op # "create"
        /\ \/ edited # seen[h]
           \/ q.op = "dismiss" /\ \E i \in DOMAIN seen[h] : seen[h][i].id = q.arg
        /\ Save(h, edited)
        /\ UNCHANGED <<limit, stamps, posts, nextId, now>>

\* The early returns: a duplicate, a member over the limit, no such report,
\* nothing to resolve or to escalate.
Refuse(h) ==
    LET q == request[h]
    IN  /\ stage[h] = "reports"
        /\ IF q.op = "create"
             THEN \/ Duplicate(h)
                  \/ limit > 0 /\ Len(Recent(stamps[q.by])) >= limit
             ELSE IF q.op = "dismiss"
             THEN \A i \in DOMAIN seen[h] : seen[h][i].id # q.arg
             ELSE \A i \in DOMAIN seen[h] : Edited(q, seen[h][i]) = seen[h][i]
        /\ Unlock(h)
        /\ Return(h)
        /\ UNCHANGED <<limit, reports, stamps, posts, nextId, now>>

\* A call fails and the request returns; or its node stops and the mutex, no
\* longer refreshed, expires.
CutOff(h) ==
    /\ Failures
    /\ stage[h] # "idle"
    /\ IF Holding(h) THEN Unlock(h) ELSE UNCHANGED lock
    /\ Return(h)
    /\ UNCHANGED <<limit, reports, stamps, posts, nextId, now>>

Tick ==
    /\ now < MaxTime
    /\ now' = now + 1
    /\ UNCHANGED <<limit, reports, lock, stamps, posts, local, nextId>>

Start(h) == \E c \in Channels :
    \/ \E u \in Reporters, s \in Subjects : StartCreate(h, c, u, s)
    \/ \E id \in Ids, op \in {"dismiss", "resolveOne"} : StartEdit(h, c, op, id)
    \/ \E t \in Targets, op \in {"resolveUser", "escalate"} : StartEdit(h, c, op, t)
    \/ \E s \in Posts : DeletePost(h, c, s)

\* The steps of a request once it has the mutex.
Proceed(h) ==
    \/ CreateUnlimited(h)
    \/ ReadStamps(h)
    \/ SaveStamps(h)
    \/ CreateStamped(h)
    \/ SaveEdited(h)
    \/ Refuse(h)

Next == (\E h \in Handlers : Start(h) \/ Lock(h) \/ Proceed(h) \/ CutOff(h)) \/ Tick

Spec == Init /\ [][Next]_vars

\* A request goes on, and a waiting one polls for the mutex.
FairSpec == Spec /\ \A h \in Handlers : WF_vars(Proceed(h)) /\ WF_vars(Lock(h))

------------------------------------------------------------------------------
(* What is expected of the queue.                                          *)

\* Whoever holds a channel's mutex is a request in that channel, it is the only
\* one past the wait, and the reports it read are still the stored ones: no
\* write loses another (lockChannel keeps "read-modify-write cycles safe").
HolderOwns(h) ==
    Holding(h) => /\ lock[request[h].channel] = h
                  /\ seen[h] = reports[request[h].channel]
OwnerHolds(c) ==
    lock[c] # Free => Holding(lock[c]) /\ request[lock[c]].channel = c
MutexInv == (\A h \in Handlers : HolderOwns(h)) /\ (\A c \in Channels : OwnerHolds(c))

\* A member never has two unresolved reports about the same message, or about
\* the same member, in a channel, however their submissions interleave with
\* each other and with dismissals (hasDuplicateReport).
NoDuplicateOpen ==
    \A c \in Channels : \A i, j \in DOMAIN reports[c] :
        /\ i # j
        /\ Unresolved(reports[c][i]) /\ Unresolved(reports[c][j])
        /\ reports[c][i].by = reports[c][j].by
        => reports[c][i].about # reports[c][j].about

\* A stored report keeps its content and only moves from open to escalated to
\* resolved, and it leaves the queue only to make room in a full one: the resolved
\* reports go first, the oldest of them before the others, and once none is left
\* the oldest of all (capReports).
Progress == [open |-> 1, escalated |-> 2, resolved |-> 3]
SameContent(r, r2) == r2 = [r EXCEPT !.status = r2.status]
LeavesBefore(r, r2) ==
    IF Unresolved(r) THEN Unresolved(r2) /\ r2.id > r.id
                     ELSE Unresolved(r2) \/ r2.id > r.id
MovesForward(c, r) ==
    \E r2 \in InQueue(c)' : SameContent(r, r2) /\ Progress[r2.status] >= Progress[r.status]
MakesRoom(c, r) ==
    /\ Len(reports[c]) = MaxStored
    /\ \A r2 \in InQueue(c)' : LeavesBefore(r, r2)
QueueForward ==
    [][\A c \in Channels : \A r \in InQueue(c) : MovesForward(c, r) \/ MakesRoom(c, r)]_vars

\* "Reports are rate limited per member (5 per 10 minutes by default ...)"
\* (README): no window of the configured length holds more than limit reports of
\* one member, in whichever channels.
Counted(u, t) ==
    {r \in UNION {InQueue(c) : c \in Channels} : r.by = u /\ r.stamp \in t..(t + Window)}
RateRespected ==
    limit > 0 => \A u \in Reporters, t \in 1..MaxTime : Cardinality(Counted(u, t)) <= limit

\* Each change of a queue is a whole one: however requests interleave, fail and are
\* cut off, the queues change as if every report were filed, and every dismissal,
\* resolution and escalation made, in one step.
Queue == INSTANCE ReportQueue WITH queue <- reports, filed <- nextId
ChangesAtOnce == Queue!Spec

\* Once requests stop coming, all of them return: every path releases the
\* mutex it took.
Calm == <>[][\A h \in Handlers : ~Start(h)]_vars
RequestsReturn == Calm => <>[](\A h \in Handlers : stage[h] = "idle")
==============================================================================
