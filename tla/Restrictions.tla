----------------------------- MODULE Restrictions -----------------------------
(***************************************************************************)
(* Mutes and timeouts of members in channels (server/actions.go, job.go).  *)
(*                                                                         *)
(* A member has at most one record per channel, holding a mute and the end *)
(* of a timeout.  Muting and timing out read the record, change one half   *)
(* of it and write all of it back; no lock covers the two calls.  Lifting  *)
(* checks the record and deletes it, and an hourly job deletes records of  *)
(* expired timeouts in two passes over the store, which holds the other    *)
(* keys of the plugin as well.                                             *)
(***************************************************************************)
EXTENDS KVPaging

CONSTANTS
    Handlers,    \* concurrent mute, timeout and lift requests
    Members,     \* a member in a channel: the keys of the records
    OtherKeys,   \* the plugin's other keys: bans, report queues, stamps, mutexes
    KeyPos,      \* the position of a key in the store's listing order
    Durations,   \* timeoutDurations
    MaxTime,     \* bound: the clock stops here
    JobPages,    \* runJob reads at most this many pages ...
    JobPageSize, \* ... of this many keys
    Failures,    \* whether calls to the store may fail and requests be cut off
    NoRecord,    \* no record in the store
    Idle         \* a handler that serves no request

MaxDuration == CHOOSE d \in Durations : \A e \in Durations : e <= d
Latest == MaxTime + MaxDuration

\* A stored record mutes the member or has timed them out until some time,
\* past or future; 0 is no timeout.
Records == {rec \in [muted : BOOLEAN, until : 0..Latest] : rec.muted \/ rec.until # 0}
Stored == Records \cup {NoRecord}

\* A request between its read of the record and its write.
Requests == [op : {"mute", "timeout", "lift"}, member : Members,
             read : Stored, at : 1..MaxTime]

ASSUME KeysAssumption ==
    /\ IsFiniteSet(Members) /\ IsFiniteSet(OtherKeys) /\ Members \cap OtherKeys = {}
    /\ IsKeyOrder(KeyPos, Members \cup OtherKeys)
ASSUME DurationsAssumption ==
    /\ Durations \subseteq Nat \ {0}
    /\ \E d \in Durations : \A e \in Durations : e <= d
ASSUME BoundsAssumption ==
    /\ MaxTime \in Nat \ {0}
    /\ JobPages \in Nat \ {0}
    /\ JobPageSize \in Nat \ {0}
    /\ Failures \in BOOLEAN
ASSUME DistinctAssumption == NoRecord \notin Records /\ Idle \notin Requests

------------------------------------------------------------------------------
(* Restriction: what a record says at time t (types.go).                   *)

Until(rec) == IF rec = NoRecord THEN 0 ELSE rec.until
Muted(rec) == rec # NoRecord /\ rec.muted
TimedOutNow(rec, t) == rec # NoRecord /\ rec.until > t
Active(rec, t) == Muted(rec) \/ TimedOutNow(rec, t)


------------------------------------------------------------------------------

VARIABLES
    record,   \* member -> the restriction record in the store
    others,   \* the other keys that are in the store
    request,  \* handler -> the request it serves
    now,      \* the time
    job       \* runJob: its stage, its time, its page, what it read and found

vars == <<record, others, request, now, job>>

Jobs == [stage : {"idle", "list", "read", "delete"}, at : 0..MaxTime, page : Nat,
         more : BOOLEAN, unread : SUBSET Members, expired : SUBSET Members]
NoJob == [stage |-> "idle", at |-> 0, page |-> 0, more |-> FALSE,
          unread |-> {}, expired |-> {}]

TypeOK ==
    /\ record \in [Members -> Stored]
    /\ others \subseteq OtherKeys
    /\ request \in [Handlers -> Requests \cup {Idle}]
    /\ now \in 1..MaxTime
    /\ job \in Jobs

\* The plugin starts over the records of an earlier run.
Init ==
    /\ record \in [Members -> {rec \in Stored : Until(rec) <= 1 + MaxDuration}]
    /\ others \in SUBSET OtherKeys
    /\ request = [h \in Handlers |-> Idle]
    /\ now = 1
    /\ job = NoJob

------------------------------------------------------------------------------
(* Requests.                                                               *)

\* Slips in what follows, each of which a property must notice: a timeout that
\* sets no end, a timeout and a mute that start from a fresh record, and a
\* timeout added to the last one.
EmptyTimeout(read, until) == [muted |-> Muted(read), until |-> 0]
FreshTimeout(read, until) == [muted |-> FALSE, until |-> until]
StackedTimeout(read, until) ==
    [muted |-> Muted(read), until |-> Until(read) + until]
FreshMute(read) == [muted |-> TRUE, until |-> 0]

WithMute(read) ==
    [muted |-> TRUE, until |-> Until(read)]
WithTimeout(read, until) ==
    [muted |-> Muted(read), until |-> until]

\* muteUser, timeoutUser and liftRestrictions read the record; a lift needs an
\* active one.
Get(h, op, m) ==
    /\ request[h] = Idle
    /\ op = "lift" => Active(record[m], now)
    /\ request' = [request EXCEPT ![h] =
                     [op |-> op, member |-> m, read |-> record[m], at |-> now]]
    /\ UNCHANGED <<record, others, now, job>>

Finish(h) == request' = [request EXCEPT ![h] = Idle]

SetMute(h) ==
    /\ request[h] # Idle /\ request[h].op = "mute"
    /\ record' = [record EXCEPT ![request[h].member] = WithMute(request[h].read)]
    /\ Finish(h)
    /\ UNCHANGED <<others, now, job>>

\* The end is computed from the time at some moment since the read.
SetTimeout(h) ==
    /\ request[h] # Idle /\ request[h].op = "timeout"
    /\ \E d \in Durations, t \in request[h].at..now :
        record' = [record EXCEPT ![request[h].member] =
                     WithTimeout(request[h].read, t + d)]
    /\ Finish(h)
    /\ UNCHANGED <<others, now, job>>

DeleteLifted(h) ==
    /\ request[h] # Idle /\ request[h].op = "lift"
    /\ record' = [record EXCEPT ![request[h].member] = NoRecord]
    /\ Finish(h)
    /\ UNCHANGED <<others, now, job>>

\* The write fails, or the node stops: the request ends without one.
CutOff(h) ==
    /\ Failures
    /\ request[h] # Idle
    /\ Finish(h)
    /\ UNCHANGED <<record, others, now, job>>

Moderate(h) ==
    \/ \E op \in {"mute", "timeout", "lift"}, m \in Members : Get(h, op, m)
    \/ SetMute(h)
    \/ SetTimeout(h)
    \/ DeleteLifted(h)
    \/ CutOff(h)

Tick ==
    /\ now < MaxTime
    /\ now' = now + 1
    /\ UNCHANGED <<record, others, request, job>>

\* The rest of the plugin stores or deletes another key.
OtherKey(k) ==
    /\ others' \in {others \cup {k}, others \ {k}} \ {others}
    /\ UNCHANGED <<record, request, now, job>>

------------------------------------------------------------------------------
(* runJob, a call to the store at a time; one node runs it at a time.      *)

JobStart ==
    /\ job.stage = "idle"
    /\ job' = [NoJob EXCEPT !.stage = "list", !.at = now]
    /\ UNCHANGED <<record, others, request, now>>

\* More slips: the job forgets mutes, and reads one page only.
CollectsMuted(rec, t) == rec # NoRecord /\ rec.until # 0 /\ ~TimedOutNow(rec, t)
FirstPageOnly(keys) == FALSE

\* What runJob collects, and whether it reads another page.
Collects(rec, t) ==
    rec # NoRecord /\ ~rec.muted /\ rec.until # 0 /\ ~TimedOutNow(rec, t)
HasMore(keys) == Cardinality(keys) = JobPageSize /\ job.page + 1 < JobPages

\* All keys of the plugin that are in the store.
Keys == {m \in Members : record[m] # NoRecord} \cup others

\* ListRestrictionKeys: a page of all keys, of which those of restrictions are
\* kept.  The loop stops at a page with fewer keys, or at the last page.
JobList ==
    LET keys == KeysOnPage(Keys, KeyPos, JobPageSize, job.page)
    IN  /\ job.stage = "list"
        /\ job' = [job EXCEPT !.stage = "read", !.unread = keys \cap Members,
                     !.page = @ + 1, !.more = HasMore(keys)]
        /\ UNCHANGED <<record, others, request, now>>

\* Slip: as the job's comment warns against, an expired record is deleted the
\* moment it is read.
JobReadAndDelete(m) ==
    /\ job.stage = "read" /\ m \in job.unread
    /\ job' = [job EXCEPT !.unread = @ \ {m}]
    /\ record' = IF Collects(record[m], job.at) THEN [record EXCEPT ![m] = NoRecord]
                                                ELSE record
    /\ UNCHANGED <<others, request, now>>

\* GetRestrictionByKey for one listed key; a failing read skips it.
JobRead(m) ==
    /\ job.stage = "read" /\ m \in job.unread
    /\ \/ /\ Collects(record[m], job.at)
          /\ job' = [job EXCEPT !.unread = @ \ {m}, !.expired = @ \cup {m}]
       \/ /\ ~Collects(record[m], job.at) \/ Failures
          /\ job' = [job EXCEPT !.unread = @ \ {m}]
    /\ UNCHANGED <<record, others, request, now>>

JobNextPage ==
    /\ job.stage = "read" /\ job.unread = {}
    /\ job' = [job EXCEPT !.stage = IF job.more THEN "list" ELSE "delete"]
    /\ UNCHANGED <<record, others, request, now>>

\* DeleteByKey for one collected key, without another look; it may fail.
JobDelete(m) ==
    /\ job.stage = "delete" /\ m \in job.expired
    /\ job' = [job EXCEPT !.expired = @ \ {m}]
    /\ \/ record' = [record EXCEPT ![m] = NoRecord]
       \/ Failures /\ UNCHANGED record
    /\ UNCHANGED <<others, request, now>>

JobDone == job.stage = "delete" /\ job.expired = {}

JobEnd ==
    /\ JobDone
    /\ job' = NoJob
    /\ UNCHANGED <<record, others, request, now>>

\* Listing fails, or the node stops, before the run is done.
JobCutOff ==
    /\ job.stage # "idle" /\ ~JobDone
    /\ job' = NoJob
    /\ UNCHANGED <<record, others, request, now>>

JobStep ==
    \/ JobStart
    \/ JobList
    \/ \E m \in Members : JobRead(m)
    \/ JobNextPage
    \/ \E m \in Members : JobDelete(m)
    \/ JobEnd

------------------------------------------------------------------------------

Next ==
    \/ \E h \in Handlers : Moderate(h)
    \/ \E k \in OtherKeys : OtherKey(k)
    \/ Tick
    \/ JobStep
    \/ JobCutOff

Spec == Init /\ [][Next]_vars

\* Time passes and the job is scheduled every hour.
Fairness == WF_vars(Tick) /\ WF_vars(JobStep)
FairSpec == Spec /\ Fairness

------------------------------------------------------------------------------
(* What is expected of restrictions.                                       *)

\* What a record is meant to say at time t; one that says nothing any more has
\* expired.
InForce(rec, t) == rec # NoRecord /\ (rec.muted \/ t < rec.until)
Expired(rec, t) == rec # NoRecord /\ ~InForce(rec, t)

Lifts(m) == \E h \in Handlers : DeleteLifted(h) /\ request[h].member = m
Mutes(m) == \E h \in Handlers : SetMute(h) /\ request[h].member = m
TimesOut(m) == \E h \in Handlers : SetTimeout(h) /\ request[h].member = m

\* A write of what rests on a record read before another request replaced it.
OutdatedWrite(m) ==
    \E h \in Handlers :
        /\ SetMute(h) \/ SetTimeout(h)
        /\ request[h].member = m
        /\ request[h].read # record[m]

\* The job deletes a record that it would not collect now: one that a request has
\* renewed since the run read it (JobHistory).
RenewedDelete(m) == JobDelete(m) /\ ~Collects(record[m], job.at)

\* "A muted member can't post or react until the mute is lifted" (types.go): a
\* mute starts with muteUser and ends with a lift, and timing the member out
\* leaves it as it is.  The code breaks the promise in two ways, and no others:
\* an outdated write undoes what a request in between did, and the job deletes a
\* mute set after it took the record for an expired one.
MuteKept ==
    [][\A m \in Members : Muted(record[m])' # Muted(record[m]) =>
         Lifts(m) \/ Mutes(m) \/ OutdatedWrite(m) \/ RenewedDelete(m)]_vars

\* The end of a running timeout changes only by a lift or a newer timeout:
\* muting the member leaves it as it is.  The same two exceptions, and no others.
TimeoutKept ==
    [][\A m \in Members :
         TimedOutNow(record[m], now) /\ Until(record[m]') # Until(record[m]) =>
             Lifts(m) \/ TimesOut(m) \/ OutdatedWrite(m) \/ RenewedDelete(m)]_vars

\* Whatever requests and job runs interleave, nobody is timed out for longer
\* than the longest duration on offer (timeoutDurations).
TimeoutBounded == \A m \in Members : Until(record[m]) <= now + MaxDuration

\* The store does not "accumulate stale records" (the comment on runJob): once
\* moderators stop, the plugin's other keys come and go no more and are few enough
\* for the pages of a run, and runs are no longer cut off, no expired record is
\* left, whatever runs before were cut off between two of their calls.
ModeratorsStop == <>[][\A h \in Handlers : ~Moderate(h)]_vars
OthersRest == <>[][\A k \in OtherKeys : ~OtherKey(k)]_vars
KeysFit == <>[](Cardinality(Keys) <= JobPages * JobPageSize)
RunsComplete == <>[][~JobCutOff]_vars
ExpiredRemoved ==
    ModeratorsStop /\ OthersRest /\ KeysFit /\ RunsComplete =>
        \A m \in Members : <>[]~Expired(record[m], now)
==============================================================================
