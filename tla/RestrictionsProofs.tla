-------------------------- MODULE RestrictionsProofs --------------------------
(***************************************************************************)
(* Proofs about Restrictions for every set of handlers, members and        *)
(* durations, any clock bound and any page size; then about Enforcement,   *)
(* which runs the hooks beside them: what a hook lets through and stops,   *)
(* whatever happens while it is at work, and that the message box agrees.  *)
(***************************************************************************)
EXTENDS Enforcement, JobHistory, KVPagingProofs

\* The longest duration is one of them.
LEMMA MaxDurationLongest ==
    /\ MaxDuration \in Durations
    /\ MaxDuration \in Nat
    /\ \A d \in Durations : d <= MaxDuration
BY DurationsAssumption DEF MaxDuration

LEMMA TimesAreNat == MaxTime \in Nat /\ Latest \in Nat
BY BoundsAssumption, MaxDurationLongest DEF Latest

LEMMA NoJobType == NoJob \in Jobs
BY TimesAreNat DEF NoJob, Jobs

\* What a record says, and what a request makes of the record it read.
LEMMA RecordParts ==
    ASSUME NEW rec \in Stored
    PROVE  Until(rec) \in 0..Latest /\ Muted(rec) \in BOOLEAN
BY TimesAreNat DEF Stored, Records, Until, Muted

LEMMA RecordMade ==
    ASSUME NEW m \in BOOLEAN, NEW u \in 0..Latest, m \/ u # 0
    PROVE  /\ [muted |-> m, until |-> u] \in Stored
           /\ Until([muted |-> m, until |-> u]) = u
BY DistinctAssumption DEF Stored, Records, Until

\* Nobody is timed out beyond now + MaxDuration, nor is a record that a request
\* has read and may write back; a request began in the past.
BoundedRequests ==
    \A h \in Handlers : request[h] # Idle =>
        /\ Until(request[h].read) <= now + MaxDuration
        /\ request[h].at <= now

BoundInv == TypeOK /\ TimeoutBounded /\ BoundedRequests

LEMMA InitBound == Init => BoundInv
<1> SUFFICES ASSUME Init PROVE BoundInv
  OBVIOUS
<1>1. TypeOK
  BY BoundsAssumption, NoJobType DEF Init, TypeOK
<1>2. TimeoutBounded
  BY DEF Init, TimeoutBounded
<1>3. BoundedRequests
  BY DEF Init, BoundedRequests
<1> QED
  BY <1>1, <1>2, <1>3 DEF BoundInv

\* A record written back within the bound keeps the invariant.
LEMMA WriteKeepsBound ==
    ASSUME BoundInv, NEW h \in Handlers, NEW rec \in Stored,
           request[h] # Idle, Until(rec) <= now + MaxDuration,
           record' = [record EXCEPT ![request[h].member] = rec],
           Finish(h), UNCHANGED <<others, now, job>>
    PROVE  BoundInv'
<1> USE DEF BoundInv
<1>1. request[h] \in Requests
  BY DEF TypeOK
<1>2. TypeOK'
  BY <1>1 DEF TypeOK, Finish, Requests
<1>3. TimeoutBounded'
  BY <1>1 DEF TimeoutBounded, TypeOK, Requests
<1>4. BoundedRequests'
  BY DEF BoundedRequests, Finish, TypeOK
<1> QED
  BY <1>2, <1>3, <1>4

LEMMA ModerateKeepsBound ==
    ASSUME BoundInv, NEW h \in Handlers, Moderate(h)
    PROVE  BoundInv'
<1> USE DEF BoundInv
<1>1. ASSUME NEW op \in {"mute", "timeout", "lift"}, NEW m \in Members, Get(h, op, m)
      PROVE  BoundInv'
  <2>1. [op |-> op, member |-> m, read |-> record[m], at |-> now] \in Requests
    BY DEF TypeOK, Requests
  <2>2. now \in Nat
    BY TimesAreNat DEF TypeOK
  <2>3. TypeOK' /\ TimeoutBounded'
    BY <1>1, <2>1 DEF Get, TypeOK, TimeoutBounded
  <2>4. BoundedRequests'
    BY <1>1, <2>1, <2>2 DEF Get, TypeOK, TimeoutBounded, BoundedRequests
  <2> QED
    BY <2>3, <2>4
<1>2. ASSUME request[h] # Idle
      PROVE  /\ request[h].read \in Stored /\ request[h].at \in Nat
             /\ Until(request[h].read) <= now + MaxDuration
             /\ request[h].at <= now
  BY <1>2 DEF TypeOK, Requests, BoundedRequests
<1>3. CASE SetMute(h)
  <2>1. request[h] # Idle
    BY <1>3 DEF SetMute
  <2>2. Until(request[h].read) \in 0..Latest
    BY <1>2, <2>1, RecordParts
  <2>3. /\ WithMute(request[h].read) \in Stored
        /\ Until(WithMute(request[h].read)) = Until(request[h].read)
    BY <2>2, RecordMade DEF WithMute
  <2> QED
    BY <1>2, <1>3, <2>1, <2>3, WriteKeepsBound DEF SetMute
<1>4. CASE SetTimeout(h)
  <2>1. request[h] # Idle
    BY <1>4 DEF SetTimeout
  <2>2. PICK d \in Durations, t \in request[h].at..now :
          record' = [record EXCEPT ![request[h].member] =
                       WithTimeout(request[h].read, t + d)]
    BY <1>4 DEF SetTimeout
  <2>3. now \in 1..MaxTime /\ now \in Nat /\ d \in Nat \ {0} /\ d <= MaxDuration
    BY TimesAreNat, MaxDurationLongest, DurationsAssumption DEF TypeOK
  <2>4. t + d \in 0..Latest /\ t + d # 0 /\ t + d <= now + MaxDuration
    BY <1>2, <2>1, <2>3, MaxDurationLongest, TimesAreNat DEF Latest
  <2>5. /\ WithTimeout(request[h].read, t + d) \in Stored
        /\ Until(WithTimeout(request[h].read, t + d)) = t + d
    BY <1>2, <2>1, <2>4, RecordParts, RecordMade DEF WithTimeout
  <2> QED
    BY <1>4, <2>1, <2>2, <2>4, <2>5, WriteKeepsBound DEF SetTimeout
<1>5. CASE DeleteLifted(h)
  <2>1. NoRecord \in Stored /\ Until(NoRecord) = 0 /\ now \in Nat
    BY TimesAreNat DEF Stored, Until, TypeOK
  <2>2. Until(NoRecord) <= now + MaxDuration
    BY <2>1, MaxDurationLongest
  <2> QED
    BY <1>5, <2>1, <2>2, WriteKeepsBound DEF DeleteLifted
<1>6. CASE CutOff(h)
  <2>1. TypeOK' /\ TimeoutBounded'
    BY <1>6 DEF CutOff, Finish, TypeOK, TimeoutBounded
  <2>2. BoundedRequests'
    BY <1>6 DEF CutOff, Finish, TypeOK, BoundedRequests
  <2> QED
    BY <2>1, <2>2
<1> QED
  BY <1>1, <1>3, <1>4, <1>5, <1>6 DEF Moderate

LEMMA TickKeepsBound == BoundInv /\ Tick => BoundInv'
<1> SUFFICES ASSUME BoundInv, Tick PROVE BoundInv'
  OBVIOUS
<1> USE DEF BoundInv
<1>1. now \in Nat /\ MaxTime \in Nat /\ now' = now + 1 /\ now' \in 1..MaxTime
  BY TimesAreNat DEF Tick, TypeOK
<1>2. TypeOK'
  BY <1>1 DEF Tick, TypeOK
<1>3. \A m \in Members : Until(record[m]) \in Nat
  BY RecordParts, TimesAreNat DEF TypeOK
<1>4. \A h \in Handlers : request[h] # Idle =>
        Until(request[h].read) \in Nat /\ request[h].at \in Nat
  BY RecordParts, TimesAreNat DEF TypeOK, Requests
<1>5. TimeoutBounded'
  BY <1>1, <1>3, MaxDurationLongest DEF TimeoutBounded, Tick
<1>6. BoundedRequests'
  BY <1>1, <1>4, MaxDurationLongest DEF BoundedRequests, Tick
<1> QED
  BY <1>2, <1>5, <1>6

\* The job writes no record: it deletes some, and keeps its own state typed.
LEMMA JobKeepsBound ==
    ASSUME BoundInv, JobStep \/ JobCutOff
    PROVE  BoundInv'
<1> USE DEF BoundInv
<1>1. UNCHANGED <<others, request, now>>
  BY DEF JobStep, JobCutOff, JobStart, JobList, JobRead, JobNextPage, JobDelete, JobEnd
<1>2. \A m \in Members : record'[m] \in {record[m], NoRecord}
  BY DEF TypeOK, JobStep, JobCutOff, JobStart, JobList, JobRead, JobNextPage, JobDelete, JobEnd
<1>3. record' \in [Members -> Stored]
  BY DEF Stored, TypeOK, JobStep, JobCutOff, JobStart, JobList, JobRead, JobNextPage,
         JobDelete, JobEnd
<1>4. now \in 0..MaxTime
  BY TimesAreNat DEF TypeOK
<1>5. job' \in Jobs
  <2>1. CASE JobStart
    <3>1. job' = [stage |-> "list", at |-> now, page |-> 0, more |-> FALSE,
                  unread |-> {}, expired |-> {}]
      BY <2>1 DEF JobStart, NoJob
    <3> QED
      BY <1>4, <3>1 DEF Jobs
  <2>2. CASE JobList
    <3> DEFINE keys == KeysOnPage(Keys, KeyPos, JobPageSize, job.page)
    <3>1. HasMore(keys) \in BOOLEAN /\ keys \cap Members \in SUBSET Members
      BY DEF HasMore
    <3>2. job' = [stage |-> "read", at |-> job.at, page |-> job.page + 1,
                  more |-> HasMore(keys), unread |-> keys \cap Members,
                  expired |-> job.expired]
      BY <2>2 DEF JobList, TypeOK, Jobs
    <3> HIDE DEF keys
    <3> QED
      BY <3>1, <3>2 DEF TypeOK, Jobs
  <2>3. ASSUME NEW m \in Members, JobRead(m)
        PROVE  job' \in Jobs
    <3>1. CASE job' = [job EXCEPT !.unread = @ \ {m}, !.expired = @ \cup {m}]
      <4>1. job' = [stage |-> job.stage, at |-> job.at, page |-> job.page, more |-> job.more,
                    unread |-> job.unread \ {m}, expired |-> job.expired \cup {m}]
        BY <3>1 DEF TypeOK, Jobs
      <4> QED
        BY <4>1 DEF TypeOK, Jobs
    <3>2. CASE job' = [job EXCEPT !.unread = @ \ {m}]
      BY <3>2 DEF TypeOK, Jobs
    <3> QED
      BY <2>3, <3>1, <3>2 DEF JobRead
  <2>4. CASE JobNextPage
    BY <2>4 DEF TypeOK, Jobs, JobNextPage
  <2>5. ASSUME NEW m \in Members, JobDelete(m)
        PROVE  job' \in Jobs
    BY <2>5 DEF TypeOK, Jobs, JobDelete
  <2>6. CASE JobEnd \/ JobCutOff
    BY <2>6, NoJobType DEF JobEnd, JobCutOff
  <2> QED
    BY <2>1, <2>2, <2>3, <2>4, <2>5, <2>6 DEF JobStep
<1>6. TypeOK'
  BY <1>1, <1>3, <1>5 DEF TypeOK
<1>7. TimeoutBounded'
  <2>1. Until(NoRecord) <= now + MaxDuration
    BY TimesAreNat, MaxDurationLongest DEF Until, TypeOK
  <2> QED
    BY <1>1, <1>2, <2>1 DEF TimeoutBounded
<1>8. BoundedRequests'
  BY <1>1 DEF BoundedRequests
<1> QED
  BY <1>6, <1>7, <1>8

\* The plugin's other keys are none of the requests' or the job's concern.
LEMMA OtherKeyKeepsBound ==
    ASSUME BoundInv, NEW k \in OtherKeys, OtherKey(k)
    PROVE  BoundInv'
<1>1. others' \subseteq OtherKeys
  BY DEF OtherKey, BoundInv, TypeOK
<1> QED
  BY <1>1 DEF OtherKey, BoundInv, TypeOK, TimeoutBounded, BoundedRequests

LEMMA BoundStep == BoundInv /\ [Next]_vars => BoundInv'
<1>1. BoundInv /\ UNCHANGED vars => BoundInv'
  BY DEF BoundInv, vars, TypeOK, TimeoutBounded, BoundedRequests
<1> QED
  BY <1>1, ModerateKeepsBound, OtherKeyKeepsBound, TickKeepsBound, JobKeepsBound DEF Next

\* Types and the bound on timeouts, whatever requests, jobs and failures
\* interleave.
THEOREM TimeoutsBounded == Spec => [](TypeOK /\ TimeoutBounded)
<1>1. BoundInv /\ [Next]_vars => BoundInv'
  BY BoundStep
<1>2. BoundInv => TypeOK /\ TimeoutBounded
  BY DEF BoundInv
<1> QED
  BY InitBound, <1>1, <1>2, PTL DEF Spec

------------------------------------------------------------------------------
(* Mutes and timeouts are kept.                                            *)

\* A job that runs began in the past.
JobBegan == job.at <= now

KeptInv == BoundInv /\ JobBegan

LEMMA JobBeganStep == KeptInv /\ [Next]_vars => JobBegan'
<1> SUFFICES ASSUME KeptInv, [Next]_vars PROVE JobBegan'
  OBVIOUS
<1>1. now \in Nat /\ job \in Jobs /\ job.at \in Nat /\ job.at <= now
  BY TimesAreNat DEF KeptInv, BoundInv, TypeOK, Jobs, JobBegan
<1>2. now' = now \/ now' = now + 1
  BY DEF Next, Moderate, Get, SetMute, SetTimeout, DeleteLifted, CutOff, Tick, OtherKey, JobStep, JobCutOff,
         JobStart, JobList, JobRead, JobNextPage, JobDelete, JobEnd, vars
<1>3. job'.at \in {job.at, now, 0}
  <2>1. NoJob.at = 0 /\ [NoJob EXCEPT !.stage = "list", !.at = now].at = now
    BY DEF NoJob
  <2>2. CASE job' = job \/ job' = NoJob \/ JobStart
    BY <2>1, <2>2 DEF JobStart
  <2>3. CASE JobList \/ JobNextPage \/ \E m \in Members : JobRead(m) \/ JobDelete(m)
    BY <1>1, <2>3 DEF JobList, JobNextPage, JobRead, JobDelete, Jobs
  <2> QED
    BY <2>2, <2>3
       DEF Next, Moderate, Get, SetMute, SetTimeout, DeleteLifted, CutOff, Tick, OtherKey, JobStep,
           JobCutOff, JobEnd, vars
<1> QED
  BY <1>1, <1>2, <1>3 DEF JobBegan

\* Who writes the record of a member, and what.
LEMMA Writers ==
    ASSUME TypeOK, [Next]_vars, NEW m \in Members, record'[m] # record[m]
    PROVE  \/ Lifts(m)
           \/ \E h \in Handlers : /\ request[h] # Idle /\ request[h].member = m
                                 /\ SetMute(h)
                                 /\ record'[m] = WithMute(request[h].read)
           \/ \E h \in Handlers, until \in Nat :
                 /\ request[h] # Idle /\ request[h].member = m
                 /\ SetTimeout(h)
                 /\ record'[m] = WithTimeout(request[h].read, until)
           \/ JobDelete(m) /\ record'[m] = NoRecord
<1>1. ASSUME NEW h \in Handlers, SetMute(h)
      PROVE  request[h] # Idle /\ request[h].member = m /\ record'[m] = WithMute(request[h].read)
  BY <1>1 DEF SetMute, TypeOK, Requests
<1>2. ASSUME NEW h \in Handlers, SetTimeout(h)
      PROVE  /\ request[h] # Idle /\ request[h].member = m
             /\ \E until \in Nat : record'[m] = WithTimeout(request[h].read, until)
  <2>1. request[h] # Idle /\ request[h] \in Requests
    BY <1>2 DEF SetTimeout, TypeOK
  <2>2. PICK d \in Durations, t \in request[h].at..now :
          record' = [record EXCEPT ![request[h].member] = WithTimeout(request[h].read, t + d)]
    BY <1>2 DEF SetTimeout
  <2>3. t + d \in Nat
    BY <2>1, DurationsAssumption, TimesAreNat DEF Requests, TypeOK
  <2>4. request[h].member = m /\ record'[m] = WithTimeout(request[h].read, t + d)
    BY <2>1, <2>2 DEF TypeOK, Requests
  <2> QED
    BY <2>1, <2>3, <2>4
<1>3. ASSUME NEW h \in Handlers, DeleteLifted(h) PROVE Lifts(m)
  BY <1>3 DEF DeleteLifted, Lifts, TypeOK, Requests
<1>4. ASSUME NEW n \in Members, JobDelete(n) PROVE JobDelete(m) /\ record'[m] = NoRecord
  BY <1>4 DEF JobDelete, TypeOK
<1> QED
  BY <1>1, <1>2, <1>3, <1>4
     DEF Next, Moderate, Get, CutOff, Tick, OtherKey, JobStep, JobCutOff, JobStart, JobList, JobRead,
         JobNextPage, JobEnd, vars

LEMMA MuteStep ==
    ASSUME BoundInv, [Next]_vars, NEW m \in Members, Muted(record[m])' # Muted(record[m])
    PROVE  Lifts(m) \/ Mutes(m) \/ OutdatedWrite(m) \/ RenewedDelete(m)
<1>1. TypeOK /\ record[m] \in Stored /\ record'[m] # record[m]
  BY DEF BoundInv, TypeOK
<1>2. ASSUME NEW h \in Handlers, SetMute(h), request[h].member = m PROVE Mutes(m)
  BY <1>2 DEF Mutes
<1>3. ASSUME NEW h \in Handlers, NEW until \in Nat, SetTimeout(h), request[h].member = m,
             record'[m] = WithTimeout(request[h].read, until)
      PROVE  OutdatedWrite(m)
  <2>1. CASE request[h].read = record[m]
    <3>1. record'[m] \in Stored
      BY BoundStep DEF BoundInv, TypeOK
    <3>2. record'[m].muted = Muted(record[m]) /\ record'[m] # NoRecord
      <4>1. record'[m] = [muted |-> Muted(record[m]), until |-> until]
        BY <1>3, <2>1 DEF WithTimeout
      <4>2. PICK d \in Durations, t \in request[h].at..now :
              record' = [record EXCEPT ![request[h].member] = WithTimeout(request[h].read, t + d)]
        BY <1>3 DEF SetTimeout
      <4>3. request[h] # Idle /\ request[h] \in Requests
        BY <1>1, <1>3 DEF SetTimeout, TypeOK
      <4>4. record'[m] = [muted |-> Muted(record[m]), until |-> t + d]
        BY <1>1, <1>3, <2>1, <4>2, <4>3 DEF TypeOK, WithTimeout
      <4>5. d \in Nat \ {0} /\ d <= MaxDuration /\ MaxDuration \in Nat /\ t \in Nat /\ t <= now
            /\ now \in 1..MaxTime /\ MaxTime \in Nat
        BY <1>1, <4>3, DurationsAssumption, MaxDurationLongest, TimesAreNat DEF TypeOK, Requests
      <4>6. t + d \in 0..Latest /\ t + d # 0
        BY <4>5 DEF Latest
      <4>7. [muted |-> Muted(record[m]), until |-> t + d] \in Records
        BY <1>1, <4>6, RecordParts DEF Records
      <4> QED
        BY <4>4, <4>7, DistinctAssumption
    <3> QED
      BY <3>2 DEF Muted
  <2>2. CASE request[h].read # record[m]
    BY <1>3, <2>2 DEF OutdatedWrite
  <2> QED
    BY <2>1, <2>2
<1>4. ASSUME JobDelete(m), record'[m] = NoRecord PROVE RenewedDelete(m)
  BY <1>1, <1>4, RecordParts DEF RenewedDelete, Collects, Muted
<1> QED
  BY <1>1, <1>2, <1>3, <1>4, Writers

LEMMA TimeoutStep ==
    ASSUME KeptInv, [Next]_vars, NEW m \in Members, TimedOutNow(record[m], now),
           Until(record[m]') # Until(record[m])
    PROVE  Lifts(m) \/ TimesOut(m) \/ OutdatedWrite(m) \/ RenewedDelete(m)
<1>1. TypeOK /\ record[m] \in Stored /\ record'[m] # record[m]
  BY DEF KeptInv, BoundInv, TypeOK
<1>2. ASSUME NEW h \in Handlers, SetTimeout(h), request[h].member = m PROVE TimesOut(m)
  BY <1>2 DEF TimesOut
<1>3. ASSUME NEW h \in Handlers, SetMute(h), request[h].member = m,
             record'[m] = WithMute(request[h].read)
      PROVE  OutdatedWrite(m)
  <2>1. CASE request[h].read = record[m]
    <3>1. Until(record[m]) \in 0..Latest
      BY <1>1, RecordParts
    <3> QED
      BY <1>3, <2>1, <3>1, RecordMade DEF WithMute
  <2>2. CASE request[h].read # record[m]
    BY <1>3, <2>2 DEF OutdatedWrite
  <2> QED
    BY <2>1, <2>2
<1>4. ASSUME JobDelete(m) PROVE RenewedDelete(m)
  <2>1. ~Collects(record[m], job.at)
    <3>1. record[m] # NoRecord /\ record[m] \in Records /\ record[m].until > now
      BY <1>1 DEF TimedOutNow, Stored
    <3>2. record[m].until \in Nat /\ now \in Nat /\ job.at \in Nat /\ job.at <= now
      BY <1>1, <3>1, TimesAreNat DEF Records, TypeOK, Jobs, KeptInv, JobBegan
    <3> QED
      BY <3>1, <3>2 DEF Collects, TimedOutNow
  <2> QED
    BY <1>4, <2>1 DEF RenewedDelete
<1> QED
  BY <1>1, <1>2, <1>3, <1>4, Writers

LEMMA KeptInvariant == Spec => []KeptInv
<1>1. Init => KeptInv
  BY InitBound DEF KeptInv, JobBegan, Init, NoJob
<1>2. KeptInv /\ [Next]_vars => KeptInv'
  BY BoundStep, JobBeganStep DEF KeptInv
<1> QED
  BY <1>1, <1>2, PTL DEF Spec

\* For any number of concurrent requests, members, durations and other keys: a mute
\* starts with muteUser and ends with a lift; what else changes one is a write that
\* rests on a record that another request has replaced meanwhile (actions.go), or
\* the delete of a record that was renewed since the job read it (job.go), the two
\* ways in which the code may lose a mute.
THEOREM MutesKept == Spec => MuteKept
<1>1. KeptInv /\ [Next]_vars =>
        [\A m \in Members : Muted(record[m])' # Muted(record[m]) =>
           Lifts(m) \/ Mutes(m) \/ OutdatedWrite(m) \/ RenewedDelete(m)]_vars
  BY MuteStep DEF KeptInv
<1> QED
  BY <1>1, KeptInvariant, PTL DEF Spec, MuteKept

\* And the end of a running timeout changes only by a lift or a newer timeout, or
\* in one of the same two ways; a job that read the record when this timeout ran
\* already does not take it for an expired one.
THEOREM TimeoutsKept == Spec => TimeoutKept
<1>1. KeptInv /\ [Next]_vars =>
        [\A m \in Members :
           TimedOutNow(record[m], now) /\ Until(record[m]') # Until(record[m]) =>
               Lifts(m) \/ TimesOut(m) \/ OutdatedWrite(m) \/ RenewedDelete(m)]_vars
  BY TimeoutStep
<1> QED
  BY <1>1, KeptInvariant, PTL DEF Spec, TimeoutKept

------------------------------------------------------------------------------
(* Runs of the job, with requests and the rest of the plugin at the store. *)

\* What an expired record is, for the job and for the hooks.
LEMMA ExpiredIsCollected ==
    ASSUME NEW rec \in Stored, NEW t \in Nat
    PROVE  Expired(rec, t) <=> Collects(rec, t)
<1>1. rec # NoRecord => rec.until \in Nat /\ rec.muted \in BOOLEAN /\ (rec.muted \/ rec.until # 0)
  BY TimesAreNat DEF Stored, Records
<1> QED
  BY <1>1 DEF Expired, InForce, Collects, TimedOutNow

\* What had expired by the start of the run has expired now.
LEMMA ExpiredLasts ==
    ASSUME KeptInv, NEW m \in Members, Collects(record[m], job.at)
    PROVE  Expired(record[m], now)
<1>1. record[m] \in Records /\ now \in Nat /\ job.at \in Nat /\ job.at <= now
  BY TimesAreNat DEF KeptInv, BoundInv, TypeOK, Stored, Jobs, JobBegan, Collects
<1>2. record[m].until \in Nat
  BY <1>1, TimesAreNat DEF Records
<1> QED
  BY <1>1, <1>2 DEF Expired, InForce, Collects, TimedOutNow

\* What the history variables say: a record on the job's list is as the job found
\* it unless it is marked as renewed, and what is due had expired all along.
HistoryTyped == due \subseteq Members /\ renewed \subseteq Members /\ shifts \in Nat
Found ==
    \A m \in job.expired : m \in renewed \/ Collects(record[m], job.at)
Due ==
    /\ job.stage = "idle" => due = {}
    /\ \A m \in due : Collects(record[m], job.at)
Listed ==
    /\ job.stage # "read" => job.unread = {}
    /\ job.stage = "delete" => ~job.more

RunInv == KeptInv /\ HistoryTyped /\ Found /\ Due /\ Listed

\* The steps that leave the job alone, and the job's own.
LEMMA WhoseStep ==
    ASSUME [Next]_vars
    PROVE  \/ job' = job
           \/ record' = record /\ others' = others /\ now' = now
              /\ \/ JobStart \/ JobList \/ JobNextPage \/ JobEnd \/ JobCutOff
                 \/ \E m \in Members : JobRead(m)
           \/ \E m \in Members : JobDelete(m)
BY DEF Next, Moderate, Get, SetMute, SetTimeout, DeleteLifted, CutOff, Tick, OtherKey, JobStep,
       JobCutOff, JobStart, JobList, JobRead, JobNextPage, JobEnd, vars

\* What each step of the job makes of it.
LEMMA JobMade ==
    ASSUME TypeOK
    PROVE  /\ JobStart => job' = [stage |-> "list", at |-> now, page |-> 0, more |-> FALSE,
                                  unread |-> {}, expired |-> {}]
           /\ JobEnd \/ JobCutOff => job' = NoJob
           /\ JobList => LET keys == KeysOnPage(Keys, KeyPos, JobPageSize, job.page)
                         IN  job' = [stage |-> "read", at |-> job.at, page |-> job.page + 1,
                                     more |-> HasMore(keys), unread |-> keys \cap Members,
                                     expired |-> job.expired]
           /\ JobNextPage => job' = [stage |-> IF job.more THEN "list" ELSE "delete",
                                     at |-> job.at, page |-> job.page, more |-> job.more,
                                     unread |-> job.unread, expired |-> job.expired]
           /\ \A m \in Members : JobDelete(m) =>
                job' = [stage |-> job.stage, at |-> job.at, page |-> job.page, more |-> job.more,
                        unread |-> job.unread, expired |-> job.expired \ {m}]
           /\ \A m \in Members : JobRead(m) =>
                \E found \in SUBSET {m} :
                  /\ job' = [stage |-> job.stage, at |-> job.at, page |-> job.page,
                             more |-> job.more, unread |-> job.unread \ {m},
                             expired |-> job.expired \cup found]
                  /\ found = {m} => Collects(record[m], job.at)
<1>1. job = [stage |-> job.stage, at |-> job.at, page |-> job.page, more |-> job.more,
             unread |-> job.unread, expired |-> job.expired]
  BY DEF TypeOK, Jobs
<1>2. JobStart => job' = [stage |-> "list", at |-> now, page |-> 0, more |-> FALSE,
                          unread |-> {}, expired |-> {}]
  BY DEF JobStart, NoJob
<1>3. JobEnd \/ JobCutOff => job' = NoJob
  BY DEF JobEnd, JobCutOff
<1>4. JobList => LET keys == KeysOnPage(Keys, KeyPos, JobPageSize, job.page)
                 IN  job' = [stage |-> "read", at |-> job.at, page |-> job.page + 1,
                             more |-> HasMore(keys), unread |-> keys \cap Members,
                             expired |-> job.expired]
  BY <1>1 DEF JobList
<1>5. JobNextPage => job' = [stage |-> IF job.more THEN "list" ELSE "delete",
                             at |-> job.at, page |-> job.page, more |-> job.more,
                             unread |-> job.unread, expired |-> job.expired]
  BY <1>1 DEF JobNextPage
<1>6. \A m \in Members : JobDelete(m) =>
        job' = [stage |-> job.stage, at |-> job.at, page |-> job.page, more |-> job.more,
                unread |-> job.unread, expired |-> job.expired \ {m}]
  BY <1>1 DEF JobDelete
<1>7. ASSUME NEW m \in Members, JobRead(m)
      PROVE  \E found \in SUBSET {m} :
               /\ job' = [stage |-> job.stage, at |-> job.at, page |-> job.page,
                          more |-> job.more, unread |-> job.unread \ {m},
                          expired |-> job.expired \cup found]
               /\ found = {m} => Collects(record[m], job.at)
  <2>1. CASE /\ Collects(record[m], job.at)
             /\ job' = [job EXCEPT !.unread = @ \ {m}, !.expired = @ \cup {m}]
    <3> WITNESS {m} \in SUBSET {m}
    <3> QED
      BY <1>1, <2>1
  <2>2. CASE job' = [job EXCEPT !.unread = @ \ {m}]
    <3>1. job' = [stage |-> job.stage, at |-> job.at, page |-> job.page, more |-> job.more,
                  unread |-> job.unread \ {m}, expired |-> job.expired \cup {}]
      BY <1>1, <2>2
    <3> WITNESS {} \in SUBSET {m}
    <3> QED
      BY <3>1
  <2> QED
    BY <1>7, <2>1, <2>2 DEF JobRead
<1> QED
  BY <1>2, <1>3, <1>4, <1>5, <1>6, <1>7

LEMMA FoundStep == RunInv /\ [Next]_vars /\ renewed' = RenewedNext => Found'
<1> SUFFICES ASSUME RunInv, [Next]_vars, renewed' = RenewedNext,
                    NEW m \in job'.expired, m \notin renewed'
             PROVE  Collects(record'[m], job'.at)
  BY DEF Found
<1>1. TypeOK /\ job \in Jobs
  BY DEF RunInv, KeptInv, BoundInv, TypeOK
<1>2. m \in job.expired => record'[m] = record[m] /\ Collects(record[m], job.at)
  BY DEF RenewedNext, RunInv, Found
<1>3. CASE job' = job
  BY <1>2, <1>3
<1>4. CASE JobStart \/ JobEnd \/ JobCutOff
  BY <1>1, <1>4, JobMade DEF NoJob
<1>5. CASE JobList \/ JobNextPage \/ \E n \in Members : JobDelete(n)
  <2>1. job'.at = job.at /\ m \in job.expired
    BY <1>1, <1>5, JobMade
  <2> QED
    BY <1>2, <2>1
<1>6. CASE record' = record /\ \E n \in Members : JobRead(n)
  <2>1. PICK n \in Members : JobRead(n)
    BY <1>6
  <2>2. PICK found \in SUBSET {n} :
          /\ job'.at = job.at /\ job'.expired = job.expired \cup found
          /\ found = {n} => Collects(record[n], job.at)
    BY <1>1, <2>1, JobMade
  <2>3. CASE m \in job.expired
    BY <1>2, <2>2, <2>3
  <2>4. CASE m \notin job.expired
    <3>1. m = n /\ found = {n}
      BY <2>2, <2>4
    <3> QED
      BY <1>6, <2>2, <3>1
  <2> QED
    BY <2>3, <2>4
<1> QED
  BY <1>3, <1>4, <1>5, <1>6, WhoseStep

LEMMA DueStep == RunInv /\ [Next]_vars /\ due' = DueNext => Due'
<1> SUFFICES ASSUME RunInv, [Next]_vars, due' = DueNext PROVE Due'
  OBVIOUS
<1>1. TypeOK /\ record \in [Members -> Stored] /\ now \in Nat
  BY TimesAreNat DEF RunInv, KeptInv, BoundInv, TypeOK
<1>2. CASE job'.stage = "idle"
  BY <1>2 DEF Due, DueNext
<1>3. CASE job'.stage # "idle" /\ job.stage = "idle"
  <2>1. JobStart /\ record' = record
    <3>1. job' # job
      BY <1>3
    <3>2. NoJob.stage = "idle"
      BY DEF NoJob
    <3> QED
      BY <1>1, <1>3, <3>1, <3>2, JobMade, WhoseStep DEF JobList, JobNextPage, JobRead, JobDelete
  <2>2. job'.at = now
    BY <1>1, <2>1, JobMade
  <2> SUFFICES ASSUME NEW m \in due' PROVE Collects(record'[m], job'.at)
    BY <1>3 DEF Due
  <2>3. m \in Members /\ Expired(record[m], now)
    BY <1>3 DEF DueNext, DueAtStart
  <2> QED
    BY <1>1, <2>1, <2>2, <2>3, ExpiredIsCollected
<1>4. CASE job'.stage # "idle" /\ job.stage # "idle"
  <2>1. job'.at = job.at
    <3>1. NoJob.stage = "idle"
      BY DEF NoJob
    <3> QED
      BY <1>1, <1>4, <3>1, JobMade, WhoseStep DEF JobStart
  <2> SUFFICES ASSUME NEW m \in due' PROVE Collects(record'[m], job'.at)
    BY <1>4 DEF Due
  <2>2. m \in due /\ record'[m] = record[m]
    BY <1>4 DEF DueNext
  <2> QED
    BY <2>1, <2>2 DEF RunInv, Due
<1> QED
  BY <1>2, <1>3, <1>4

LEMMA ListedStep == RunInv /\ [Next]_vars => Listed'
<1> SUFFICES ASSUME RunInv, [Next]_vars PROVE Listed'
  OBVIOUS
<1>1. TypeOK /\ Listed
  BY DEF RunInv, KeptInv, BoundInv
<1>2. CASE job' = job
  BY <1>1, <1>2 DEF Listed
<1>3. CASE JobStart \/ JobEnd \/ JobCutOff
  BY <1>1, <1>3, JobMade DEF NoJob, Listed
<1>4. CASE JobList
  BY <1>1, <1>4, JobMade DEF Listed
<1>5. CASE JobNextPage
  <2>1. job.unread = {} /\ job.more \in BOOLEAN
    BY <1>1, <1>5 DEF JobNextPage, TypeOK, Jobs
  <2> QED
    BY <1>1, <1>5, <2>1, JobMade DEF Listed
<1>6. ASSUME NEW m \in Members, JobRead(m) PROVE Listed'
  <2>1. job'.stage = "read"
    BY <1>1, <1>6, JobMade DEF JobRead
  <2> QED
    BY <2>1 DEF Listed
<1>7. ASSUME NEW m \in Members, JobDelete(m) PROVE Listed'
  BY <1>1, <1>7, JobMade DEF Listed, JobDelete
<1> QED
  BY <1>2, <1>3, <1>4, <1>5, <1>6, <1>7, WhoseStep

LEMMA HistoryTypedStep ==
    ASSUME RunInv, [Next]_vars, due' = DueNext, shifts' = ShiftsNext, renewed' = RenewedNext
    PROVE  HistoryTyped'
<1>1. job'.expired \subseteq Members
  BY BoundStep DEF RunInv, KeptInv, BoundInv, TypeOK, Jobs
<1>2. due' \subseteq Members
  BY DEF DueNext, DueAtStart, RunInv, HistoryTyped
<1>3. shifts' \in Nat
  BY DEF ShiftsNext, RunInv, HistoryTyped
<1> QED
  BY <1>1, <1>2, <1>3 DEF HistoryTyped, RenewedNext

LEMMA RunStep == RunInv /\ [HistoryNext]_historyVars => RunInv'
<1> SUFFICES ASSUME RunInv, [HistoryNext]_historyVars PROVE RunInv'
  OBVIOUS
<1>1. CASE UNCHANGED historyVars
  BY <1>1 DEF historyVars, history, vars, RunInv, KeptInv, BoundInv, TypeOK, TimeoutBounded,
              BoundedRequests, JobBegan, HistoryTyped, Found, Due, Listed
<1>2. CASE HistoryNext
  <2>1. /\ [Next]_vars /\ due' = DueNext /\ shifts' = ShiftsNext /\ renewed' = RenewedNext
    BY <1>2 DEF HistoryNext
  <2>2. KeptInv'
    BY <2>1, BoundStep, JobBeganStep DEF RunInv, KeptInv
  <2> QED
    BY <2>1, <2>2, FoundStep, DueStep, ListedStep, HistoryTypedStep DEF RunInv
<1> QED
  BY <1>1, <1>2

LEMMA RunInit == HistoryInit => RunInv
BY InitBound DEF HistoryInit, Init, RunInv, KeptInv, JobBegan, HistoryTyped, Found, Due, Listed, NoJob

LEMMA RunInvariant == HistorySpec => []RunInv
BY RunInit, RunStep, PTL DEF HistorySpec

\* For any requests, other keys, pages and failures: what the job deletes has
\* expired, except the records that a request has written since the run took them
\* for expired, which it deletes unseen (job.go:28-33).
THEOREM JobDeletesExpired == HistorySpec => JobDeletesOnlyExpired
<1> DEFINE A == \A m \in Members :
                  JobDelete(m) /\ record[m]' # record[m] =>
                      Expired(record[m], now) \/ m \in renewed
<1>1. RunInv => A
  <2> SUFFICES ASSUME RunInv, NEW m \in Members, JobDelete(m), m \notin renewed
               PROVE  Expired(record[m], now)
    OBVIOUS
  <2>1. m \in job.expired /\ Collects(record[m], job.at)
    BY DEF JobDelete, RunInv, Found
  <2> QED
    BY <2>1, ExpiredLasts DEF RunInv
<1>2. RunInv => [A]_historyVars
  BY <1>1
<1> HIDE DEF A
<1>3. HistorySpec => [][A]_historyVars
  BY <1>2, RunInvariant, PTL
<1> QED
  BY <1>3 DEF A, JobDeletesOnlyExpired

------------------------------------------------------------------------------
(* What a run of the job can miss.                                         *)

\* What the run will not list again, and the expired records among it that it has
\* left behind.
Behind(m) ==
    \/ Rank(Keys, KeyPos, m) < job.page * JobPageSize
    \/ Rank(Keys, KeyPos, m) >= JobPages * JobPageSize
    \/ job.stage \in {"read", "delete"} /\ ~job.more
Lost == {m \in due : Behind(m)} \ (job.unread \cup job.expired)

LostInv == Cardinality(Lost) <= shifts

LEMMA KeyFacts ==
    ASSUME RunInv
    PROVE  /\ IsFiniteSet(Keys) /\ Orders(KeyPos, Keys)
           /\ \A m : Rank(Keys, KeyPos, m) \in Nat
           /\ due \subseteq Members \cap Keys
<1>1. Keys \subseteq Members \cup OtherKeys /\ IsFiniteSet(Members \cup OtherKeys)
  BY KeysAssumption, FS_Union DEF Keys, RunInv, KeptInv, BoundInv, TypeOK
<1>2. IsFiniteSet(Keys) /\ Orders(KeyPos, Keys)
  BY <1>1, KeysAssumption, FS_Subset DEF Orders, IsKeyOrder
<1>3. due \subseteq Members \cap Keys
  BY DEF RunInv, HistoryTyped, Due, Collects, Keys
<1> QED
  BY <1>2, <1>3, RankType

LEMMA LostFinite ==
    ASSUME RunInv
    PROVE  IsFiniteSet(Lost) /\ Cardinality(Lost) \in Nat
<1>1. Lost \subseteq Members
  BY DEF Lost, RunInv, HistoryTyped
<1> QED
  BY <1>1, KeysAssumption, FS_Subset, FS_CardinalityType

\* A step that leaves nothing more behind, and one that shifts the pages by one
\* key and leaves one record behind.
LEMMA NothingMoreLost ==
    ASSUME RunInv, LostInv, Lost' \subseteq Lost, shifts' \in {shifts, shifts + 1}
    PROVE  LostInv'
<1>1. /\ IsFiniteSet(Lost') /\ Cardinality(Lost') <= Cardinality(Lost)
      /\ Cardinality(Lost) \in Nat
  BY LostFinite, FS_Subset
<1>2. Cardinality(Lost') \in Nat /\ shifts \in Nat
  BY <1>1, FS_CardinalityType DEF RunInv, HistoryTyped
<1> QED
  BY <1>1, <1>2 DEF LostInv

LEMMA OneMoreLost ==
    ASSUME RunInv, LostInv, NEW x, Lost' \subseteq Lost \cup {x}, shifts' = shifts + 1
    PROVE  LostInv'
<1>1. IsFiniteSet(Lost) /\ IsFiniteSet(Lost \cup {x}) /\ Cardinality(Lost) \in Nat
  BY LostFinite, FS_AddElement
<1>2. /\ Cardinality(Lost \cup {x}) \in Nat /\ shifts \in Nat
      /\ Cardinality(Lost \cup {x}) <= Cardinality(Lost) + 1
  BY <1>1, FS_AddElement, FS_CardinalityType DEF RunInv, HistoryTyped
<1>3. IsFiniteSet(Lost') /\ Cardinality(Lost') <= Cardinality(Lost \cup {x})
  BY <1>1, FS_Subset
<1>4. Cardinality(Lost') \in Nat
  BY <1>3, FS_CardinalityType
<1> QED
  BY <1>1, <1>2, <1>3, <1>4 DEF LostInv

\* At most one key is at an offset.
LEMMA OneAtOffset ==
    ASSUME RunInv, NEW n
    PROVE  \E x : \A m \in Keys : Rank(Keys, KeyPos, m) = n => m = x
BY KeyFacts, RankInjective

LEMMA Offsets ==
    ASSUME RunInv
    PROVE  job.page * JobPageSize \in Nat /\ JobPages * JobPageSize \in Nat
BY BoundsAssumption DEF RunInv, KeptInv, BoundInv, TypeOK, Jobs

\* A key that comes pushes at most one record beyond the last page, and one that
\* goes pulls at most one onto a page already read.
LEMMA ShiftLosesOne ==
    ASSUME RunInv, LostInv, job' = job, due' \subseteq due, shifts' = shifts + 1, NEW k,
           \/ k \notin Keys /\ Keys' = Keys \cup {k}
           \/ k \in Keys /\ Keys' = Keys \ {k}
    PROVE  LostInv'
<1> DEFINE first == job.page * JobPageSize
           limit == JobPages * JobPageSize
           before(m) == Rank(Keys, KeyPos, m)
<1>1. first \in Nat /\ limit \in Nat
  BY Offsets
<1>2. CASE k \notin Keys /\ Keys' = Keys \cup {k}
  <2>1. PICK x : \A m \in Keys : before(m) = limit - 1 => m = x
    BY OneAtOffset
  <2>2. Lost' \subseteq Lost \cup {x}
    <3> SUFFICES ASSUME NEW m \in Lost', m # x PROVE m \in Lost
      OBVIOUS
    <3>1. m \in due /\ m \notin job.unread \cup job.expired /\ Behind(m)' /\ m \in Keys
      BY KeyFacts DEF Lost
    <3>2. before(m) \in Nat /\ before(m) # limit - 1
      BY <2>1, <3>1, KeyFacts
    <3>3. Rank(Keys', KeyPos, m) \in {before(m), before(m) + 1}
      BY <1>2, KeyFacts, RankAdd
    <3>4. Behind(m)
      <4>1. Behind(m)' <=> \/ Rank(Keys', KeyPos, m) < first
                           \/ Rank(Keys', KeyPos, m) >= limit
                           \/ job.stage \in {"read", "delete"} /\ ~job.more
        BY DEF Behind
      <4> QED
        BY <1>1, <3>1, <3>2, <3>3, <4>1 DEF Behind
    <3> QED
      BY <3>1, <3>4 DEF Lost
  <2> QED
    BY <2>2, OneMoreLost
<1>3. CASE k \in Keys /\ Keys' = Keys \ {k}
  <2>1. PICK x : \A m \in Keys : before(m) = first => m = x
    BY OneAtOffset
  <2>2. Lost' \subseteq Lost \cup {x}
    <3> SUFFICES ASSUME NEW m \in Lost', m # x PROVE m \in Lost
      OBVIOUS
    <3>1. m \in due /\ m \notin job.unread \cup job.expired /\ Behind(m)' /\ m \in Keys
      BY KeyFacts DEF Lost
    <3>2. before(m) \in Nat /\ before(m) # first
      BY <2>1, <3>1, KeyFacts
    <3>3. Rank(Keys', KeyPos, m) \in Nat
      BY <1>3, KeyFacts, FS_RemoveElement, RankType
    <3>4. before(m) \in {Rank(Keys', KeyPos, m), Rank(Keys', KeyPos, m) + 1}
      BY <1>3, KeyFacts, RankRemove
    <3>5. Behind(m)
      <4>1. Behind(m)' <=> \/ Rank(Keys', KeyPos, m) < first
                           \/ Rank(Keys', KeyPos, m) >= limit
                           \/ job.stage \in {"read", "delete"} /\ ~job.more
        BY DEF Behind
      <4> QED
        BY <1>1, <3>1, <3>2, <3>3, <3>4, <4>1 DEF Behind
    <3> QED
      BY <3>1, <3>5 DEF Lost
  <2> QED
    BY <2>2, OneMoreLost
<1> QED
  BY <1>2, <1>3

\* Requests, the job's deletes and the rest of the plugin add or remove one key at
\* a time.
LEMMA KeysStep ==
    ASSUME RunInv, [Next]_vars, Keys' # Keys
    PROVE  \E k : \/ k \notin Keys /\ Keys' = Keys \cup {k}
                  \/ k \in Keys /\ Keys' = Keys \ {k}
<1>1. TypeOK /\ TypeOK'
  BY BoundStep DEF RunInv, KeptInv, BoundInv
<1>2. Members \cap others = {} /\ Members \cap others' = {}
  BY <1>1, KeysAssumption DEF TypeOK
<1>3. ASSUME NEW m \in Members, NEW rec, record' = [record EXCEPT ![m] = rec], others' = others
      PROVE  \/ m \notin Keys /\ Keys' = Keys \cup {m}
             \/ m \in Keys /\ Keys' = Keys \ {m}
  <2>1. record'[m] = rec /\ \A n \in Members \ {m} : record'[n] = record[n]
    BY <1>1, <1>3 DEF TypeOK
  <2>2. m \notin others
    BY <1>2
  <2>3. CASE rec = NoRecord
    BY <1>3, <2>1, <2>2, <2>3 DEF Keys
  <2>4. CASE rec # NoRecord
    BY <1>3, <2>1, <2>2, <2>4 DEF Keys
  <2> QED
    BY <2>3, <2>4
<1>4. ASSUME NEW k \in OtherKeys, OtherKey(k)
      PROVE  \/ k \notin Keys /\ Keys' = Keys \cup {k}
             \/ k \in Keys /\ Keys' = Keys \ {k}
  <2>1. record' = record /\ k \notin Members /\ others' \in {others \cup {k}, others \ {k}}
        /\ others' # others
    BY <1>4, KeysAssumption DEF OtherKey
  <2>2. CASE k \in others
    BY <2>1, <2>2 DEF Keys
  <2>3. CASE k \notin others
    BY <2>1, <2>3 DEF Keys
  <2> QED
    BY <2>2, <2>3
<1>5. ASSUME NEW h \in Handlers, Moderate(h)
      PROVE  \E m \in Members : \E rec : record' = [record EXCEPT ![m] = rec] /\ others' = others
  <2>1. record' # record
    BY <1>5 DEF Keys, Moderate, Get, SetMute, SetTimeout, DeleteLifted, CutOff
  <2>2. request[h] # Idle /\ request[h].member \in Members
    BY <1>1, <1>5, <2>1 DEF TypeOK, Requests, Moderate, Get, SetMute, SetTimeout, DeleteLifted, CutOff
  <2>3. others' = others /\ \E rec : record' = [record EXCEPT ![request[h].member] = rec]
    BY <1>5, <2>1 DEF Moderate, Get, SetMute, SetTimeout, DeleteLifted, CutOff
  <2> QED
    BY <2>2, <2>3
<1>6. ASSUME NEW m \in Members, JobDelete(m)
      PROVE  \E rec : record' = [record EXCEPT ![m] = rec] /\ others' = others
  BY <1>6 DEF JobDelete, Keys
<1>7. \/ \E h \in Handlers : Moderate(h)
      \/ \E k \in OtherKeys : OtherKey(k)
      \/ \E m \in Members : JobDelete(m)
  BY DEF Next, Tick, JobStep, JobCutOff, JobStart, JobList, JobRead, JobNextPage, JobEnd, vars, Keys
<1> QED
  BY <1>3, <1>4, <1>5, <1>6, <1>7

\* Listing a page takes its records into hand; what the page leaves is on pages to
\* come, unless the run reads no more of them.
LEMMA ListingLosesNone ==
    ASSUME RunInv, JobList, due' \subseteq due, record' = record, others' = others
    PROVE  Lost' \subseteq Lost
<1> DEFINE page == job.page
           keys == KeysOnPage(Keys, KeyPos, JobPageSize, page)
           before(m) == Rank(Keys, KeyPos, m)
<1>1. /\ job'.stage = "read" /\ job'.page = page + 1 /\ job'.more = HasMore(keys)
      /\ job'.unread = keys \cap Members /\ job'.expired = job.expired
      /\ job.stage = "list" /\ page \in Nat /\ job.unread = {} /\ Keys' = Keys
  <2>1. job' = [stage |-> "read", at |-> job.at, page |-> page + 1, more |-> HasMore(keys),
                unread |-> keys \cap Members, expired |-> job.expired]
    BY JobMade DEF RunInv, KeptInv, BoundInv
  <2>2. job.stage = "list" /\ page \in Nat /\ job.unread = {}
    BY DEF RunInv, KeptInv, BoundInv, TypeOK, Jobs, JobList, Listed
  <2>3. Keys' = Keys
    BY DEF Keys
  <2> HIDE DEF keys, page
  <2> QED
    BY <2>1, <2>2, <2>3
<1> SUFFICES ASSUME NEW m \in Lost' PROVE m \in Lost
  OBVIOUS
<1>2. m \in due /\ m \in Members /\ m \in Keys /\ m \notin keys /\ m \notin job.expired
  BY <1>1, KeyFacts DEF Lost
<1>3. \/ before(m) < (page + 1) * JobPageSize
      \/ before(m) >= JobPages * JobPageSize
      \/ ~HasMore(keys)
  BY <1>1 DEF Lost, Behind
<1>4. before(m) \in Nat /\ page * JobPageSize \in Nat /\ (page + 1) * JobPageSize \in Nat
      /\ JobPages * JobPageSize \in Nat
  BY <1>1, KeyFacts, BoundsAssumption
<1>5. before(m) < page * JobPageSize \/ before(m) >= (page + 1) * JobPageSize
  BY <1>1, <1>2, <1>4, KeyFacts, BoundsAssumption, PageOffsets
<1>6. ~HasMore(keys) => \/ before(m) < (page + 1) * JobPageSize
                        \/ before(m) >= JobPages * JobPageSize
  <2>1. CASE Cardinality(keys) # JobPageSize
    BY <1>1, <1>2, <2>1, KeyFacts, BoundsAssumption, ShortPageIsLast
  <2>2. CASE page + 1 >= JobPages
    <3>1. (page + 1) * JobPageSize >= JobPages * JobPageSize
      BY <1>1, <2>2, BoundsAssumption
    <3> QED
      BY <1>4, <3>1
  <2> QED
    BY <1>1, <2>1, <2>2, BoundsAssumption DEF HasMore
<1>7. before(m) < page * JobPageSize \/ before(m) >= JobPages * JobPageSize
  BY <1>3, <1>4, <1>5, <1>6
<1> QED
  BY <1>1, <1>2, <1>7 DEF Lost, Behind

\* Reading, deleting and turning a page lose nothing: what the run has in hand it
\* collects, removes, or skips because a call fails.
LEMMA OtherStepsLoseNone ==
    ASSUME RunInv, due' = DueNext, job.stage # "idle",
           \/ JobNextPage /\ record' = record /\ others' = others
           \/ (\E m \in Members : JobRead(m)) /\ record' = record /\ others' = others
           \/ \E m \in Members : JobDelete(m)
    PROVE  Lost' \subseteq Lost
<1>1. TypeOK /\ job \in Jobs /\ record \in [Members -> Stored]
  BY DEF RunInv, KeptInv, BoundInv, TypeOK
<1> SUFFICES ASSUME NEW m \in Lost' PROVE m \in Lost
  OBVIOUS
<1>2. m \in due' /\ Behind(m)' /\ m \notin job'.unread /\ m \notin job'.expired
  BY DEF Lost
<1>3. CASE job'.stage = "idle"
  BY <1>2, <1>3 DEF DueNext
<1>4. CASE job'.stage # "idle"
  <2>1. m \in due /\ record'[m] = record[m] /\ ~Skipped(m) /\ m \in Members
    BY <1>2, <1>4 DEF DueNext, RunInv, HistoryTyped
  <2>2. Collects(record[m], job.at)
    BY <2>1 DEF RunInv, Due
  <2>3. CASE JobNextPage /\ record' = record /\ others' = others
    <3>1. /\ job'.page = job.page /\ job'.unread = job.unread /\ job'.expired = job.expired
          /\ job'.more = job.more /\ job'.stage = IF job.more THEN "list" ELSE "delete"
          /\ job.stage = "read" /\ Keys' = Keys
      BY <1>1, <2>3, JobMade DEF JobNextPage, Keys
    <3> QED
      BY <1>2, <2>1, <3>1 DEF Lost, Behind
  <2>4. CASE (\E n \in Members : JobRead(n)) /\ record' = record /\ others' = others
    <3>1. PICK n \in Members : JobRead(n)
      BY <2>4
    <3>2. /\ job'.page = job.page /\ job'.more = job.more /\ job'.stage = job.stage
          /\ job'.unread = job.unread \ {n} /\ Keys' = Keys /\ n \in job.unread
          /\ job.expired \subseteq job'.expired
          /\ n \notin job'.expired => Failures \/ ~Collects(record[n], job.at)
      <4>1. PICK found \in SUBSET {n} :
              job' = [stage |-> job.stage, at |-> job.at, page |-> job.page, more |-> job.more,
                      unread |-> job.unread \ {n}, expired |-> job.expired \cup found]
        BY <1>1, <3>1, JobMade
      <4>2. Keys' = Keys
        BY <2>4 DEF Keys
      <4>3. n \in job.unread
        BY <3>1 DEF JobRead
      <4>4. n \notin job'.expired => Failures \/ ~Collects(record[n], job.at)
        BY <1>1, <3>1 DEF JobRead, Jobs
      <4> QED
        BY <4>1, <4>2, <4>3, <4>4
    <3>3. m # n
      BY <1>2, <2>1, <2>2, <3>2 DEF Skipped
    <3> QED
      BY <1>2, <2>1, <3>2, <3>3 DEF Lost, Behind
  <2>5. CASE \E n \in Members : JobDelete(n)
    <3>1. PICK n \in Members : JobDelete(n)
      BY <2>5
    <3>2. /\ job'.unread = job.unread /\ job'.expired = job.expired \ {n} /\ job.stage = "delete"
          /\ n \in job.expired
          /\ record' = [record EXCEPT ![n] = NoRecord] \/ Failures
      BY <1>1, <3>1, JobMade DEF JobDelete
    <3>3. m # n
      <4>1. record[m] # NoRecord
        BY <2>2 DEF Collects
      <4> QED
        BY <1>1, <1>2, <2>1, <3>2, <4>1 DEF Skipped
    <3>4. Behind(m)
      BY <3>2 DEF RunInv, Listed, Behind
    <3> QED
      BY <1>2, <2>1, <3>2, <3>3, <3>4 DEF Lost
  <2> QED
    BY <2>3, <2>4, <2>5
<1> QED
  BY <1>3, <1>4

LEMMA LostStep ==
    ASSUME RunInv, LostInv, [Next]_vars, due' = DueNext, shifts' = ShiftsNext
    PROVE  LostInv'
<1>1. TypeOK /\ TypeOK'
  BY BoundStep DEF RunInv, KeptInv, BoundInv
<1>2. CASE job'.stage = "idle" \/ job.stage = "idle"
  <2>1. Lost' = {}
    <3>1. CASE job'.stage = "idle"
      BY <3>1 DEF DueNext, Lost
    <3>2. CASE job.stage = "idle" /\ job'.stage # "idle"
      <4>1. JobStart /\ Keys' = Keys
        <5>1. NoJob.stage = "idle" /\ job' # job
          BY <3>2 DEF NoJob
        <5> QED
          BY <1>1, <3>2, <5>1, JobMade, WhoseStep DEF JobList, JobNextPage, JobRead, JobDelete, Keys
      <4>2. job'.page = 0 /\ job'.stage = "list"
        BY <1>1, <4>1, JobMade
      <4>3. ASSUME NEW m \in due' PROVE ~Behind(m)'
        <5>1. m \in Members /\ Rank(Keys, KeyPos, m) < JobPages * JobPageSize
          BY <3>2 DEF DueNext, DueAtStart
        <5>2. Rank(Keys, KeyPos, m) \in Nat /\ JobPages * JobPageSize \in Nat
          BY KeyFacts, Offsets
        <5> QED
          BY <4>1, <4>2, <5>1, <5>2, BoundsAssumption DEF Behind
      <4> QED
        BY <4>3 DEF Lost
    <3> QED
      BY <1>2, <3>1, <3>2
  <2>2. shifts' \in Nat
    BY DEF ShiftsNext, RunInv, HistoryTyped
  <2> QED
    BY <2>1, <2>2, FS_EmptySet DEF LostInv
<1>3. CASE job.stage # "idle" /\ job'.stage # "idle"
  <2>1. /\ due' \subseteq due
        /\ shifts' = IF Listing /\ job' = job /\ Keys' # Keys THEN shifts + 1 ELSE shifts
    BY <1>3 DEF DueNext, ShiftsNext
  <2>2. CASE job' = job /\ Listing /\ Keys' # Keys
    BY <2>1, <2>2, KeysStep, ShiftLosesOne
  <2>3. CASE job' = job /\ ~(Listing /\ Keys' # Keys)
    <3>1. \A m \in due' : Behind(m)' => Behind(m)
      <4>1. CASE Keys' = Keys
        BY <2>3, <4>1 DEF Behind
      <4>2. CASE ~Listing
        BY <1>1, <1>3, <4>2 DEF Behind, Listing, RunInv, Listed, TypeOK, Jobs
      <4> QED
        BY <2>3, <4>1, <4>2
    <3>2. Lost' \subseteq Lost
      BY <2>1, <2>3, <3>1 DEF Lost
    <3> QED
      BY <2>1, <3>2, NothingMoreLost
  <2>4. CASE JobList /\ record' = record /\ others' = others
    BY <2>1, <2>4, ListingLosesNone, NothingMoreLost
  <2>5. CASE \/ (JobNextPage \/ \E m \in Members : JobRead(m))
                /\ record' = record /\ others' = others
             \/ \E m \in Members : JobDelete(m)
    BY <1>3, <2>1, <2>5, OtherStepsLoseNone, NothingMoreLost
  <2>6. ~JobStart /\ ~JobEnd /\ ~JobCutOff
    BY <1>3 DEF JobStart, JobEnd, JobCutOff, NoJob
  <2> QED
    BY <2>2, <2>3, <2>4, <2>5, <2>6, WhoseStep
<1> QED
  BY <1>2, <1>3

LEMMA LostInvariant == HistorySpec => []LostInv
<1>1. HistoryInit => LostInv
  <2> SUFFICES ASSUME HistoryInit PROVE LostInv
    OBVIOUS
  <2>1. Lost = {} /\ shifts = 0
    BY DEF HistoryInit, Lost
  <2> QED
    BY <2>1, FS_EmptySet DEF LostInv
<1>2. RunInv /\ LostInv /\ [HistoryNext]_historyVars => LostInv'
  <2>1. RunInv /\ LostInv /\ HistoryNext => LostInv'
    BY LostStep DEF HistoryNext
  <2>2. LostInv /\ UNCHANGED historyVars => LostInv'
    BY DEF historyVars, history, vars, LostInv, Lost, Behind, Keys
  <2> QED
    BY <2>1, <2>2
<1> QED
  BY <1>1, <1>2, RunInvariant, PTL DEF HistorySpec

\* For any members, other keys, page size and number of pages, and whatever comes
\* and goes meanwhile: a run of the job misses at most one record that had expired
\* when it began for each key that came or went while it listed; with nobody else
\* at the store it misses none.
THEOREM JobRunMissesOnlyShifted == HistorySpec => []JobMissesOnlyShifted
<1>1. RunInv /\ LostInv => JobMissesOnlyShifted
  <2> SUFFICES ASSUME RunInv, LostInv, job.stage = "delete"
               PROVE  Cardinality(due \ job.expired) <= shifts
    BY DEF JobMissesOnlyShifted
  <2>1. Lost = due \ job.expired
    BY DEF Lost, Behind, RunInv, Listed
  <2> QED
    BY <2>1 DEF LostInv
<1> QED
  BY <1>1, RunInvariant, LostInvariant, PTL

------------------------------------------------------------------------------
(* Enforcement.                                                            *)

\* postingBlockedReason goes by what a record is meant to say.
LEMMA BlocksWhileInForce ==
    ASSUME NEW rec \in Stored, NEW t \in Nat
    PROVE  Blocks(rec, t) <=> InForce(rec, t)
<1>1. rec # NoRecord => rec.until \in Nat
  BY TimesAreNat DEF Stored, Records
<1> QED
  BY <1>1 DEF Blocks, InForce, Muted, TimedOutNow

\* At later times the same record restricts no more than before.
LEMMA BlocksFade ==
    ASSUME NEW rec \in Stored, NEW t \in Nat, NEW u \in Nat, t <= u, Blocks(rec, u)
    PROVE  Blocks(rec, t)
<1>1. rec # NoRecord => rec.until \in Nat
  BY TimesAreNat DEF Stored, Records
<1> QED
  BY <1>1 DEF Blocks, TimedOutNow

\* A status tells, from then on, what the record it was made from does.
LEMMA StatusLasts ==
    ASSUME NEW rec \in Stored, NEW t \in Nat, NEW u \in Nat, t <= u
    PROVE  BoxBlocks(StatusOf(rec, t), u) <=> Blocks(rec, u)
<1>1. rec # NoRecord => rec.until \in Nat /\ rec.muted \in BOOLEAN
  BY TimesAreNat DEF Stored, Records
<1>2. StatusOf(rec, t).muted = Muted(rec)
  BY DEF StatusOf
<1>3. StatusOf(rec, t).until > u <=> TimedOutNow(rec, u)
  BY <1>1 DEF StatusOf, TimedOutNow
<1> QED
  BY <1>2, <1>3 DEF BoxBlocks, Blocks

LEMMA StatusType ==
    ASSUME NEW rec \in Stored, NEW t
    PROVE  StatusOf(rec, t) \in Statuses
<1>1. Muted(rec) \in BOOLEAN
  BY RecordParts
<1>2. (IF TimedOutNow(rec, t) THEN rec.until ELSE 0) \in 0..Latest
  BY TimesAreNat DEF TimedOutNow, Stored, Records
<1> QED
  BY <1>1, <1>2 DEF StatusOf, Statuses

------------------------------------------------------------------------------

\* A message box that is sure goes by a status of the record as it is.
BoxInv ==
    \A m \in Members : box[m] # Unsure =>
        \E t \in Nat : t <= now /\ box[m] = StatusOf(record[m], t)

\* What the ghosts know at each stage of a hook.
HookInv ==
    hook # NoHook =>
        LET m == hook.member
        IN  /\ hook.stage = "asked" =>
                 /\ hook.always => InForce(record[m], now)
                 /\ InForce(record[m], now) => hook.ever
            /\ hook.stage = "read" =>
                 /\ hook.always => hook.read = record[m] /\ InForce(record[m], now)
                 /\ Blocks(hook.read, now) => hook.ever
            /\ hook.stage = "passed" /\ hook.always => hook.excuse # "none"
            /\ hook.stage = "stopped" => hook.ever

EnforcementInv == BoundInv /\ EnforcementTypeOK /\ BoxInv /\ HookInv

LEMMA EnforcementInitial == EnforcementInit => EnforcementInv
BY InitBound, UnsureAssumption
   DEF EnforcementInit, EnforcementInv, EnforcementTypeOK, BoxInv, HookInv, BoundInv

\* Time does not run back.
LEMMA ClockStep == TypeOK /\ [Next]_vars => now \in Nat /\ now' \in Nat /\ now <= now'
<1> SUFFICES ASSUME TypeOK, [Next]_vars PROVE now \in Nat /\ now' \in Nat /\ now <= now'
  OBVIOUS
<1>1. now \in Nat
  BY TimesAreNat DEF TypeOK
<1>2. now' = now \/ now' = now + 1
  BY DEF Next, Moderate, Get, SetMute, SetTimeout, DeleteLifted, CutOff, Tick, OtherKey, JobStep, JobCutOff,
         JobStart, JobList, JobRead, JobNextPage, JobDelete, JobEnd, vars
<1> QED
  BY <1>1, <1>2

------------------------------------------------------------------------------
(* While requests, the job and the clock go on.                            *)

LEMMA WatchStep == EnforcementInv /\ [Next]_vars /\ Watch => EnforcementInv'
<1> SUFFICES ASSUME EnforcementInv, [Next]_vars, Watch PROVE EnforcementInv'
  OBVIOUS
<1>1. BoundInv /\ BoundInv' /\ TypeOK /\ TypeOK'
  BY BoundStep DEF EnforcementInv, BoundInv
<1>2. now \in Nat /\ now' \in Nat /\ now <= now'
  BY <1>1, ClockStep
<1>3. \A m \in Members : record[m] \in Stored /\ record'[m] \in Stored
  BY <1>1 DEF TypeOK
<1>4. box' \in [Members -> Statuses \cup {Unsure}]
  BY DEF Watch, EnforcementInv, EnforcementTypeOK
<1>5. BoxInv'
  <2> SUFFICES ASSUME NEW m \in Members, box'[m] # Unsure
               PROVE  \E t \in Nat : t <= now' /\ box'[m] = StatusOf(record'[m], t)
    BY DEF BoxInv
  <2>1. record'[m] = record[m] /\ box'[m] = box[m]
    BY DEF Watch
  <2>2. PICK t \in Nat : t <= now /\ box[m] = StatusOf(record[m], t)
    BY <2>1 DEF EnforcementInv, BoxInv
  <2> QED
    BY <1>2, <2>1, <2>2
<1>6. CASE hook = NoHook \/ hook.stage \notin {"asked", "read"}
  <2>1. hook' = hook
    BY <1>6 DEF Watch
  <2>2. hook # NoHook => /\ hook.stage = "passed" /\ hook.always => hook.excuse # "none"
                         /\ hook.stage = "stopped" => hook.ever
    BY DEF EnforcementInv, HookInv
  <2>3. HookInv'
    BY <1>6, <2>1, <2>2 DEF HookInv
  <2> QED
    BY <1>1, <1>4, <1>5, <2>1, <2>3 DEF EnforcementInv, EnforcementTypeOK
<1>7. CASE hook # NoHook /\ hook.stage \in {"asked", "read"}
  <2> DEFINE m == hook.member
  <2>1. hook \in Hooks /\ m \in Members /\ hook.read \in Stored
    BY <1>7 DEF EnforcementInv, EnforcementTypeOK, Hooks
  <2> DEFINE always == hook.always /\ InForce(record'[m], now') /\ record'[m] = record[m]
  <2> DEFINE ever == hook.ever \/ InForce(record'[m], now')
  <2>2. hook' = [hook EXCEPT !.always = always, !.ever = ever]
    BY <1>7 DEF Watch
  <2>3. always \in BOOLEAN /\ ever \in BOOLEAN
    OBVIOUS
  <2>4. hook.always \in BOOLEAN /\ hook.ever \in BOOLEAN
    BY <2>1 DEF Hooks
  <2>5. /\ hook'.stage = hook.stage /\ hook'.member = m /\ hook'.read = hook.read
        /\ hook'.always = always /\ hook'.ever = ever /\ hook' \in Hooks
    <3> HIDE DEF always, ever
    <3> QED
      BY <2>1, <2>2, <2>3 DEF Hooks
  <2>6. hook' # NoHook
    BY <2>5, UnsureAssumption
  <2>7. CASE hook.stage = "asked"
    <3>1. hook'.always => InForce(record'[m], now')
      BY <2>5
    <3>2. InForce(record'[m], now') => hook'.ever
      BY <2>5
    <3> QED
      BY <1>1, <1>4, <1>5, <2>5, <2>7, <3>1, <3>2 DEF EnforcementInv, EnforcementTypeOK, HookInv
  <2>8. CASE hook.stage = "read"
    <3>1. /\ hook.always => hook.read = record[m] /\ InForce(record[m], now)
          /\ Blocks(hook.read, now) => hook.ever
      BY <1>7, <2>8 DEF EnforcementInv, HookInv
    <3>2. hook'.always => hook'.read = record'[m] /\ InForce(record'[m], now')
      BY <2>5, <3>1
    <3>3. Blocks(hook'.read, now') => hook'.ever
      BY <1>2, <2>1, <2>5, <3>1, BlocksFade
    <3> QED
      BY <1>1, <1>4, <1>5, <2>5, <2>8, <3>2, <3>3 DEF EnforcementInv, EnforcementTypeOK, HookInv
  <2> QED
    BY <1>7, <2>7, <2>8
<1> QED
  BY <1>6, <1>7

------------------------------------------------------------------------------
(* While the hook and the message boxes go on.                             *)

LEMMA HookKeeps ==
    ASSUME EnforcementInv, UNCHANGED <<vars, box>>, hook' \in Hooks \cup {NoHook}, HookInv'
    PROVE  EnforcementInv'
<1>1. BoundInv'
  BY DEF EnforcementInv, BoundInv, vars, TypeOK, TimeoutBounded, BoundedRequests
<1>2. BoxInv'
  BY DEF EnforcementInv, BoxInv, vars
<1> QED
  BY <1>1, <1>2 DEF EnforcementInv, EnforcementTypeOK, BoundInv

LEMMA HookMoves == EnforcementInv /\ HookStep => EnforcementInv'
<1> SUFFICES ASSUME EnforcementInv, HookStep PROVE EnforcementInv'
  OBVIOUS
<1>0. /\ TypeOK /\ NoRecord \in Stored
      /\ hook # NoHook => hook \in Hooks /\ hook.member \in Members
  BY DEF EnforcementInv, EnforcementTypeOK, Stored, Hooks
<1>1. \A m \in Members : record[m] \in Stored
  BY <1>0 DEF TypeOK
<1>2. ASSUME NEW m \in Members, Reach(m) PROVE EnforcementInv'
  <2> DEFINE active == InForce(record[m], now)
  <2>1. hook' = [stage |-> "asked", member |-> m, read |-> NoRecord,
                 excuse |-> "none", always |-> active, ever |-> active]
    BY <1>2 DEF Reach
  <2>2. active \in BOOLEAN
    <3>1. Muted(record[m]) \in BOOLEAN
      BY <1>1, RecordParts
    <3> QED
      BY <1>1, <3>1 DEF InForce, Muted
  <2>3. hook' \in Hooks /\ UNCHANGED <<record, now>>
    <3> HIDE DEF active
    <3> QED
      BY <1>0, <1>2, <2>1, <2>2 DEF Hooks, Reach, vars
  <2>4. HookInv'
    BY <2>1, <2>3 DEF HookInv
  <2> QED
    BY <1>2, <2>3, <2>4, HookKeeps DEF Reach
<1>3. ASSUME hook' = NoHook, UNCHANGED <<vars, box>> PROVE EnforcementInv'
  BY <1>3, HookKeeps DEF HookInv
<1>4. ASSUME hook # NoHook, NEW e \in {"none", "missed", "failed"}, hook' = Passed(e),
             hook.always => e # "none", UNCHANGED <<vars, box>>
      PROVE  EnforcementInv'
  <2>1. /\ hook' \in Hooks /\ hook'.stage = "passed" /\ hook'.always = hook.always
        /\ hook'.excuse = e
    BY <1>0, <1>4 DEF Passed, Hooks
  <2>2. HookInv'
    BY <1>4, <2>1 DEF HookInv
  <2> QED
    BY <1>4, <2>1, <2>2, HookKeeps
<1>5. ASSUME hook # NoHook, hook' = Stopped, hook.ever, UNCHANGED <<vars, box>>
      PROVE  EnforcementInv'
  <2>1. hook' \in Hooks /\ hook'.stage = "stopped" /\ hook'.ever = hook.ever
    BY <1>0, <1>5 DEF Stopped, Hooks
  <2>2. HookInv'
    BY <1>5, <2>1 DEF HookInv
  <2> QED
    BY <1>5, <2>1, <2>2, HookKeeps
<1>6. CASE NotIndexed
  <2> DEFINE e == IF record[hook.member] = NoRecord THEN "none" ELSE "missed"
  <2>1. hook.always => e # "none"
    BY <1>6 DEF NotIndexed, EnforcementInv, HookInv, InForce
  <2>2. /\ e \in {"none", "missed", "failed"} /\ hook' = Passed(e) /\ hook # NoHook
        /\ UNCHANGED <<vars, box>>
    BY <1>6 DEF NotIndexed
  <2> HIDE DEF e
  <2> QED
    BY <1>4, <2>1, <2>2
<1>7. CASE Ask /\ hook' # Passed("failed")
  <2> DEFINE m == hook.member
  <2>1. hook \in Hooks /\ m \in Members /\ record[m] \in Stored /\ hook.stage = "asked"
        /\ hook' = [hook EXCEPT !.stage = "read", !.read = record[m]]
    BY <1>0, <1>1, <1>7 DEF Ask
  <2>2. /\ hook' \in Hooks /\ hook'.stage = "read" /\ hook'.read = record[m] /\ hook'.member = m
        /\ hook'.always = hook.always /\ hook'.ever = hook.ever
    BY <2>1 DEF Hooks
  <2>3. /\ hook.always => InForce(record[m], now)
        /\ InForce(record[m], now) => hook.ever
    BY <1>7, <2>1 DEF EnforcementInv, HookInv, Ask
  <2>4. UNCHANGED <<record, now>> /\ now \in Nat
    BY <1>0, <1>7, TimesAreNat DEF Ask, vars, TypeOK
  <2>5. Blocks(record[m], now) <=> InForce(record[m], now)
    BY <2>1, <2>4, BlocksWhileInForce
  <2>6. HookInv'
    BY <2>2, <2>3, <2>4, <2>5 DEF HookInv
  <2> QED
    BY <1>7, <2>2, <2>6, HookKeeps DEF Ask
<1>8. CASE Ask /\ hook' = Passed("failed")
  BY <1>4, <1>8 DEF Ask
<1>9. CASE Decide
  <2>1. /\ hook # NoHook /\ hook.stage = "read" /\ UNCHANGED <<vars, box>>
        /\ \/ hook' = IF Blocks(hook.read, now) THEN Stopped ELSE Passed("none")
           \/ hook' = Passed("failed")
    BY <1>9 DEF Decide
  <2>2. /\ hook.always => hook.read = record[hook.member] /\ InForce(record[hook.member], now)
        /\ Blocks(hook.read, now) => hook.ever
    BY <2>1 DEF EnforcementInv, HookInv
  <2>3. CASE hook' = Passed("failed")
    BY <1>4, <2>1, <2>3
  <2>4. CASE hook' = Stopped /\ Blocks(hook.read, now)
    BY <1>5, <2>1, <2>2, <2>4
  <2>5. CASE hook' = Passed("none") /\ ~Blocks(hook.read, now)
    <3>1. hook.read \in Stored /\ now \in Nat
      BY <1>0, <2>1, TimesAreNat DEF Hooks, TypeOK
    <3>2. ~hook.always
      BY <2>2, <2>5, <3>1, BlocksWhileInForce
    <3> QED
      BY <1>4, <2>1, <2>5, <3>2
  <2> QED
    BY <2>1, <2>3, <2>4, <2>5
<1> QED
  BY <1>2, <1>3, <1>6, <1>7, <1>8, <1>9 DEF HookStep, Banned, Return

LEMMA StatusStep ==
    ASSUME EnforcementInv, NEW m \in Members, FetchStatus(m)
    PROVE  EnforcementInv'
<1>1. TypeOK /\ record[m] \in Stored /\ now \in Nat
  BY TimesAreNat DEF EnforcementInv, EnforcementTypeOK, TypeOK
<1>2. BoundInv' /\ UNCHANGED <<record, now, hook>>
  BY DEF FetchStatus, EnforcementInv, BoundInv, vars, TypeOK, TimeoutBounded, BoundedRequests
<1>3. StatusOf(record[m], now) \in Statuses
  BY <1>1, StatusType
<1>4. box' \in [Members -> Statuses \cup {Unsure}]
  BY <1>3 DEF FetchStatus, EnforcementInv, EnforcementTypeOK
<1>5. BoxInv'
  <2> SUFFICES ASSUME NEW n \in Members, box'[n] # Unsure
               PROVE  \E t \in Nat : t <= now' /\ box'[n] = StatusOf(record'[n], t)
    BY DEF BoxInv
  <2>1. CASE n = m
    <3>1. box'[n] = StatusOf(record[n], now)
      BY <2>1 DEF FetchStatus, EnforcementInv, EnforcementTypeOK
    <3> QED
      BY <1>1, <1>2, <3>1
  <2>2. CASE n # m
    <3>1. box'[n] = box[n]
      BY <2>2 DEF FetchStatus, EnforcementInv, EnforcementTypeOK
    <3> QED
      BY <1>2, <3>1 DEF EnforcementInv, BoxInv
  <2> QED
    BY <2>1, <2>2
<1>6. HookInv'
  BY <1>2 DEF EnforcementInv, HookInv
<1> QED
  BY <1>2, <1>4, <1>5, <1>6 DEF EnforcementInv, EnforcementTypeOK, BoundInv

------------------------------------------------------------------------------

LEMMA EnforcementInvariant == EnforcementSpec => []EnforcementInv
<1>1. EnforcementInv /\ UNCHANGED enforcementVars => EnforcementInv'
  BY DEF enforcementVars, vars, EnforcementInv, BoundInv, EnforcementTypeOK, TypeOK,
         TimeoutBounded, BoundedRequests, BoxInv, HookInv
<1>2. EnforcementInv /\ [EnforcementNext]_enforcementVars => EnforcementInv'
  BY <1>1, WatchStep, HookMoves, StatusStep DEF EnforcementNext
<1> QED
  BY EnforcementInitial, <1>2, PTL DEF EnforcementSpec

\* The records, the requests, the job, the hook and the status that the message
\* box goes by keep their types.
THEOREM EnforcementTypeCorrect == EnforcementSpec => []EnforcementTypeOK
<1>1. EnforcementInv => EnforcementTypeOK
  BY DEF EnforcementInv
<1> QED
  BY EnforcementInvariant, <1>1, PTL

\* For any requests, job runs and clocks: a hook (postingBlockedReason and
\* ReactionHasBeenAdded) lets past it what one record forbids from the hook's
\* beginning to its end only where the node's index has missed the record or a call
\* of the hook's has failed.
THEOREM HooksStop == EnforcementSpec => []StopsMessages
<1>1. EnforcementInv => StopsMessages
  BY DEF EnforcementInv, HookInv, StopsMessages
<1> QED
  BY EnforcementInvariant, <1>1, PTL

\* And it stops nobody who was at no moment of it restricted.
THEOREM HooksStopNobodyElse == EnforcementSpec => []StopsOnlyRestricted
<1>1. EnforcementInv => StopsOnlyRestricted
  BY DEF EnforcementInv, HookInv, StopsOnlyRestricted
<1> QED
  BY EnforcementInvariant, <1>1, PTL

\* And the message box says what the hooks would, from the moment of the answer it
\* goes by until the record changes, however many timeouts run out in between.
THEOREM BoxAgreesWithHooks == EnforcementSpec => []BoxAgrees
<1>1. EnforcementInv => BoxAgrees
  <2> SUFFICES ASSUME EnforcementInv, NEW m \in Members, box[m] # Unsure
               PROVE  BoxBlocks(box[m], now) <=> InForce(record[m], now)
    BY DEF BoxAgrees
  <2>1. PICK t \in Nat : t <= now /\ box[m] = StatusOf(record[m], t)
    BY DEF EnforcementInv, BoxInv
  <2>2. record[m] \in Stored /\ now \in Nat
    BY TimesAreNat DEF EnforcementInv, EnforcementTypeOK, TypeOK
  <2> QED
    BY <2>1, <2>2, StatusLasts, BlocksWhileInForce
<1> QED
  BY EnforcementInvariant, <1>1, PTL
================================================================================
