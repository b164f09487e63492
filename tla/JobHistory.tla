------------------------------ MODULE JobHistory ------------------------------
(***************************************************************************)
(* Restrictions with history variables about the run of the job: what it   *)
(* ought to find, how often the pages shifted under it, and which of the   *)
(* records it found have been written since.  They change nothing the job  *)
(* does, except that MaxShifts bounds how far they count.                  *)
(***************************************************************************)
EXTENDS Restrictions

CONSTANT MaxShifts  \* bound: keys that come or go while a run lists

ASSUME ShiftsAssumption == MaxShifts \in Nat

VARIABLES
    due,     \* records that had expired when the run began, on the pages it reads,
             \* that nobody has changed and no failing call has made it skip
    shifts,  \* keys that others stored or deleted while the run was listing
    renewed  \* records written since the run took them for expired

history == <<due, shifts, renewed>>
historyVars == <<vars, history>>

HistoryTypeOK ==
    /\ TypeOK
    /\ due \subseteq Members /\ renewed \subseteq Members
    /\ shifts \in 0..MaxShifts

Listing == job.stage \in {"list", "read"}

\* The records the run ought to remove.
DueAtStart ==
    {m \in Members : /\ Expired(record[m], now)
                     /\ Rank(Keys, KeyPos, m) < JobPages * JobPageSize}

\* Taken up by the run and let go: its read or its delete has failed.
Skipped(m) ==
    /\ Failures
    /\ m \in job.unread \cup job.expired /\ m \notin job'.unread \cup job'.expired

DueNext ==
    IF job'.stage = "idle" THEN {}
    ELSE IF job.stage = "idle" THEN DueAtStart
    ELSE {m \in due : record'[m] = record[m] /\ ~Skipped(m)}

ShiftsNext ==
    IF job'.stage = "idle" THEN 0
    ELSE IF Listing /\ job' = job /\ Keys' # Keys THEN shifts + 1
    ELSE shifts

RenewedNext ==
    job'.expired \cap (renewed \cup {m \in job.expired : record'[m] # record[m]})

HistoryInit == Init /\ due = {} /\ shifts = 0 /\ renewed = {}

HistoryNext ==
    /\ Next
    /\ due' = DueNext /\ shifts' = ShiftsNext /\ renewed' = RenewedNext
    /\ shifts' <= MaxShifts

HistorySpec == HistoryInit /\ [][HistoryNext]_historyVars
FairHistorySpec == HistorySpec /\ Fairness

------------------------------------------------------------------------------
(* What is expected of a run.                                              *)

\* "Deleting while paging shifts later keys onto pages that were already read,
\* skipping them" (runJob): the job itself shifts none, so a run that has listed
\* its pages has missed at most one expired record for each key of the plugin, of
\* whatever kind, that others stored or deleted meanwhile, not counting those beyond its last
\* page when it began.
JobMissesOnlyShifted ==
    job.stage = "delete" => Cardinality(due \ job.expired) <= shifts

\* The job "removes expired timeout records".  It also removes records that
\* restrict, because it takes no second look before it deletes: precisely those
\* that a request has written since the run took them for expired, and no others.
JobDeletesOnlyExpired ==
    [][\A m \in Members :
         JobDelete(m) /\ record[m]' # record[m] =>
             Expired(record[m], now) \/ m \in renewed]_historyVars
==============================================================================
