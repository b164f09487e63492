------------------------------- MODULE ReportOps -------------------------------
(***************************************************************************)
(* What the operations on a report queue compute (server/reports.go): the  *)
(* reports, the duplicate check, the cap and the edits.                    *)
(***************************************************************************)
EXTENDS Naturals, FiniteSets, Sequences

CONSTANTS
    Channels,
    Reporters,   \* members who report
    Subjects,    \* what a report is about: a message, or a member
    Posts,       \* the subjects that are messages
    ChannelsOf,  \* subject -> the channels it can be reported in
    Target,      \* subject -> the member it is by, or is
    MaxStored,   \* maxStoredReports
    MaxTime,     \* bound: the clock stops here
    MaxReports   \* bound: reports ever filed

Statuses == {"open", "escalated", "resolved"}
Ids == 1..MaxReports
Targets == {Target[s] : s \in Subjects}

ASSUME SubjectsAssumption ==
    /\ Posts \subseteq Subjects
    /\ ChannelsOf \in [Subjects -> SUBSET Channels]
    /\ \A s \in Posts : \E c \in Channels : ChannelsOf[s] = {c}
    /\ DOMAIN Target = Subjects
ASSUME StoreAssumption == 
    /\ MaxStored \in Nat \ {0} /\ MaxTime \in Nat \ {0} /\ MaxReports \in Nat

Unresolved(r) == r.status # "resolved"

\* The entries of a list at some of its positions, in their order.
Nth(positions, k) ==
    CHOOSE i \in positions : Cardinality({j \in positions : j < i}) = k - 1
AtPositions(list, positions) ==
    [k \in 1..Cardinality(positions) |-> list[Nth(positions, k)]]

\* capReports: the reports to drop first are the resolved ones, oldest first,
\* then the others, oldest first.
Resolved(rs) == {i \in DOMAIN rs : ~Unresolved(rs[i])}
DropOrder(rs, i) ==
    IF i \in Resolved(rs)
      THEN Cardinality({j \in Resolved(rs) : j > i})
      ELSE Cardinality(Resolved(rs)) + Cardinality({j \in DOMAIN rs \ Resolved(rs) : j > i})

\* Slips: a cap that drops the oldest report whatever its status, one that drops
\* nothing, and a duplicate check that overlooks escalated reports.
DropOldest(rs) == SubSeq(rs, 1, IF Len(rs) > MaxStored THEN MaxStored ELSE Len(rs))
KeepAll(rs) == rs
DuplicateOpen(rs, u, s) ==
    \E i \in DOMAIN rs : rs[i].by = u /\ rs[i].about = s /\ rs[i].status = "open"

capReports(rs) == AtPositions(rs, {i \in DOMAIN rs : DropOrder(rs, i) + MaxStored >= Len(rs)})

\* hasDuplicateReport.
hasDuplicateReport(rs, u, s) ==
    \E i \in DOMAIN rs : rs[i].by = u /\ rs[i].about = s /\ Unresolved(rs[i])

\* Which reports a resolving request matches: all about a member (mute or
\* timeout), all about a message (deletion), the one a warning was sent from.
Matches(q, r) ==
    CASE q.op = "resolveUser" -> Target[r.about] = q.arg
      [] q.op = "resolvePost" -> r.about = q.arg
      [] q.op = "resolveOne"  -> r.id = q.arg

\* The edit each request makes to a report.
Edited(q, r) ==
    CASE q.op = "dismiss"  -> IF r.id = q.arg THEN [r EXCEPT !.status = "resolved"] ELSE r
      [] q.op = "escalate" -> IF Target[r.about] = q.arg /\ r.status = "open"
                                THEN [r EXCEPT !.status = "escalated"] ELSE r
      [] OTHER -> IF Matches(q, r) THEN [r EXCEPT !.status = "resolved"] ELSE r
==============================================================================
