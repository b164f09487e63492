------------------------ MODULE ModerationIndexHistory ------------------------
(***************************************************************************)
(* ModerationIndex with two history variables: the entries whose record    *)
(* was missing from the store at some moment of a node's current rebuild,  *)
(* and the entries added to the index since it began.  They change nothing *)
(* the index does.  They say what a rebuild is allowed to forget, which no *)
(* single state of the index shows.                                        *)
(***************************************************************************)
EXTENDS ModerationIndex

VARIABLES
    absent,  \* node -> entries seen missing since its rebuild began
    added    \* node -> entries added since its rebuild began

history == <<absent, added>>
historyVars == <<vars, history>>

HistoryTypeOK ==
    /\ TypeOK
    /\ absent \in [Nodes -> SUBSET Entries]
    /\ added \in [Nodes -> SUBSET Entries]

\* The next value of absent[n], from the phases and the store on both sides of
\* a step.
AbsentNext(n) ==
    IF phase'[n] = "idle" THEN {}
    ELSE (IF phase[n] = "idle" THEN {} ELSE absent[n]) \cup (Entries \ kv) \cup (Entries \ kv')

\* The node adds the entry, for a request of its own or another node's.
Adds(n, e) == (\E h \in Handlers : AddToIndex(h, n, e)) \/ DeliverEvent(n, e)

AddedNext(n) ==
    IF phase'[n] = "idle" THEN {}
    ELSE (IF phase[n] = "idle" THEN {} ELSE added[n]) \cup {e \in Entries : Adds(n, e)}

HistoryInit ==
    /\ Init
    /\ absent = [n \in Nodes |-> {}]
    /\ added = [n \in Nodes |-> {}]

HistoryNext ==
    /\ Next
    /\ absent' = [n \in Nodes |-> AbsentNext(n)]
    /\ added' = [n \in Nodes |-> AddedNext(n)]

HistorySpec == HistoryInit /\ [][HistoryNext]_historyVars
FairHistorySpec == HistorySpec /\ Fairness

------------------------------------------------------------------------------

\* A node with a loaded index never drops an entry whose record stayed in the
\* store throughout the rebuild: not when records deleted while paging shift
\* its key onto a page already read, not when the store fails to answer
\* (rebuildIndex, the recheck).  And it never drops one that was added while the
\* rebuild ran, whether or not its record has been written by then (pending).
LoadedIndexDropsOnlyAbsent ==
    [][\A n \in Nodes :
         ready[n] /\ ready'[n] =>
             index[n] \ index'[n] \subseteq absent[n] \ added[n]]_historyVars

\* The invariant it rests on.  While a rebuild runs, whatever is missing from
\* the store is on record, and what has been added is in pending.  Once the scan is
\* over, an entry of the index is in the map being built, in pending, still to be
\* rechecked, or was seen missing.
AbsentRecorded ==
    \A n \in Nodes : Rebuilding(n) => Entries \ kv \subseteq absent[n]

RecheckAccounts ==
    \A n \in Nodes : phase[n] = "recheck" =>
        index[n] \subseteq found[n] \cup pending[n] \cup todo[n] \cup absent[n]

AddedPending == \A n \in Nodes : added[n] \subseteq pending[n]

RebuildInv == AbsentRecorded /\ AddedPending /\ RecheckAccounts
==============================================================================
