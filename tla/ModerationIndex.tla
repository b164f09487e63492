--------------------------- MODULE ModerationIndex ---------------------------
(***************************************************************************)
(* The in-memory index that every server node keeps of the bans and        *)
(* channel restrictions in the plugin's KV store (server/index.go).        *)
(*                                                                         *)
(* The post and reaction hooks ask the index first and read the KV store   *)
(* only for members it lists, so a record the index misses is a record     *)
(* nobody enforces.  An entry is added before its record is written, sent  *)
(* to the other nodes as a cluster event, and dropped by a rebuild that    *)
(* pages through the whole store while writers keep working.               *)
(***************************************************************************)
EXTENDS KVPaging

CONSTANTS
    Nodes,      \* server nodes, each with an index of its own
    Handlers,   \* concurrent mute, timeout and ban requests
    Bans,       \* ban entries: a member
    Restricted, \* restriction entries: a member in a channel
    OtherKeys,  \* every other key of the plugin: reports, moderators, ...
    KeyPos,     \* the position of a key in the store's listing order
    PageSize,   \* indexPageSize
    KVErrors,   \* whether the store may fail a call
    Idle        \* a handler with no write in progress

Entries == Bans \cup Restricted
Keys == Entries \cup OtherKeys

\* A handler between addToIndex and its last write.  A ban is written up to
\* three times: the record, the removed picture, the placeholder username.
Write == [node : Nodes, entry : Entries, left : 1..3]

ASSUME KeysAssumption ==
    /\ Bans \cap Restricted = {}
    /\ Entries \cap OtherKeys = {}
    /\ IsFiniteSet(Keys)
    /\ IsKeyOrder(KeyPos, Keys)
ASSUME PageSizeAssumption == PageSize \in Nat \ {0}
ASSUME KVErrorsAssumption == KVErrors \in BOOLEAN
ASSUME IdleAssumption == Idle \notin Write

VARIABLES
    kv,       \* the keys present in the store
    storing,  \* handler -> the write it still has to make
    events,   \* cluster events on their way: <<node, entry>>
    index,    \* node -> moderationIndex.banned and .restricted
    ready,    \* node -> moderationIndex.ready
    phase,    \* node -> where its rebuildIndex is
    page,     \* node -> the next page rebuildIndex reads
    found,    \* node -> the maps rebuildIndex is building
    todo,     \* node -> entries of the old index still to be rechecked
    pending   \* node -> moderationIndex.pending

indexVars == <<index, ready, phase, page, found, todo, pending>>
vars == <<kv, storing, events, indexVars>>

TypeOK ==
    /\ kv \subseteq Keys
    /\ storing \in [Handlers -> Write \cup {Idle}]
    /\ events \subseteq Nodes \X Entries
    /\ index \in [Nodes -> SUBSET Entries]
    /\ ready \in [Nodes -> BOOLEAN]
    /\ phase \in [Nodes -> {"idle", "scan", "recheck"}]
    /\ page \in [Nodes -> Nat]
    /\ found \in [Nodes -> SUBSET Entries]
    /\ todo \in [Nodes -> SUBSET Entries]
    /\ pending \in [Nodes -> SUBSET Entries]

\* A plugin starts on every node with an empty, unloaded index over whatever
\* records an earlier run left in the store.
Init ==
    /\ kv \in SUBSET Keys
    /\ storing = [h \in Handlers |-> Idle]
    /\ events = {}
    /\ index = [n \in Nodes |-> {}]
    /\ ready = [n \in Nodes |-> FALSE]
    /\ phase = [n \in Nodes |-> "idle"]
    /\ page = [n \in Nodes |-> 0]
    /\ found = [n \in Nodes |-> {}]
    /\ todo = [n \in Nodes |-> {}]
    /\ pending = [n \in Nodes |-> {}]

------------------------------------------------------------------------------
(* What the hooks ask.                                                     *)

\* mayBeBanned and mayBeRestricted: an unloaded index lists everybody.
MayBeListed(n, e) == ready[n] => e \in index[n]

------------------------------------------------------------------------------
(* Records come and go.                                                    *)

Rebuilding(n) == phase[n] # "idle"

\* Slips in the code above and below, each of which a property must notice:
\* an addition that is not remembered, a write too many, a scan trusted to be
\* complete, and a rebuild that never drops anything.
RememberNothing(n, e) == UNCHANGED pending
OneWriteTooMany(w) == IF w.left = 0 THEN Idle ELSE [w EXCEPT !.left = @ - 1]
TrustScan(n, seen) == {}
KeepEverything(n) == index[n] \cup found[n] \cup pending[n]

\* A running rebuild remembers additions.
Remember(n, e) ==
    pending' = IF Rebuilding(n) THEN [pending EXCEPT ![n] = @ \cup {e}] ELSE pending

\* moderationIndex.add.
Add(n, e) ==
    /\ index' = [index EXCEPT ![n] = @ \cup {e}]
    /\ Remember(n, e)
    /\ UNCHANGED <<ready, phase, page, found, todo>>

WriteCounts(e) == IF e \in Bans THEN 1..3 ELSE {1}

\* addToIndex, called by muteUser, timeoutUser and banUser before they write
\* the record.  Publishing may fail, and an event may miss a node.
AddToIndex(h, n, e) ==
    /\ storing[h] = Idle
    /\ \E left \in WriteCounts(e) :
        storing' = [storing EXCEPT ![h] = [node |-> n, entry |-> e, left |-> left]]
    /\ Add(n, e)
    /\ \E reached \in SUBSET (Nodes \ {n}) : events' = events \cup (reached \X {e})
    /\ UNCHANGED kv

Written(w) == IF w.left = 1 THEN Idle ELSE [w EXCEPT !.left = @ - 1]

\* SetRestriction, or one of banUser's SetBan calls.
StoreRecord(h) ==
    /\ storing[h] # Idle
    /\ kv' = kv \cup {storing[h].entry}
    /\ storing' = [storing EXCEPT ![h] = Written(@)]
    /\ UNCHANGED <<events, indexVars>>

\* The write fails: the handler reports the error and the entry stays listed.
StoreFails(h) ==
    /\ KVErrors
    /\ storing[h] # Idle
    /\ storing' = [storing EXCEPT ![h] = Idle]
    /\ UNCHANGED <<kv, events, indexVars>>

\* liftRestrictions, unbanUser and the cleanup job delete records; other keys
\* go as well (the lock of a channel, say).  The index is not told.
DeleteRecord(k) ==
    /\ k \in kv
    /\ kv' = kv \ {k}
    /\ UNCHANGED <<storing, events, indexVars>>

\* A key the index does not care about is written.
StoreOther(k) ==
    /\ k \notin kv
    /\ kv' = kv \cup {k}
    /\ UNCHANGED <<storing, events, indexVars>>

\* OnPluginClusterEvent.
DeliverEvent(n, e) ==
    /\ <<n, e>> \in events
    /\ events' = events \ {<<n, e>>}
    /\ Add(n, e)
    /\ UNCHANGED <<kv, storing>>

------------------------------------------------------------------------------
(* rebuildIndex on node n, a call to the store at a time.                  *)

ListKeys(i) == KeysOnPage(kv, KeyPos, PageSize, i)

\* beginRebuild.
BeginRebuild(n) ==
    /\ ~Rebuilding(n)
    /\ phase' = [phase EXCEPT ![n] = "scan"]
    /\ page' = [page EXCEPT ![n] = 0]
    /\ found' = [found EXCEPT ![n] = {}]
    /\ pending' = [pending EXCEPT ![n] = {}]
    /\ UNCHANGED <<kv, storing, events, index, ready, todo>>

\* What the old index has and the scan did not find is looked up again.
ToRecheck(n, seen) == index[n] \ seen

\* The maps endRebuild installs.
Rebuilt(n) == found[n] \cup pending[n]

\* One page; a short page ends the scan, and entries() lists the old index.
ScanPage(n) ==
    LET keys == ListKeys(page[n])
        seen == found[n] \cup (keys \cap Entries)
    IN  /\ phase[n] = "scan"
        /\ found' = [found EXCEPT ![n] = seen]
        /\ IF Cardinality(keys) < PageSize
             THEN /\ phase' = [phase EXCEPT ![n] = "recheck"]
                  /\ todo' = [todo EXCEPT ![n] = ToRecheck(n, seen)]
                  /\ UNCHANGED page
             ELSE /\ page' = [page EXCEPT ![n] = @ + 1]
                  /\ UNCHANGED <<phase, todo>>
        /\ UNCHANGED <<kv, storing, events, index, ready, pending>>

\* ListKeys fails: endRebuild(nil, nil, false) keeps the old index.
ScanFails(n) ==
    /\ KVErrors
    /\ phase[n] = "scan"
    /\ phase' = [phase EXCEPT ![n] = "idle"]
    /\ page' = [page EXCEPT ![n] = 0]
    /\ found' = [found EXCEPT ![n] = {}]
    /\ pending' = [pending EXCEPT ![n] = {}]
    /\ UNCHANGED <<kv, storing, events, index, ready, todo>>

\* GetBan or GetRestriction for one entry of the old index: it is kept when
\* the store still has its record ...
Recheck(n, e) ==
    /\ e \in todo[n]
    /\ todo' = [todo EXCEPT ![n] = @ \ {e}]
    /\ found' = [found EXCEPT ![n] = @ \cup ({e} \cap kv)]
    /\ UNCHANGED <<kv, storing, events, index, ready, phase, page, pending>>

\* ... and when the store cannot tell.
RecheckFails(n, e) ==
    /\ KVErrors
    /\ e \in todo[n]
    /\ todo' = [todo EXCEPT ![n] = @ \ {e}]
    /\ found' = [found EXCEPT ![n] = @ \cup {e}]
    /\ UNCHANGED <<kv, storing, events, index, ready, phase, page, pending>>

\* endRebuild(banned, restricted, true); the locals of rebuildIndex are gone.
EndRebuild(n) ==
    /\ phase[n] = "recheck"
    /\ todo[n] = {}
    /\ index' = [index EXCEPT ![n] = Rebuilt(n)]
    /\ ready' = [ready EXCEPT ![n] = TRUE]
    /\ phase' = [phase EXCEPT ![n] = "idle"]
    /\ page' = [page EXCEPT ![n] = 0]
    /\ found' = [found EXCEPT ![n] = {}]
    /\ pending' = [pending EXCEPT ![n] = {}]
    /\ UNCHANGED <<kv, storing, events, todo>>

\* The plugin restarts on a node: the index, the handlers and the undelivered
\* events of that node are gone, the store is not.
Restart(n) ==
    /\ index' = [index EXCEPT ![n] = {}]
    /\ ready' = [ready EXCEPT ![n] = FALSE]
    /\ phase' = [phase EXCEPT ![n] = "idle"]
    /\ page' = [page EXCEPT ![n] = 0]
    /\ found' = [found EXCEPT ![n] = {}]
    /\ todo' = [todo EXCEPT ![n] = {}]
    /\ pending' = [pending EXCEPT ![n] = {}]
    /\ storing' = [h \in Handlers |->
                     IF storing[h] # Idle /\ storing[h].node = n THEN Idle ELSE storing[h]]
    /\ events' = {ev \in events : ev[1] # n}
    /\ UNCHANGED kv

RebuildStep(n) ==
    \/ BeginRebuild(n)
    \/ ScanPage(n)
    \/ \E e \in Entries : Recheck(n, e)
    \/ EndRebuild(n)

ReadFails(n) ==
    \/ ScanFails(n)
    \/ \E e \in Entries : RecheckFails(n, e)

Next ==
    \/ \E h \in Handlers, n \in Nodes, e \in Entries : AddToIndex(h, n, e)
    \/ \E h \in Handlers : StoreRecord(h)
    \/ \E h \in Handlers : StoreFails(h)
    \/ \E k \in Keys : DeleteRecord(k)
    \/ \E k \in OtherKeys : StoreOther(k)
    \/ \E n \in Nodes, e \in Entries : DeliverEvent(n, e)
    \/ \E n \in Nodes : RebuildStep(n)
    \/ \E n \in Nodes : ReadFails(n)
    \/ \E n \in Nodes : Restart(n)

Spec == Init /\ [][Next]_vars

\* maintainIndex rebuilds at start and at every tick of its ticker, and the
\* cluster delivers the events it accepted.
Fairness ==
    /\ \A n \in Nodes : WF_vars(RebuildStep(n))
    /\ \A n \in Nodes, e \in Entries : WF_vars(DeliverEvent(n, e))

------------------------------------------------------------------------------
(* What the index promises.                                                *)

\* "It must never miss an active one" (the comment on moderationIndex): a
\* record in the store is listed, or everybody is, on every node.
NeverMisses == \A n \in Nodes, e \in Entries : e \in kv => MayBeListed(n, e)

\* Once the store stops changing and failing and the nodes stop restarting,
\* every node has a loaded index that lists exactly the records in the store:
\* it drops lifted bans and restrictions again, and finds what a missed cluster
\* event or a scan of a shifting store left out (indexRebuildInterval).
Quiet(K) == kv = K /\ events = {} /\ \A h \in Handlers : storing[h] = Idle
Exact(K) == \A n \in Nodes : ready[n] /\ index[n] = K \cap Entries
Settled == <>[][\A n \in Nodes : ~Restart(n) /\ ~ReadFails(n)]_vars
Converges == Settled => \A K \in SUBSET Keys : <>[]Quiet(K) => <>[]Exact(K)
==============================================================================
