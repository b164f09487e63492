------------------------ MODULE ModerationIndexProofs ------------------------
(***************************************************************************)
(* Proofs about ModerationIndex for every set of nodes, handlers and keys, *)
(* every key order and every page size.                                    *)
(***************************************************************************)
EXTENDS ModerationIndexHistory, TLAPS

\* The initial state is well typed.
LEMMA InitTypeOK == Init => TypeOK
BY DEF Init, TypeOK

\* A handler's remaining writes stay a legal value or run out.
LEMMA WrittenType ==
    ASSUME NEW w \in Write
    PROVE  Written(w) \in Write \cup {Idle}
BY DEF Write, Written

\* moderationIndex.add keeps the types of the index variables.
LEMMA AddType ==
    ASSUME TypeOK, NEW n \in Nodes, NEW e \in Entries, Add(n, e)
    PROVE  /\ index' \in [Nodes -> SUBSET Entries]
           /\ ready' \in [Nodes -> BOOLEAN]
           /\ phase' \in [Nodes -> {"idle", "scan", "recheck"}]
           /\ page' \in [Nodes -> Nat]
           /\ found' \in [Nodes -> SUBSET Entries]
           /\ todo' \in [Nodes -> SUBSET Entries]
           /\ pending' \in [Nodes -> SUBSET Entries]
BY DEF TypeOK, Add, Remember, Rebuilding

\* Every step keeps the types.
LEMMA NextTypeOK == TypeOK /\ [Next]_vars => TypeOK'
<1> SUFFICES ASSUME TypeOK, [Next]_vars PROVE TypeOK'
  OBVIOUS
<1>1. ASSUME NEW h \in Handlers, NEW n \in Nodes, NEW e \in Entries, AddToIndex(h, n, e)
      PROVE  TypeOK'
  <2>1. storing' \in [Handlers -> Write \cup {Idle}]
    BY <1>1 DEF AddToIndex, TypeOK, Write, WriteCounts
  <2>2. events' \subseteq Nodes \X Entries
    BY <1>1 DEF AddToIndex, TypeOK
  <2> QED
    BY <1>1, <2>1, <2>2, AddType DEF AddToIndex, TypeOK
<1>2. ASSUME NEW h \in Handlers, StoreRecord(h)
      PROVE  TypeOK'
  <2>1. storing[h] \in Write
    BY <1>2 DEF StoreRecord, TypeOK
  <2>2. Written(storing[h]) \in Write \cup {Idle} /\ storing[h].entry \in Entries
    BY <2>1, WrittenType DEF Write
  <2> QED
    BY <1>2, <2>2 DEF StoreRecord, TypeOK, indexVars, Keys
<1>3. ASSUME NEW h \in Handlers, StoreFails(h)
      PROVE  TypeOK'
  BY <1>3 DEF StoreFails, TypeOK, indexVars
<1>4. ASSUME NEW k \in Keys, DeleteRecord(k)
      PROVE  TypeOK'
  BY <1>4 DEF DeleteRecord, TypeOK, indexVars
<1>5. ASSUME NEW k \in OtherKeys, StoreOther(k)
      PROVE  TypeOK'
  BY <1>5 DEF StoreOther, TypeOK, indexVars, Keys
<1>6. ASSUME NEW n \in Nodes, NEW e \in Entries, DeliverEvent(n, e)
      PROVE  TypeOK'
  BY <1>6, AddType DEF DeliverEvent, TypeOK
<1>7. ASSUME NEW n \in Nodes, BeginRebuild(n)
      PROVE  TypeOK'
  BY <1>7 DEF BeginRebuild, TypeOK
<1>8. ASSUME NEW n \in Nodes, ScanPage(n)
      PROVE  TypeOK'
  <2>1. CASE Cardinality(ListKeys(page[n])) < PageSize
    BY <1>8, <2>1 DEF ScanPage, ToRecheck, TypeOK
  <2>2. CASE ~(Cardinality(ListKeys(page[n])) < PageSize)
    BY <1>8, <2>2 DEF ScanPage, TypeOK
  <2> QED
    BY <2>1, <2>2
<1>9. ASSUME NEW n \in Nodes, NEW e \in Entries, Recheck(n, e) \/ RecheckFails(n, e)
      PROVE  TypeOK'
  BY <1>9 DEF Recheck, RecheckFails, TypeOK
<1>10. ASSUME NEW n \in Nodes, EndRebuild(n)
       PROVE  TypeOK'
  BY <1>10 DEF EndRebuild, Rebuilt, TypeOK
<1>11. ASSUME NEW n \in Nodes, ScanFails(n)
       PROVE  TypeOK'
  BY <1>11 DEF ScanFails, TypeOK
<1>12. ASSUME NEW n \in Nodes, Restart(n)
       PROVE  TypeOK'
  BY <1>12 DEF Restart, TypeOK
<1>13. CASE UNCHANGED vars
  BY <1>13 DEF vars, indexVars, TypeOK
<1> QED
  BY <1>1, <1>2, <1>3, <1>4, <1>5, <1>6, <1>7, <1>8, <1>9, <1>10, <1>11, <1>12, <1>13
     DEF Next, RebuildStep, ReadFails

\* Type correctness of the index, its rebuilds and the writers around it.
THEOREM TypeCorrect == Spec => []TypeOK
BY InitTypeOK, NextTypeOK, PTL DEF Spec

------------------------------------------------------------------------------

HistoryInv == HistoryTypeOK /\ RebuildInv

\* What moderationIndex.add and a step that leaves the index alone do to the
\* account kept by RecheckAccounts.
LEMMA HistoryAdd ==
    ASSUME HistoryInv, NEW n \in Nodes, NEW e \in Entries, Add(n, e),
           absent' = [m \in Nodes |-> AbsentNext(m)]
    PROVE  (AbsentRecorded /\ RecheckAccounts)'
<1>1. AbsentRecorded'
  BY DEF Add, Rebuilding, AbsentRecorded, AbsentNext
<1>2. RecheckAccounts'
  <2> SUFFICES ASSUME NEW m \in Nodes, phase'[m] = "recheck"
               PROVE  index'[m] \subseteq found'[m] \cup pending'[m] \cup todo'[m] \cup absent'[m]
    BY DEF RecheckAccounts
  <2>1. index[m] \subseteq found[m] \cup pending[m] \cup todo[m] \cup absent[m]
    BY DEF HistoryInv, RebuildInv, RecheckAccounts, Add
  <2>2. absent[m] \subseteq absent'[m]
    BY DEF AbsentNext, Add
  <2> QED
    BY <2>1, <2>2 DEF HistoryInv, HistoryTypeOK, TypeOK, Add, Remember, Rebuilding
<1> QED
  BY <1>1, <1>2

LEMMA HistoryKeep ==
    ASSUME HistoryInv, UNCHANGED indexVars,
           absent' = [m \in Nodes |-> AbsentNext(m)]
    PROVE  (AbsentRecorded /\ RecheckAccounts)'
<1>1. AbsentRecorded'
  BY DEF AbsentRecorded, AbsentNext, Rebuilding, indexVars
<1>2. RecheckAccounts'
  <2>1. \A m \in Nodes : phase[m] = "recheck" => absent[m] \subseteq absent'[m]
    BY DEF AbsentNext, indexVars
  <2> QED
    BY <2>1 DEF HistoryInv, RebuildInv, RecheckAccounts, indexVars
<1> QED
  BY <1>1, <1>2

\* An addition while a rebuild runs is remembered, and nothing is forgotten before
\* the rebuild ends.
LEMMA HistoryAdded ==
    ASSUME HistoryInv, HistoryNext
    PROVE  AddedPending'
<1> SUFFICES ASSUME NEW n \in Nodes, phase'[n] # "idle"
             PROVE  added'[n] \subseteq pending'[n]
  BY DEF HistoryNext, AddedNext, AddedPending
<1> USE DEF HistoryInv, HistoryTypeOK, TypeOK
<1>1. ASSUME NEW e \in Entries, Adds(n, e)
      PROVE  phase[n] # "idle" /\ e \in pending'[n]
  BY <1>1 DEF Adds, AddToIndex, DeliverEvent, Add, Remember, Rebuilding
<1>2. ASSUME phase[n] # "idle"
      PROVE  pending[n] \subseteq pending'[n]
  <2> USE <1>2
  <2>1. ASSUME NEW m \in Nodes, NEW e \in Entries, Add(m, e)
        PROVE  pending[n] \subseteq pending'[n]
    BY <2>1 DEF Add, Remember
  <2>2. ASSUME NEW m \in Nodes, BeginRebuild(m) \/ EndRebuild(m) \/ ScanFails(m) \/ Restart(m)
        PROVE  pending'[n] = pending[n]
    BY <2>2 DEF BeginRebuild, EndRebuild, ScanFails, Restart, Rebuilding
  <2>3. CASE UNCHANGED pending
    BY <2>3
  <2> QED
    BY <2>1, <2>2, <2>3
       DEF HistoryNext, Next, RebuildStep, ReadFails, AddToIndex, StoreRecord, StoreFails,
           DeleteRecord, StoreOther, DeliverEvent, ScanPage, Recheck, RecheckFails, indexVars
<1>3. added'[n] = (IF phase[n] = "idle" THEN {} ELSE added[n]) \cup {e \in Entries : Adds(n, e)}
  BY DEF HistoryNext, AddedNext
<1> QED
  BY <1>1, <1>2, <1>3 DEF RebuildInv, AddedPending

\* Every step keeps the history's type and what it says of a rebuild.
LEMMA HistoryNextInv == HistoryInv /\ [HistoryNext]_historyVars => HistoryInv'
<1> SUFFICES ASSUME HistoryInv, [HistoryNext]_historyVars PROVE HistoryInv'
  OBVIOUS
<1>1. TypeOK'
  BY NextTypeOK DEF HistoryInv, HistoryTypeOK, HistoryNext, historyVars
<1>2. CASE HistoryNext
  <2> USE <1>2 DEF HistoryNext
  <2>1. absent' \in [Nodes -> SUBSET Entries] /\ added' \in [Nodes -> SUBSET Entries]
    BY DEF HistoryInv, HistoryTypeOK, AbsentNext, AddedNext
  <2>2. AbsentRecorded'
    BY DEF AbsentRecorded, AbsentNext, Rebuilding
  <2>3. ASSUME NEW h \in Handlers, NEW n \in Nodes, NEW e \in Entries, AddToIndex(h, n, e)
        PROVE  RecheckAccounts'
    BY <2>3, HistoryAdd DEF AddToIndex
  <2>4. ASSUME NEW h \in Handlers, StoreRecord(h) \/ StoreFails(h)
        PROVE  RecheckAccounts'
    BY <2>4, HistoryKeep DEF StoreRecord, StoreFails
  <2>5. ASSUME NEW k \in Keys, DeleteRecord(k) \/ StoreOther(k)
        PROVE  RecheckAccounts'
    BY <2>5, HistoryKeep DEF DeleteRecord, StoreOther
  <2>6. ASSUME NEW n \in Nodes, NEW e \in Entries, DeliverEvent(n, e)
        PROVE  RecheckAccounts'
    BY <2>6, HistoryAdd DEF DeliverEvent
  <2>7. ASSUME NEW n \in Nodes, BeginRebuild(n) \/ EndRebuild(n) \/ ScanFails(n) \/ Restart(n)
        PROVE  RecheckAccounts'
    <3> SUFFICES ASSUME NEW m \in Nodes, phase'[m] = "recheck"
                 PROVE  index'[m] \subseteq found'[m] \cup pending'[m] \cup todo'[m] \cup absent'[m]
      BY DEF RecheckAccounts
    <3>1. m # n /\ phase[m] = "recheck"
      BY <2>7 DEF HistoryInv, HistoryTypeOK, TypeOK, BeginRebuild, EndRebuild, ScanFails, Restart
    <3>2. /\ index'[m] = index[m] /\ found'[m] = found[m]
          /\ pending'[m] = pending[m] /\ todo'[m] = todo[m]
      BY <2>7, <3>1 DEF HistoryInv, HistoryTypeOK, TypeOK, BeginRebuild, EndRebuild, ScanFails, Restart
    <3>3. absent[m] \subseteq absent'[m]
      BY <3>1 DEF AbsentNext
    <3> QED
      BY <3>1, <3>2, <3>3 DEF HistoryInv, RebuildInv, RecheckAccounts
  <2>8. ASSUME NEW n \in Nodes, ScanPage(n)
        PROVE  RecheckAccounts'
    <3> SUFFICES ASSUME NEW m \in Nodes, phase'[m] = "recheck"
                 PROVE  index'[m] \subseteq found'[m] \cup pending'[m] \cup todo'[m] \cup absent'[m]
      BY DEF RecheckAccounts
    <3>1. CASE m = n
      BY <2>8, <3>1 DEF ScanPage, ToRecheck, HistoryInv, HistoryTypeOK, TypeOK
    <3>2. CASE m # n
      <4>1. /\ phase[m] = "recheck" /\ index'[m] = index[m] /\ found'[m] = found[m]
            /\ pending'[m] = pending[m] /\ todo'[m] = todo[m]
        BY <2>8, <3>2 DEF ScanPage, HistoryInv, HistoryTypeOK, TypeOK
      <4>2. absent[m] \subseteq absent'[m]
        BY <4>1 DEF AbsentNext
      <4> QED
        BY <4>1, <4>2 DEF HistoryInv, RebuildInv, RecheckAccounts
    <3> QED
      BY <3>1, <3>2
  <2>9. ASSUME NEW n \in Nodes, NEW e \in Entries, Recheck(n, e) \/ RecheckFails(n, e)
        PROVE  RecheckAccounts'
    <3> SUFFICES ASSUME NEW m \in Nodes, phase'[m] = "recheck"
                 PROVE  index'[m] \subseteq found'[m] \cup pending'[m] \cup todo'[m] \cup absent'[m]
      BY DEF RecheckAccounts
    <3>1. /\ phase[m] = "recheck" /\ index'[m] = index[m] /\ pending'[m] = pending[m]
          /\ found[m] \subseteq found'[m]
      BY <2>9 DEF Recheck, RecheckFails, HistoryInv, HistoryTypeOK, TypeOK
    <3>2. absent[m] \subseteq absent'[m] /\ Entries \ kv \subseteq absent'[m]
      BY <3>1 DEF AbsentNext
    <3>3. todo[m] \subseteq found'[m] \cup todo'[m] \cup (Entries \ kv)
      BY <2>9 DEF Recheck, RecheckFails, HistoryInv, HistoryTypeOK, TypeOK
    <3> QED
      BY <3>1, <3>2, <3>3 DEF HistoryInv, RebuildInv, RecheckAccounts
  <2>10. RecheckAccounts'
    BY <2>3, <2>4, <2>5, <2>6, <2>7, <2>8, <2>9
       DEF Next, RebuildStep, ReadFails, Keys
  <2> QED
    BY <1>1, <2>1, <2>2, <2>10, HistoryAdded DEF HistoryInv, HistoryTypeOK, RebuildInv
<1>3. CASE UNCHANGED historyVars
  BY <1>1, <1>3
     DEF historyVars, history, vars, indexVars, HistoryInv, HistoryTypeOK, RebuildInv,
         AbsentRecorded, AddedPending, RecheckAccounts, Rebuilding
<1> QED
  BY <1>2, <1>3

\* What a rebuild knows while it runs.
LEMMA HistoryInvariant == HistorySpec => []HistoryInv
<1>1. HistoryInit => HistoryInv
  BY InitTypeOK
     DEF HistoryInit, Init, HistoryInv, HistoryTypeOK, RebuildInv, AbsentRecorded,
         AddedPending, RecheckAccounts, Rebuilding
<1> QED
  BY <1>1, HistoryNextInv, PTL DEF HistorySpec

\* The index keeps its types with the history variable beside it.
THEOREM HistoryTypeCorrect == HistorySpec => []HistoryTypeOK
<1>1. HistoryInv => HistoryTypeOK
  BY DEF HistoryInv
<1> QED
  BY HistoryInvariant, <1>1, PTL

\* While a node rebuilds, what is missing from the store is on record, and every
\* entry of its old index is found, pending, still to be rechecked or was missing.
THEOREM RebuildAccounts == HistorySpec => []RebuildInv
<1>1. HistoryInv => RebuildInv
  BY DEF HistoryInv
<1> QED
  BY HistoryInvariant, <1>1, PTL

\* A loaded index never drops an entry whose record stayed in the store, nor one
\* added while the rebuild ran.
THEOREM LoadedIndexKeepsRecords == HistorySpec => LoadedIndexDropsOnlyAbsent
<1> DEFINE Drops(n) == ready[n] /\ ready'[n] => index[n] \ index'[n] \subseteq absent[n] \ added[n]
<1>1. ASSUME HistoryInv, [HistoryNext]_historyVars
      PROVE  [\A n \in Nodes : Drops(n)]_historyVars
  <2> SUFFICES ASSUME HistoryNext, NEW n \in Nodes, ready[n], ready'[n]
               PROVE  index[n] \ index'[n] \subseteq absent[n] \ added[n]
    BY <1>1
  <2> USE DEF HistoryInv, HistoryTypeOK, TypeOK
  <2>1. ASSUME NEW m \in Nodes, EndRebuild(m)
        PROVE  index[n] \ index'[n] \subseteq absent[n] \ added[n]
    BY <1>1, <2>1 DEF EndRebuild, Rebuilt, RebuildInv, AddedPending, RecheckAccounts
  <2>2. ASSUME NEW m \in Nodes, NEW e \in Entries, Add(m, e)
        PROVE  index[n] \subseteq index'[n]
    BY <1>1, <2>2 DEF Add
  <2>3. ASSUME NEW m \in Nodes, Restart(m)
        PROVE  index[n] \subseteq index'[n]
    BY <1>1, <2>3 DEF Restart
  <2>4. ASSUME UNCHANGED index
        PROVE  index[n] \subseteq index'[n]
    BY <2>4
  <2> QED
    BY <2>1, <2>2, <2>3, <2>4
       DEF HistoryNext, Next, RebuildStep, ReadFails, AddToIndex, StoreRecord, StoreFails,
           DeleteRecord, StoreOther, DeliverEvent, BeginRebuild, ScanPage, ScanFails, Recheck,
           RecheckFails, indexVars
<1> QED
  BY <1>1, HistoryInvariant, PTL DEF HistorySpec, LoadedIndexDropsOnlyAbsent
==============================================================================
