----------------------------- MODULE ReportsProofs -----------------------------
(***************************************************************************)
(* Proofs about Reports, for every set of handlers, channels and reporters *)
(* and every limit: mutual exclusion and no lost update, the refinement of *)
(* ReportQueue, what a queue may hold and how its reports change, types,   *)
(* and the rate limit.                                                     *)
(***************************************************************************)
EXTENDS Reports, KVPagingProofs

\* What the argument needs to know of the shape of the state.
Shape ==
    /\ reports = [c \in Channels |-> reports[c]]
    /\ lock \in [Channels -> Handlers \cup {Free}]
    /\ stage \in [Handlers -> Stages]
    /\ request = [h \in Handlers |-> request[h]]
    /\ seen = [h \in Handlers |-> seen[h]]
    /\ \A h \in Handlers : stage[h] # "idle" => request[h].channel \in Channels

Inv == Shape /\ MutexInv

LEMMA InitInv == Init => Inv
BY HandlersAssumption DEF Init, Inv, Shape, MutexInv, HolderOwns, OwnerHolds, Holding, Stages

\* A request that starts holds nothing.
LEMMA TakeInv ==
    ASSUME Inv, NEW h \in Handlers, NEW op, NEW c \in Channels, NEW u, NEW x,
           Take(h, op, c, u, x), UNCHANGED <<reports, lock>>
    PROVE  Inv'
<1>1. Shape'
  BY DEF Inv, Shape, Take, Stages
<1>2. ASSUME NEW g \in Handlers
      PROVE  HolderOwns(g)'
  BY DEF Inv, Shape, MutexInv, HolderOwns, Take, Holding
<1>3. ASSUME NEW d \in Channels
      PROVE  OwnerHolds(d)'
  <2>1. lock[d] # Free => lock[d] \in Handlers /\ lock[d] # h
    BY DEF Inv, Shape, MutexInv, OwnerHolds, Take, Holding
  <2> QED
    BY <2>1 DEF Inv, Shape, MutexInv, OwnerHolds, Take, Holding
<1> QED
  BY <1>1, <1>2, <1>3 DEF Inv, MutexInv

\* A request that takes the mutex reads the stored reports.
LEMMA LockInv ==
    ASSUME Inv, NEW h \in Handlers, Lock(h)
    PROVE  Inv'
<1>1. request[h].channel \in Channels /\ lock[request[h].channel] = Free
  BY DEF Inv, Shape, Lock, Available
<1>2. Shape'
  BY <1>1 DEF Inv, Shape, Lock, Stages
<1>3. ASSUME NEW g \in Handlers
      PROVE  HolderOwns(g)'
  <2>1. CASE g = h
    BY <1>1, <2>1 DEF Inv, Shape, HolderOwns, Lock
  <2>2. CASE g # h
    BY <1>1, <2>2, HandlersAssumption DEF Inv, Shape, MutexInv, HolderOwns, Lock, Holding
  <2> QED
    BY <2>1, <2>2
<1>4. ASSUME NEW c \in Channels
      PROVE  OwnerHolds(c)'
  <2>1. CASE c = request[h].channel
    BY <2>1 DEF Inv, Shape, OwnerHolds, Lock, Holding
  <2>2. CASE c # request[h].channel
    <3>1. lock[c] # Free => lock[c] \in Handlers /\ lock[c] # h
      BY DEF Inv, Shape, MutexInv, OwnerHolds, Lock, Holding
    <3> QED
      BY <2>2, <3>1 DEF Inv, Shape, MutexInv, OwnerHolds, Lock, Holding
  <2> QED
    BY <2>1, <2>2
<1> QED
  BY <1>2, <1>3, <1>4 DEF Inv, MutexInv

\* A holder that moves on without touching the mutex.
LEMMA StayInv ==
    ASSUME Inv, NEW h \in Handlers, Holding(h),
           NEW s \in {"stamps", "stamped"}, stage' = [stage EXCEPT ![h] = s],
           UNCHANGED <<reports, lock, request, seen>>
    PROVE  Inv'
<1>1. Shape'
  BY DEF Inv, Shape, Stages, Holding
<1>2. \A g \in Handlers : Holding(g)' <=> Holding(g)
  BY DEF Inv, Shape, Holding
<1>3. \A g \in Handlers : HolderOwns(g)'
  BY <1>2 DEF Inv, MutexInv, HolderOwns
<1>4. ASSUME NEW c \in Channels
      PROVE  OwnerHolds(c)'
  <2>1. lock[c] # Free => /\ lock[c] \in Handlers /\ Holding(lock[c])
                          /\ request[lock[c]].channel = c
    BY DEF Inv, Shape, MutexInv, OwnerHolds
  <2>2. lock'[c] = lock[c] /\ request' = request
    OBVIOUS
  <2> QED
    BY <1>2, <2>1, <2>2 DEF OwnerHolds
<1> QED
  BY <1>1, <1>3, <1>4 DEF Inv, MutexInv

\* A holder that returns gives the mutex back; the channel's reports may have
\* changed, nobody else's have.
LEMMA ReleaseInv ==
    ASSUME Inv, NEW h \in Handlers, Holding(h), Unlock(h), Return(h),
           reports' = [c \in Channels |-> reports'[c]],
           \A c \in Channels : c # request[h].channel => reports'[c] = reports[c]
    PROVE  Inv'
<1>1. request[h].channel \in Channels /\ lock[request[h].channel] = h
  BY DEF Inv, Shape, MutexInv, HolderOwns, Holding
<1>2. Shape'
  BY <1>1 DEF Inv, Shape, Unlock, Return, Stages
<1>3. ASSUME NEW g \in Handlers
      PROVE  HolderOwns(g)'
  <2> SUFFICES ASSUME Holding(g)'
               PROVE  /\ lock'[request'[g].channel] = g
                      /\ seen'[g] = reports'[request'[g].channel]
    BY DEF HolderOwns
  <2>1. g # h /\ Holding(g) /\ request'[g] = request[g] /\ seen'[g] = seen[g]
    BY DEF Inv, Shape, Return, Holding
  <2>2. /\ request[g].channel \in Channels
        /\ lock[request[g].channel] = g
        /\ seen[g] = reports[request[g].channel]
    BY <2>1 DEF Inv, Shape, MutexInv, HolderOwns, Holding
  <2> QED
    BY <1>1, <2>1, <2>2 DEF Inv, Shape, Unlock
<1>4. ASSUME NEW c \in Channels
      PROVE  OwnerHolds(c)'
  <2> SUFFICES ASSUME lock'[c] # Free
               PROVE  Holding(lock[c])' /\ request'[lock'[c]].channel = c
    BY DEF OwnerHolds
  <2>1. c # request[h].channel /\ lock'[c] = lock[c] /\ lock[c] # Free
    BY <1>1 DEF Inv, Shape, Unlock
  <2>2. lock[c] \in Handlers /\ Holding(lock[c]) /\ request[lock[c]].channel = c
    BY <2>1 DEF Inv, Shape, MutexInv, OwnerHolds
  <2>3. lock[c] # h
    BY <2>1, <2>2
  <2> QED
    BY <2>1, <2>2, <2>3 DEF Inv, Shape, Return, Holding
<1> QED
  BY <1>2, <1>3, <1>4 DEF Inv, MutexInv

\* SaveReports and the deferred unlock.
LEMMA SaveInv ==
    ASSUME Inv, NEW h \in Handlers, Holding(h), NEW rs, Save(h, rs)
    PROVE  Inv'
<1>1. Unlock(h) /\ Return(h)
  BY DEF Save, Unlock
<1>2. /\ reports' = [c \in Channels |-> reports'[c]]
      /\ \A c \in Channels : c # request[h].channel => reports'[c] = reports[c]
  BY DEF Save, Inv, Shape
<1> QED
  BY <1>1, <1>2, ReleaseInv

LEMMA CutOffInv ==
    ASSUME Inv, NEW h \in Handlers, CutOff(h)
    PROVE  Inv'
<1>1. CASE Holding(h)
  BY <1>1, ReleaseInv DEF CutOff, Inv, Shape
<1>2. CASE ~Holding(h)
  <2>1. Shape'
    BY <1>2 DEF CutOff, Return, Inv, Shape, Stages
  <2>2. ASSUME NEW g \in Handlers
        PROVE  HolderOwns(g)'
    BY <1>2 DEF CutOff, Return, Inv, Shape, MutexInv, HolderOwns, Holding
  <2>3. ASSUME NEW c \in Channels
        PROVE  OwnerHolds(c)'
    <3>1. lock[c] # Free => lock[c] \in Handlers /\ lock[c] # h
      BY <1>2 DEF Inv, Shape, MutexInv, OwnerHolds
    <3> QED
      BY <1>2, <3>1 DEF CutOff, Return, Inv, Shape, MutexInv, OwnerHolds, Holding
  <2> QED
    BY <2>1, <2>2, <2>3 DEF Inv, MutexInv
<1> QED
  BY <1>1, <1>2

LEMMA NextInv == Inv /\ [Next]_vars => Inv'
<1> SUFFICES ASSUME Inv, [Next]_vars PROVE Inv'
  OBVIOUS
<1>1. ASSUME NEW h \in Handlers, Start(h)
      PROVE  Inv'
  BY <1>1, TakeInv DEF Start, StartCreate, StartEdit, DeletePost
<1>2. ASSUME NEW h \in Handlers, Lock(h)
      PROVE  Inv'
  BY <1>2, LockInv
<1>3. ASSUME NEW h \in Handlers, Proceed(h)
      PROVE  Inv'
  <2>1. Holding(h)
    BY <1>3 DEF Proceed, CreateUnlimited, ReadStamps, SaveStamps, CreateStamped, SaveEdited,
                Refuse, Holding
  <2>2. CASE CreateUnlimited(h) \/ CreateStamped(h) \/ SaveEdited(h)
    BY <2>1, <2>2, SaveInv DEF CreateUnlimited, CreateStamped, SaveEdited, SaveNew
  <2>3. CASE ReadStamps(h) \/ SaveStamps(h)
    BY <2>1, <2>3, StayInv DEF ReadStamps, SaveStamps
  <2>4. CASE Refuse(h)
    BY <2>1, <2>4, ReleaseInv DEF Refuse, Inv, Shape
  <2> QED
    BY <1>3, <2>2, <2>3, <2>4 DEF Proceed
<1>4. ASSUME NEW h \in Handlers, CutOff(h)
      PROVE  Inv'
  BY <1>4, CutOffInv
<1>5. CASE Tick \/ UNCHANGED vars
  BY <1>5 DEF Tick, vars, local, Inv, Shape, MutexInv, HolderOwns, OwnerHolds, Holding
<1> QED
  BY <1>1, <1>2, <1>3, <1>4, <1>5 DEF Next

\* At most one request per channel is past the wait, and what it read is still
\* what is stored when it writes: no report change is ever lost.
THEOREM NoLostUpdate == Spec => []MutexInv
<1>1. Inv => MutexInv
  BY DEF Inv
<1> QED
  BY InitInv, NextInv, <1>1, PTL DEF Spec

------------------------------------------------------------------------------
(* Reports implements ReportQueue.                                         *)

ReportRequests == [op : {"create"}, channel : Channels, by : Reporters, arg : Subjects]
EditRequests ==
    [op : {"dismiss", "resolveOne"}, channel : Channels, by : {NoRequest}, arg : Ids]
    \cup [op : {"resolveUser", "escalate"}, channel : Channels, by : {NoRequest}, arg : Targets]
    \cup [op : {"resolvePost"}, channel : Channels, by : {NoRequest}, arg : Posts]

\* A report being filed is about somebody else and belongs in the channel; past
\* the duplicate check, it is no duplicate of what was read.
Fileable(q) == q.by # Target[q.arg] /\ q.channel \in ChannelsOf[q.arg]
Checked(h) ==
    /\ request[h].op = "create"
    /\ ~Duplicate(h)
    /\ recent[h].stamp \in 0..MaxTime

\* Strengthens Inv by what the requests carry.
RequestsInv ==
    /\ now \in 0..MaxTime
    /\ recent = [h \in Handlers |-> recent[h]]
    /\ \A h \in Handlers :
         /\ stage[h] # "idle" => /\ request[h] \in ReportRequests \cup EditRequests
                                 /\ request[h].op = "create" => Fileable(request[h])
         /\ stage[h] \in {"stamps", "stamped"} => Checked(h)

LEMMA RequestsInit == Init => RequestsInv
BY StoreAssumption DEF Init, RequestsInv

\* A request that starts carries what its handler was asked.
LEMMA TakeRequests ==
    ASSUME Inv, RequestsInv, NEW h \in Handlers, Start(h)
    PROVE  RequestsInv'
<1> DEFINE Asked(q) == /\ request' = [request EXCEPT ![h] = q]
                       /\ q.op = "create" => Fileable(q)
<1>1. \E q \in ReportRequests \cup EditRequests : Asked(q)
  <2>1. ASSUME NEW c \in Channels, NEW u \in Reporters, NEW s \in Subjects, StartCreate(h, c, u, s)
        PROVE  \E q \in ReportRequests : Asked(q)
    <3> DEFINE q == [op |-> "create", channel |-> c, by |-> u, arg |-> s]
    <3>1. q \in ReportRequests /\ Asked(q)
      BY <2>1 DEF StartCreate, Take, ReportRequests, Fileable
    <3> QED
      BY <3>1
  <2>2. ASSUME NEW c \in Channels, NEW x, NEW op, Take(h, op, c, NoRequest, x), op # "create",
               [op |-> op, channel |-> c, by |-> NoRequest, arg |-> x] \in EditRequests
        PROVE  \E q \in EditRequests : Asked(q)
    <3> DEFINE q == [op |-> op, channel |-> c, by |-> NoRequest, arg |-> x]
    <3>1. q.op # "create" /\ request' = [request EXCEPT ![h] = q]
      BY <2>2 DEF Take
    <3> QED
      BY <2>2, <3>1
  <2>3. ASSUME NEW c \in Channels, NEW id \in Ids, NEW op \in {"dismiss", "resolveOne"},
               StartEdit(h, c, op, id)
        PROVE  \E q \in EditRequests : Asked(q)
    <3>1. [op |-> op, channel |-> c, by |-> NoRequest, arg |-> id] \in EditRequests
      BY DEF EditRequests
    <3> QED
      BY <2>2, <2>3, <3>1 DEF StartEdit
  <2>4. ASSUME NEW c \in Channels, NEW t \in Targets, NEW op \in {"resolveUser", "escalate"},
               StartEdit(h, c, op, t)
        PROVE  \E q \in EditRequests : Asked(q)
    <3>1. [op |-> op, channel |-> c, by |-> NoRequest, arg |-> t] \in EditRequests
      BY DEF EditRequests
    <3> QED
      BY <2>2, <2>4, <3>1 DEF StartEdit
  <2>5. ASSUME NEW c \in Channels, NEW s \in Posts, DeletePost(h, c, s)
        PROVE  \E q \in EditRequests : Asked(q)
    <3>1. [op |-> "resolvePost", channel |-> c, by |-> NoRequest, arg |-> s] \in EditRequests
      BY DEF EditRequests
    <3> QED
      BY <2>2, <2>5, <3>1 DEF DeletePost
  <2> HIDE DEF Asked
  <2>6. (\E q \in ReportRequests : Asked(q)) \/ (\E q \in EditRequests : Asked(q))
    BY <2>1, <2>3, <2>4, <2>5 DEF Start
  <2> QED
    BY <2>6
<1>2. PICK q \in ReportRequests \cup EditRequests : Asked(q)
  BY <1>1
<1>3. stage' = [stage EXCEPT ![h] = "wait"] /\ UNCHANGED <<seen, recent, now>>
  BY DEF Start, StartCreate, StartEdit, DeletePost, Take
<1>4. \A g \in Handlers \ {h} : request'[g] = request[g] /\ stage'[g] = stage[g]
  BY <1>2, <1>3 DEF Inv, Shape
<1>5. request'[h] = q /\ stage'[h] = "wait"
  BY <1>2, <1>3 DEF Inv, Shape
<1>6. now' \in 0..MaxTime /\ recent' = [g \in Handlers |-> recent'[g]]
  BY <1>3 DEF RequestsInv
<1>7. ASSUME NEW g \in Handlers
      PROVE  /\ stage'[g] # "idle" => /\ request'[g] \in ReportRequests \cup EditRequests
                                      /\ request'[g].op = "create" => Fileable(request'[g])
             /\ stage'[g] \in {"stamps", "stamped"} => Checked(g)'
  <2>1. CASE g = h
    BY <1>2, <1>5, <2>1
  <2>2. CASE g # h
    BY <1>3, <1>4, <2>2 DEF RequestsInv, Checked, Duplicate
  <2> QED
    BY <2>1, <2>2
<1> QED
  BY <1>6, <1>7 DEF RequestsInv, Fileable

\* Every other step of a handler keeps its request or drops it.
LEMMA StepRequests ==
    ASSUME Inv, RequestsInv, NEW h \in Handlers, Lock(h) \/ Proceed(h) \/ CutOff(h)
    PROVE  RequestsInv'
<1>1. UNCHANGED now
  BY DEF Lock, Proceed, CutOff, CreateUnlimited, ReadStamps, SaveStamps, CreateStamped, SaveEdited,
         Refuse, SaveNew
<1>2. ASSUME NEW g \in Handlers \ {h}
      PROVE  /\ stage'[g] = stage[g] /\ request'[g] = request[g]
             /\ seen'[g] = seen[g] /\ recent'[g] = recent[g]
  BY DEF Inv, Shape, RequestsInv, Lock, Proceed, CutOff, CreateUnlimited, ReadStamps, SaveStamps,
         CreateStamped, SaveEdited, Refuse, SaveNew, Save, Return
<1>3. recent' = [g \in Handlers |-> recent'[g]]
  BY DEF RequestsInv, Lock, Proceed, CutOff, CreateUnlimited, ReadStamps, SaveStamps,
         CreateStamped, SaveEdited, Refuse, SaveNew, Save, Return
<1>4. CASE stage'[h] = "idle"
  BY <1>1, <1>2, <1>3, <1>4 DEF RequestsInv, Checked, Duplicate, Fileable
<1>5. CASE Lock(h)
  <2>1. stage'[h] = "reports" /\ stage[h] # "idle" /\ request'[h] = request[h]
    BY <1>5 DEF Lock, Inv, Shape
  <2> QED
    BY <1>1, <1>2, <1>3, <2>1 DEF RequestsInv, Checked, Duplicate, Fileable
<1>6. CASE ReadStamps(h)
  <2>1. /\ stage'[h] = "stamps" /\ stage[h] = "reports" /\ UNCHANGED <<request, seen>>
        /\ request[h].op = "create" /\ ~Duplicate(h) /\ recent'[h].stamp = now
    BY <1>6 DEF ReadStamps, Inv, Shape, RequestsInv
  <2>2. Checked(h)'
    BY <1>1, <2>1 DEF Checked, Duplicate, RequestsInv
  <2> QED
    BY <1>1, <1>2, <1>3, <2>1, <2>2 DEF RequestsInv, Checked, Duplicate, Fileable
<1>7. CASE SaveStamps(h)
  <2>1. /\ stage'[h] = "stamped" /\ stage[h] = "stamps" /\ UNCHANGED <<request, seen, recent>>
    BY <1>7 DEF SaveStamps, Inv, Shape
  <2> QED
    BY <1>1, <1>2, <1>3, <2>1 DEF RequestsInv, Checked, Duplicate, Fileable
<1> QED
  BY <1>4, <1>5, <1>6, <1>7
     DEF Proceed, CreateUnlimited, CreateStamped, SaveEdited, Refuse, CutOff, SaveNew, Save, Return,
         Inv, Shape

LEMMA RequestsStep == Inv /\ RequestsInv /\ [Next]_vars => RequestsInv'
<1> SUFFICES ASSUME Inv, RequestsInv, [Next]_vars PROVE RequestsInv'
  OBVIOUS
<1>1. CASE Tick
  BY <1>1, StoreAssumption
     DEF Tick, local, RequestsInv, Checked, Duplicate, Fileable
<1>2. CASE UNCHANGED vars
  BY <1>2 DEF vars, local, RequestsInv, Checked, Duplicate, Fileable
<1> QED
  BY <1>1, <1>2, TakeRequests, StepRequests DEF Next

\* The operations of ReportQueue are those of Reports, under other names.
LEMMA SameRequests == Queue!Ids = Ids /\ Queue!Targets = Targets
BY DEF Queue!Ids, Ids, Queue!Targets, Targets

LEMMA SameEdit == ASSUME NEW q, NEW r PROVE Queue!Edited(q, r) = Edited(q, r)
BY DEF Queue!Edited, Edited, Queue!Matches, Matches

LEMMA SameDuplicate ==
    ASSUME NEW rs, NEW u, NEW s
    PROVE  Queue!hasDuplicateReport(rs, u, s) <=> hasDuplicateReport(rs, u, s)
BY DEF Queue!hasDuplicateReport, hasDuplicateReport, Queue!Unresolved, Unresolved

LEMMA SameSize == ASSUME NEW S PROVE Queue!Cardinality(S) = Cardinality(S)
BY DEF Queue!Cardinality, Cardinality

LEMMA SameAtPositions ==
    ASSUME NEW list, NEW S
    PROVE  Queue!AtPositions(list, S) = AtPositions(list, S)
<1>1. \A k : Queue!Nth(S, k) = Nth(S, k)
  BY DEF Queue!Nth, Nth, Queue!Cardinality, Cardinality
<1> QED
  BY <1>1, SameSize DEF Queue!AtPositions, AtPositions

LEMMA SameCap == ASSUME NEW rs PROVE Queue!capReports(rs) = capReports(rs)
<1>1. Queue!Resolved(rs) = Resolved(rs)
  BY DEF Queue!Resolved, Resolved, Queue!Unresolved, Unresolved
<1>2. \A i : Queue!DropOrder(rs, i) = DropOrder(rs, i)
  BY <1>1, SameSize DEF Queue!DropOrder, DropOrder
<1>3. {i \in DOMAIN rs : Queue!DropOrder(rs, i) + MaxStored >= Len(rs)} =
        {i \in DOMAIN rs : DropOrder(rs, i) + MaxStored >= Len(rs)}
  BY <1>2
<1> QED
  BY <1>3, SameAtPositions DEF Queue!capReports, capReports

\* A handler that saves an edited queue makes one change of what is stored.
LEMMA SaveChanges ==
    ASSUME Inv, RequestsInv, NEW h \in Handlers, SaveEdited(h)
    PROVE  Queue!Next
<1> DEFINE q == request[h]
<1>1. stage[h] = "reports" /\ q \in EditRequests /\ q.channel \in Channels
  BY DEF SaveEdited, RequestsInv, ReportRequests, EditRequests
<1>2. seen[h] = reports[q.channel]
  BY <1>1 DEF Inv, MutexInv, HolderOwns, Holding
<1>3. /\ reports' = [reports EXCEPT ![q.channel] =
                      [i \in DOMAIN seen[h] |-> Edited(q, seen[h][i])]]
      /\ UNCHANGED nextId
  BY DEF SaveEdited, Save
<1>4. \A r : Edited(q, r) = Edited([op |-> q.op, arg |-> q.arg], r)
  BY DEF Edited, Matches
<1>5. Queue!Change(q.channel, q.op, q.arg)
  BY <1>2, <1>3, <1>4, SameEdit DEF Queue!Change
<1> QED
  BY <1>1, <1>5, SameRequests DEF EditRequests, Queue!Next

\* A handler that saves a new report files it.
LEMMA SaveFiles ==
    ASSUME Inv, RequestsInv, NEW h \in Handlers, CreateUnlimited(h) \/ CreateStamped(h)
    PROVE  Queue!Next
<1> DEFINE q == request[h]
<1>1. /\ stage[h] \in {"reports", "stamped"} /\ q.op = "create" /\ ~Duplicate(h)
      /\ \E stamp \in 0..MaxTime : SaveNew(h, stamp)
  BY StoreAssumption DEF CreateUnlimited, CreateStamped, RequestsInv, Checked
<1>2. q \in ReportRequests /\ Fileable(q)
  BY <1>1 DEF RequestsInv, ReportRequests, EditRequests
<1>3. seen[h] = reports[q.channel]
  BY <1>1 DEF Inv, MutexInv, HolderOwns, Holding
<1>4. PICK stamp \in 0..MaxTime : SaveNew(h, stamp)
  BY <1>1
<1>5. /\ reports' = [reports EXCEPT ![q.channel] =
                      capReports(<<Queue!New(q.by, q.arg, stamp)>> \o reports[q.channel])]
      /\ nextId' = nextId + 1
  BY <1>3, <1>4 DEF SaveNew, Save, NewReport, Queue!New
<1>6. Queue!File(q.channel, q.by, q.arg)
  BY <1>1, <1>2, <1>3, <1>5, SameCap, SameDuplicate DEF Queue!File, Fileable, Duplicate
<1> QED
  BY <1>2, <1>6 DEF ReportRequests, Queue!Next

\* For any handlers, channels, members, limits and clocks: whatever requests
\* interleave, fail and are cut off, the stored queues change as if each report
\* were filed and each edit made in one step; nothing is half done or lost.
THEOREM QueueImplemented == Spec => ChangesAtOnce
<1>1. Init => Queue!Init
  BY DEF Init, Queue!Init
<1>2. Inv /\ RequestsInv /\ [Next]_vars => [Queue!Next]_Queue!queueVars
  <2> SUFFICES ASSUME Inv, RequestsInv, [Next]_vars
               PROVE  Queue!Next \/ UNCHANGED <<reports, nextId>>
    BY DEF Queue!queueVars
  <2> QED
    BY SaveChanges, SaveFiles
       DEF Next, Start, StartCreate, StartEdit, DeletePost, Lock, Proceed, CutOff, ReadStamps,
           SaveStamps, Refuse, Tick, vars
<1> QED
  BY <1>1, <1>2, InitInv, NextInv, RequestsInit, RequestsStep, PTL
     DEF Spec, ChangesAtOnce, Queue!Spec
------------------------------------------------------------------------------
(* What AtPositions and capReports return.                                 *)

LEMMA NthFacts ==
    ASSUME NEW S \in SUBSET Nat, IsFiniteSet(S)
    PROVE  /\ Cardinality(S) \in Nat
           /\ \A k \in 1..Cardinality(S) : Nth(S, k) \in S
           /\ \A k, l \in 1..Cardinality(S) : k < l => Nth(S, k) < Nth(S, l)
           /\ \A i \in S : \E k \in 1..Cardinality(S) : Nth(S, k) = i
<1> DEFINE pos == [i \in S |-> i]
           Below(i) == Cardinality({j \in S : j < i})
<1>1. Orders(pos, S) /\ Cardinality(S) \in Nat
  BY FS_CardinalityType DEF Orders
<1>2. \A i \in S : Below(i) = Rank(S, pos, i)
  <2> TAKE i \in S
  <2>1. {j \in S : pos[j] < pos[i]} = {j \in S : j < i}
    OBVIOUS
  <2> QED
    BY <2>1 DEF Rank
<1> HIDE DEF pos
<1>3. ASSUME NEW k \in 1..Cardinality(S)
      PROVE  Nth(S, k) \in S /\ Below(Nth(S, k)) = k - 1
  <2>1. k - 1 \in Nat /\ k - 1 < Cardinality(S)
    BY <1>1
  <2>2. PICK i \in S : Rank(S, pos, i) = k - 1
    BY <1>1, <2>1, RankOnto
  <2>3. Below(i) = k - 1
    BY <1>2, <2>2
  <2> QED
    BY <2>3 DEF Nth
<1>4. ASSUME NEW i \in S, NEW j \in S, Below(i) < Below(j)
      PROVE  i < j
  <2>1. ~(pos[j] < pos[i]) /\ i # j
    BY <1>1, <1>2, <1>4, RankGrows, RankType
  <2> QED
    BY <2>1 DEF pos
<1>5. ASSUME NEW i \in S
      PROVE  \E k \in 1..Cardinality(S) : Nth(S, k) = i
  <2>1. Below(i) \in Nat /\ Below(i) < Cardinality(S)
    BY <1>1, <1>2, RankBound, RankType
  <2>2. Below(i) + 1 \in 1..Cardinality(S)
    BY <1>1, <2>1
  <2>3. Nth(S, Below(i) + 1) \in S /\ Below(Nth(S, Below(i) + 1)) = Below(i)
    BY <1>3, <2>1, <2>2
  <2>4. PICK j \in S : Nth(S, Below(i) + 1) = j /\ Rank(S, pos, j) = Rank(S, pos, i)
    BY <1>2, <2>3
  <2>5. j = i
    BY <1>1, <2>4, RankInjective
  <2> QED
    BY <2>2, <2>4, <2>5
<1>6. ASSUME NEW k \in 1..Cardinality(S), NEW l \in 1..Cardinality(S), k < l
      PROVE  Nth(S, k) < Nth(S, l)
  <2>1. Below(Nth(S, k)) < Below(Nth(S, l))
    BY <1>1, <1>3, <1>6
  <2> QED
    BY <1>3, <1>4, <2>1
<1> QED
  BY <1>1, <1>3, <1>5, <1>6

\* The positions of a list make a finite set of numbers, and so do some of them.
LEMMA Positions ==
    ASSUME NEW T, NEW list \in Seq(T), NEW S \in SUBSET (DOMAIN list)
    PROVE  S \in SUBSET Nat /\ IsFiniteSet(S) /\ Cardinality(S) <= Len(list)
<1>1. DOMAIN list = 1..Len(list) /\ Len(list) \in Nat
  OBVIOUS
<1> DEFINE n == Len(list)
<1> HIDE DEF n
<1>2. IsFiniteSet(1..n) /\ Cardinality(1..n) = n
  <2>1. n \in Int /\ n >= 0
    BY <1>1 DEF n
  <2> QED
    BY <2>1, FS_Interval
<1>3. S \in SUBSET (1..n)
  BY <1>1 DEF n
<1>4. IsFiniteSet(S) /\ Cardinality(S) <= n
  BY <1>2, <1>3, FS_Subset
<1>5. S \in SUBSET Nat
  BY <1>3
<1> QED
  BY <1>4, <1>5 DEF n

LEMMA SeqDomain ==
    ASSUME NEW T, NEW list \in Seq(T)
    PROVE  DOMAIN list = 1..Len(list) /\ Len(list) \in Nat
OBVIOUS

LEMMA SeqAt ==
    ASSUME NEW T, NEW list \in Seq(T), NEW i \in DOMAIN list
    PROVE  list[i] \in T
OBVIOUS

LEMMA AtPositionsType ==
    ASSUME NEW T, NEW list \in Seq(T), NEW S \in SUBSET (DOMAIN list)
    PROVE  /\ AtPositions(list, S) \in Seq(T)
           /\ Len(AtPositions(list, S)) = Cardinality(S)
           /\ \A k \in 1..Cardinality(S) : AtPositions(list, S)[k] = list[Nth(S, k)]
<1>1. /\ Cardinality(S) \in Nat
      /\ \A k \in 1..Cardinality(S) : Nth(S, k) \in DOMAIN list
  BY Positions, NthFacts
<1>2. \A i \in DOMAIN list : list[i] \in T
  OBVIOUS
<1>3. \A k \in 1..Cardinality(S) : list[Nth(S, k)] \in T
  BY <1>1, <1>2
<1>4. AtPositions(list, S) = [k \in 1..Cardinality(S) |-> list[Nth(S, k)]]
  BY DEF AtPositions
<1> QED
  BY <1>1, <1>3, <1>4

\* What capReports keeps, and what it drops of a queue that is one report too long:
\* at most one report, the oldest resolved one, or if there is none the oldest.
Kept(rs) == {i \in DOMAIN rs : DropOrder(rs, i) + MaxStored >= Len(rs)}

LEMMA DropOrderFacts ==
    ASSUME NEW rs \in Seq(Report), NEW i \in DOMAIN rs
    PROVE  /\ DropOrder(rs, i) \in Nat
           /\ DropOrder(rs, i) = 0 /\ Unresolved(rs[i]) =>
                /\ \A j \in DOMAIN rs : Unresolved(rs[j])
                /\ i = Len(rs)
           /\ DropOrder(rs, i) = 0 /\ ~Unresolved(rs[i]) =>
                \A j \in DOMAIN rs : j > i => Unresolved(rs[j])
<1> DEFINE R == Resolved(rs)
           Older == {j \in R : j > i}
           OlderOthers == {j \in DOMAIN rs \ R : j > i}
<1>1. /\ R \in SUBSET (DOMAIN rs) /\ Older \in SUBSET (DOMAIN rs)
      /\ OlderOthers \in SUBSET (DOMAIN rs)
  BY DEF Resolved
<1>2. IsFiniteSet(R) /\ IsFiniteSet(Older) /\ IsFiniteSet(OlderOthers)
  BY <1>1, Positions
<1>3. Cardinality(R) \in Nat /\ Cardinality(Older) \in Nat /\ Cardinality(OlderOthers) \in Nat
  BY <1>2, FS_CardinalityType
<1>4. DropOrder(rs, i) = IF i \in R THEN Cardinality(Older)
                                    ELSE Cardinality(R) + Cardinality(OlderOthers)
  BY DEF DropOrder
<1>5. ASSUME DropOrder(rs, i) = 0, Unresolved(rs[i])
      PROVE  /\ \A j \in DOMAIN rs : Unresolved(rs[j])
             /\ i = Len(rs)
  <2>1. i \notin R
    BY <1>5 DEF Resolved
  <2>2. Cardinality(R) = 0 /\ Cardinality(OlderOthers) = 0
    BY <1>3, <1>4, <1>5, <2>1
  <2>3. R = {} /\ OlderOthers = {}
    BY <1>2, <2>2, FS_EmptySet
  <2>4. \A j \in DOMAIN rs : ~(j > i)
    BY <2>3
  <2>5. DOMAIN rs = 1..Len(rs) /\ Len(rs) \in Nat /\ i \in Nat
    OBVIOUS
  <2> QED
    BY <2>3, <2>4, <2>5 DEF Resolved
<1>6. ASSUME DropOrder(rs, i) = 0, ~Unresolved(rs[i])
      PROVE  \A j \in DOMAIN rs : j > i => Unresolved(rs[j])
  <2>1. i \in R
    BY <1>6 DEF Resolved
  <2>2. Older = {}
    BY <1>2, <1>3, <1>4, <1>6, <2>1, FS_EmptySet
  <2> QED
    BY <2>2 DEF Resolved
<1> QED
  BY <1>3, <1>4, <1>5, <1>6

LEMMA CapKeeps ==
    ASSUME NEW rs \in Seq(Report), Len(rs) <= MaxStored + 1
    PROVE  /\ capReports(rs) \in Seq(Report)
           /\ Len(capReports(rs)) = Cardinality(Kept(rs))
           /\ Len(capReports(rs)) <= MaxStored
           /\ \A k \in DOMAIN capReports(rs) : /\ Nth(Kept(rs), k) \in Kept(rs)
                                               /\ capReports(rs)[k] = rs[Nth(Kept(rs), k)]
           /\ \A k, l \in DOMAIN capReports(rs) : k < l => Nth(Kept(rs), k) < Nth(Kept(rs), l)
           /\ \A i \in Kept(rs) : \E k \in DOMAIN capReports(rs) : capReports(rs)[k] = rs[i]
<1>1. Kept(rs) \in SUBSET (DOMAIN rs) /\ capReports(rs) = AtPositions(rs, Kept(rs))
  BY DEF Kept, capReports
<1>2. /\ Kept(rs) \in SUBSET Nat /\ IsFiniteSet(Kept(rs))
      /\ Cardinality(Kept(rs)) <= Len(rs) /\ Cardinality(Kept(rs)) \in Nat
  BY <1>1, Positions, NthFacts
<1>3. /\ capReports(rs) \in Seq(Report)
      /\ Len(capReports(rs)) = Cardinality(Kept(rs))
      /\ DOMAIN capReports(rs) = 1..Cardinality(Kept(rs))
      /\ \A k \in 1..Cardinality(Kept(rs)) : capReports(rs)[k] = rs[Nth(Kept(rs), k)]
  BY <1>1, AtPositionsType
<1>4. Cardinality(Kept(rs)) <= MaxStored
  <2> SUFFICES ASSUME Len(rs) = MaxStored + 1, Cardinality(Kept(rs)) = Len(rs)
               PROVE  FALSE
    BY <1>2, StoreAssumption
  <2>1. DOMAIN rs = 1..Len(rs) /\ Len(rs) \in Nat /\ Len(rs) \in DOMAIN rs
    BY StoreAssumption
  <2>2. Kept(rs) = DOMAIN rs
    <3>1. IsFiniteSet(DOMAIN rs) /\ Cardinality(DOMAIN rs) = Len(rs)
      BY <2>1, FS_Interval
    <3> QED
      BY <1>1, <3>1, FS_Subset
  <2>3. \A i \in DOMAIN rs : DropOrder(rs, i) # 0
    BY <2>2, StoreAssumption DEF Kept
  <2> DEFINE R == Resolved(rs)
  <2>4. R \in SUBSET (DOMAIN rs) /\ R \in SUBSET Nat /\ IsFiniteSet(R)
    BY Positions DEF Resolved
  <2>5. CASE R = {}
    <3> DEFINE Older == {j \in DOMAIN rs \ R : j > Len(rs)}
    <3>1. Older = {}
      BY <2>1
    <3>2. DropOrder(rs, Len(rs)) = Cardinality(R) + Cardinality(Older)
      BY <2>5 DEF DropOrder
    <3> HIDE DEF R, Older
    <3>3. Cardinality({}) = 0
      BY FS_EmptySet
    <3>4. DropOrder(rs, Len(rs)) = 0
      BY <2>5, <3>1, <3>2, <3>3
    <3> QED
      BY <2>1, <2>3, <3>4
  <2>6. CASE R # {}
    <3>1. Cardinality(R) \in Nat /\ Cardinality(R) # 0
      BY <2>4, <2>6, FS_EmptySet, FS_CardinalityType
    <3> DEFINE n == Cardinality(R)
               oldest == Nth(R, n)
    <3>2. n \in 1..n /\ oldest \in R
      BY <2>4, <3>1, NthFacts
    <3>3. \A j \in R : ~(j > oldest)
      <4> TAKE j \in R
      <4>1. PICK k \in 1..n : Nth(R, k) = j
        BY <2>4, NthFacts
      <4>2. k < n \/ k = n
        BY <3>1
      <4> QED
        BY <2>4, <3>1, <3>2, <4>1, <4>2, NthFacts
    <3>4. {j \in R : j > oldest} = {}
      BY <3>3
    <3>5. DropOrder(rs, oldest) = 0
      BY <3>2, <3>4, FS_EmptySet DEF DropOrder
    <3> QED
      BY <2>3, <2>4, <3>2, <3>5
  <2> QED
    BY <2>5, <2>6
<1> QED
  BY <1>1, <1>2, <1>3, <1>4, NthFacts

------------------------------------------------------------------------------
(* What a queue keeps through edits, additions and the cap.                *)

\* Newest first.
Sorted(rs) == \A i, j \in DOMAIN rs : i < j => rs[j].id < rs[i].id

NoDuplicates(rs) ==
    \A i, j \in DOMAIN rs :
        /\ i # j
        /\ Unresolved(rs[i]) /\ Unresolved(rs[j])
        /\ rs[i].by = rs[j].by
        => rs[i].about # rs[j].about

\* A queue of reports filed before report n.
Proper(rs, n) ==
    /\ rs \in Seq(Report)
    /\ \A i \in DOMAIN rs : rs[i].id < n
    /\ Sorted(rs)
    /\ NoDuplicates(rs)

\* An edit changes nothing but the status, and moves it forward.
LEMMA EditedFacts ==
    ASSUME NEW q, NEW r \in Report
    PROVE  /\ Edited(q, r) \in Report
           /\ Edited(q, r).id = r.id /\ Edited(q, r).by = r.by
           /\ Edited(q, r).about = r.about /\ Edited(q, r).stamp = r.stamp
           /\ SameContent(r, Edited(q, r))
           /\ Progress[Edited(q, r).status] >= Progress[r.status]
           /\ Unresolved(Edited(q, r)) => Unresolved(r)
<1>1. \/ Edited(q, r) = r
      \/ Edited(q, r) = [r EXCEPT !.status = "resolved"]
      \/ r.status = "open" /\ Edited(q, r) = [r EXCEPT !.status = "escalated"]
  BY DEF Edited
<1>2. /\ r.id \in Ids /\ r.by \in Reporters /\ r.about \in Subjects
      /\ r.status \in Statuses /\ r.stamp \in 0..MaxTime
  BY DEF Report
<1>3. CASE Edited(q, r) = r
  BY <1>2, <1>3 DEF Progress, Statuses, SameContent, Report
<1>4. CASE Edited(q, r) = [r EXCEPT !.status = "resolved"]
  BY <1>2, <1>4 DEF Progress, Statuses, Report, Unresolved, SameContent
<1>5. CASE r.status = "open" /\ Edited(q, r) = [r EXCEPT !.status = "escalated"]
  BY <1>2, <1>5 DEF Progress, Statuses, Report, Unresolved, SameContent
<1> QED
  BY <1>1, <1>3, <1>4, <1>5

LEMMA ReportAt ==
    ASSUME NEW rs \in Seq(Report), NEW i \in DOMAIN rs
    PROVE  rs[i] \in Report /\ rs[i].id \in Nat /\ rs[i].stamp \in 0..MaxTime
<1>1. rs[i] \in Report
  OBVIOUS
<1> QED
  BY <1>1, StoreAssumption DEF Report, Ids

EditAll(q, rs) == [i \in DOMAIN rs |-> Edited(q, rs[i])]

LEMMA EditProper ==
    ASSUME NEW q, NEW n \in Nat, NEW rs, Proper(rs, n)
    PROVE  /\ Proper(EditAll(q, rs), n)
           /\ Len(EditAll(q, rs)) = Len(rs) /\ DOMAIN EditAll(q, rs) = DOMAIN rs
           /\ \A i \in DOMAIN rs :
                /\ SameContent(rs[i], EditAll(q, rs)[i])
                /\ Progress[EditAll(q, rs)[i].status] >= Progress[rs[i].status]
<1> DEFINE edited == EditAll(q, rs)
<1>1. /\ rs \in Seq(Report) /\ DOMAIN edited = DOMAIN rs
      /\ edited = [i \in DOMAIN rs |-> edited[i]]
      /\ \A i \in DOMAIN rs : rs[i] \in Report /\ edited[i] = Edited(q, rs[i])
  BY DEF Proper, EditAll
<1> HIDE DEF edited
<1>2. \A i \in DOMAIN rs : /\ edited[i] \in Report
                           /\ edited[i].id = rs[i].id /\ edited[i].by = rs[i].by
                           /\ edited[i].about = rs[i].about
                           /\ SameContent(rs[i], edited[i])
                           /\ Progress[edited[i].status] >= Progress[rs[i].status]
                           /\ Unresolved(edited[i]) => Unresolved(rs[i])
  BY <1>1, EditedFacts
<1>3. edited \in Seq(Report) /\ Len(edited) = Len(rs)
  <2>1. DOMAIN rs = 1..Len(rs) /\ Len(rs) \in Nat
    BY <1>1
  <2>2. edited = [i \in 1..Len(rs) |-> edited[i]]
    BY <1>1, <2>1
  <2> QED
    BY <1>1, <1>2, <2>1, <2>2
<1>4. Sorted(edited) /\ NoDuplicates(edited) /\ \A i \in DOMAIN edited : edited[i].id < n
  <2>1. Sorted(rs) /\ NoDuplicates(rs) /\ \A i \in DOMAIN rs : rs[i].id < n
    BY DEF Proper
  <2>2. Sorted(edited) /\ \A i \in DOMAIN edited : edited[i].id < n
    BY <1>1, <1>2, <2>1 DEF Sorted
  <2>3. NoDuplicates(edited)
    BY <1>1, <1>2, <2>1 DEF NoDuplicates
  <2> QED
    BY <2>2, <2>3
<1> QED
  BY <1>1, <1>2, <1>3, <1>4 DEF Proper, edited

\* A new report in front of the queue, before the cap.
LEMMA PutInFront ==
    ASSUME NEW n \in Nat, NEW rs, Proper(rs, n), NEW new \in Report, new.id = n,
           ~hasDuplicateReport(rs, new.by, new.about)
    PROVE  /\ Proper(<<new>> \o rs, n + 1)
           /\ Len(<<new>> \o rs) = Len(rs) + 1
           /\ \A i \in DOMAIN rs : i + 1 \in DOMAIN (<<new>> \o rs)
                                   /\ (<<new>> \o rs)[i + 1] = rs[i]
<1> DEFINE full == <<new>> \o rs
<1>1. rs \in Seq(Report) /\ DOMAIN rs = 1..Len(rs) /\ Len(rs) \in Nat
  BY DEF Proper
<1>2. full \in Seq(Report) /\ Len(full) = Len(rs) + 1 /\ full[1] = new
  BY <1>1
<1>3. DOMAIN full = 1..(Len(rs) + 1)
  BY <1>1, <1>2
<1>4. \A i \in DOMAIN rs : i + 1 \in DOMAIN full /\ full[i + 1] = rs[i]
  BY <1>1, <1>3
<1>5. \A j \in DOMAIN full : j = 1 \/ (j - 1 \in DOMAIN rs /\ full[j] = rs[j - 1])
  BY <1>1, <1>3
<1> HIDE DEF full
<1>6. \A i \in DOMAIN rs : rs[i].id \in Nat /\ rs[i].id < n
  BY ReportAt DEF Proper
<1>7. ASSUME NEW j \in DOMAIN full
      PROVE  full[j].id < n + 1
  <2>1. CASE j = 1
    BY <1>2, <2>1
  <2>2. CASE j - 1 \in DOMAIN rs /\ full[j] = rs[j - 1]
    <3>1. rs[j - 1].id \in Nat /\ rs[j - 1].id < n
      BY <1>6, <2>2
    <3> QED
      BY <2>2, <3>1
  <2> QED
    BY <1>5, <2>1, <2>2
<1>8. Sorted(full)
  <2> SUFFICES ASSUME NEW i \in DOMAIN full, NEW j \in DOMAIN full, i < j
               PROVE  full[j].id < full[i].id
    BY DEF Sorted
  <2>1. j - 1 \in DOMAIN rs /\ full[j] = rs[j - 1] /\ i \in Nat /\ j \in Nat
    BY <1>1, <1>3, <1>5
  <2>2. CASE i = 1
    BY <1>2, <1>6, <2>1, <2>2
  <2>3. CASE i - 1 \in DOMAIN rs /\ full[i] = rs[i - 1]
    BY <2>1, <2>3 DEF Proper, Sorted
  <2> QED
    BY <1>5, <2>2, <2>3
<1>9. NoDuplicates(full)
  <2> SUFFICES ASSUME NEW i \in DOMAIN full, NEW j \in DOMAIN full, i # j,
                      Unresolved(full[i]), Unresolved(full[j]), full[i].by = full[j].by,
                      full[i].about = full[j].about
               PROVE  FALSE
    BY DEF NoDuplicates
  <2>1. \A k \in DOMAIN rs : ~(/\ rs[k].by = new.by /\ rs[k].about = new.about
                               /\ Unresolved(rs[k]))
    BY DEF hasDuplicateReport
  <2>2. CASE i = 1
    BY <1>2, <1>5, <2>1, <2>2
  <2>3. CASE j = 1
    BY <1>2, <1>5, <2>1, <2>3
  <2>4. CASE i # 1 /\ j # 1
    <3>1. i - 1 # j - 1
      BY <1>1, <1>3
    <3> QED
      BY <1>5, <2>4, <3>1 DEF Proper, NoDuplicates
  <2> QED
    BY <2>2, <2>3, <2>4
<1> QED
  BY <1>2, <1>4, <1>7, <1>8, <1>9 DEF Proper, full

\* The cap leaves a queue a proper one, and short enough.
LEMMA CapProper ==
    ASSUME NEW n \in Nat, NEW rs, Proper(rs, n), Len(rs) <= MaxStored + 1
    PROVE  Proper(capReports(rs), n) /\ Len(capReports(rs)) <= MaxStored
<1> DEFINE cap == capReports(rs)
           at(k) == Nth(Kept(rs), k)
<1>1. rs \in Seq(Report)
  BY DEF Proper
<1>2. /\ cap \in Seq(Report) /\ Len(cap) <= MaxStored
      /\ \A k \in DOMAIN cap : at(k) \in DOMAIN rs /\ cap[k] = rs[at(k)]
      /\ \A k, l \in DOMAIN cap : k < l => at(k) < at(l)
  BY <1>1, CapKeeps DEF Kept
<1> HIDE DEF cap, at
<1>3. Sorted(cap) /\ \A k \in DOMAIN cap : cap[k].id < n
  BY <1>2 DEF Proper, Sorted
<1>4. NoDuplicates(cap)
  <2>1. ASSUME NEW k \in DOMAIN cap, NEW l \in DOMAIN cap, k # l
        PROVE  at(k) # at(l)
    <3>1. DOMAIN cap = 1..Len(cap) /\ DOMAIN rs = 1..Len(rs) /\ Len(cap) \in Nat /\ Len(rs) \in Nat
      BY <1>1, <1>2
    <3>2. at(k) \in Nat /\ at(l) \in Nat
      BY <1>2, <3>1
    <3> QED
      BY <1>2, <2>1, <3>1, <3>2
  <2> QED
    BY <1>2, <2>1 DEF Proper, NoDuplicates
<1> QED
  BY <1>2, <1>3, <1>4 DEF Proper, cap

\* A report is only dropped from a queue that is too long, and only ahead of those that
\* are kept: the oldest resolved one, or the oldest of all when nothing is resolved.
LEMMA CapDropsLast ==
    ASSUME NEW n \in Nat, NEW rs, Proper(rs, n), Len(rs) <= MaxStored + 1,
           NEW i \in DOMAIN rs
    PROVE  \/ \E k \in DOMAIN capReports(rs) : capReports(rs)[k] = rs[i]
           \/ /\ Len(rs) = MaxStored + 1
              /\ \A k \in DOMAIN capReports(rs) : LeavesBefore(rs[i], capReports(rs)[k])
<1>1. rs \in Seq(Report) /\ DOMAIN rs = 1..Len(rs) /\ Len(rs) \in Nat
  BY DEF Proper
<1>4. rs \in Seq(Report)
  BY <1>1
<1>2. CASE i \in Kept(rs)
  BY <1>4, <1>2, CapKeeps
<1>3. CASE i \notin Kept(rs)
  <2>1. DropOrder(rs, i) \in Nat /\ ~(DropOrder(rs, i) + MaxStored >= Len(rs))
    BY <1>4, <1>3, DropOrderFacts DEF Kept
  <2>2. Len(rs) = MaxStored + 1 /\ DropOrder(rs, i) = 0
    <3>1. Len(rs) \in Nat /\ MaxStored \in Nat /\ Len(rs) <= MaxStored + 1
      BY <1>1, StoreAssumption
    <3> QED
      BY <2>1, <3>1
  <2>3. ASSUME NEW k \in DOMAIN capReports(rs)
        PROVE  LeavesBefore(rs[i], capReports(rs)[k])
    <3>1. PICK j \in Kept(rs) : capReports(rs)[k] = rs[j]
      BY <1>4, CapKeeps
    <3>2. j \in DOMAIN rs /\ j # i
      BY <1>3, <3>1 DEF Kept
    <3>3. /\ rs[i].id \in Nat /\ rs[j].id \in Nat
          /\ j < i => rs[i].id < rs[j].id
      <4>1. rs[i].id \in Nat /\ rs[j].id \in Nat
        BY <1>4, <3>2, ReportAt
      <4>2. j < i => rs[i].id < rs[j].id
        BY <3>2 DEF Proper, Sorted
      <4> QED
        BY <4>1, <4>2
    <3>4. CASE Unresolved(rs[i])
      <4>1. (\A l \in DOMAIN rs : Unresolved(rs[l])) /\ i = Len(rs)
        BY <1>1, <2>2, <3>4, DropOrderFacts
      <4>2. j < i
        BY <1>1, <3>2, <4>1
      <4> QED
        BY <3>1, <3>2, <3>3, <3>4, <4>1, <4>2 DEF LeavesBefore
    <3>5. CASE ~Unresolved(rs[i])
      <4>1. j > i => Unresolved(rs[j])
        BY <1>1, <2>2, <3>2, <3>5, DropOrderFacts
      <4>2. j > i \/ j < i
        BY <1>1, <3>2
      <4> QED
        BY <3>1, <3>3, <3>5, <4>1, <4>2 DEF LeavesBefore
    <3> QED
      BY <3>4, <3>5
  <2> QED
    BY <2>2, <2>3
<1> QED
  BY <1>2, <1>3

------------------------------------------------------------------------------
(* The queues are proper, no report is filed twice or lost on the way, and *)
(* the types.                                                              *)

\* Every report being filed has an ID left for it.
IdsInv ==
    /\ nextId \in Nat \ {0}
    /\ nextId + Cardinality(InFlight) <= MaxReports + 1

LEMMA InFlightFinite ==
    IsFiniteSet(InFlight) /\ Cardinality(InFlight) \in Nat
<1>1. InFlight \in SUBSET Handlers
  BY DEF InFlight
<1> QED
  BY <1>1, HandlersAssumption, FS_Subset, FS_CardinalityType

LEMMA InFlightNext ==
    IsFiniteSet(InFlight') /\ Cardinality(InFlight') \in Nat
<1>1. InFlight' \in SUBSET Handlers
  BY DEF InFlight
<1> QED
  BY <1>1, HandlersAssumption, FS_Subset, FS_CardinalityType

LEMMA IdsInit == Init => IdsInv
<1> SUFFICES ASSUME Init PROVE IdsInv
  OBVIOUS
<1>1. InFlight = {}
  BY DEF Init, InFlight
<1> QED
  BY <1>1, FS_EmptySet, StoreAssumption DEF Init, IdsInv

LEMMA IdsStep == Inv /\ RequestsInv /\ IdsInv /\ [Next]_vars => IdsInv'
<1> SUFFICES ASSUME Inv, RequestsInv, IdsInv, [Next]_vars
             PROVE  IdsInv'
  OBVIOUS
<1>1. IsFiniteSet(InFlight) /\ Cardinality(InFlight) \in Nat /\ Cardinality(InFlight') \in Nat
  BY InFlightFinite, InFlightNext
<1>2. ASSUME InFlight' \in SUBSET InFlight, UNCHANGED nextId
      PROVE  IdsInv'
  <2>1. Cardinality(InFlight') <= Cardinality(InFlight)
    BY <1>1, <1>2, FS_Subset
  <2> QED
    BY <1>1, <1>2, <2>1, StoreAssumption DEF IdsInv
<1>3. ASSUME NEW h \in Handlers, NEW op, NEW c, NEW u, NEW x, Take(h, op, c, u, x)
      PROVE  /\ h \notin InFlight
             /\ InFlight' = IF op = "create" THEN InFlight \cup {h} ELSE InFlight
  BY <1>3 DEF Take, InFlight, Inv, Shape
<1>4. ASSUME NEW h \in Handlers, Start(h)
      PROVE  IdsInv'
  <2>1. ASSUME NEW c \in Channels, NEW u \in Reporters, NEW s \in Subjects, StartCreate(h, c, u, s)
        PROVE  IdsInv'
    <3>1. InFlight' = InFlight \cup {h} /\ h \notin InFlight
      BY <1>3, <2>1 DEF StartCreate
    <3>2. Cardinality(InFlight') = Cardinality(InFlight) + 1
      BY <1>1, <3>1, FS_AddElement
    <3> QED
      BY <1>1, <2>1, <3>2, StoreAssumption DEF StartCreate, IdsInv
  <2>2. ASSUME NEW op \in {"dismiss", "resolveOne", "resolveUser", "escalate", "resolvePost"},
               NEW c, NEW x, Take(h, op, c, NoRequest, x), UNCHANGED nextId
        PROVE  IdsInv'
    BY <1>2, <1>3, <2>2
  <2> QED
    BY <1>4, <2>1, <2>2 DEF Start, StartEdit, DeletePost
<1>5. ASSUME NEW h \in Handlers, stage[h] # "idle", stage' = [stage EXCEPT ![h] = stage'[h]],
             UNCHANGED <<request, nextId>>
      PROVE  IdsInv'
  BY <1>2, <1>5 DEF InFlight, Inv, Shape
<1>6. ASSUME NEW h \in Handlers, Return(h)
      PROVE  InFlight' = InFlight \ {h}
  BY <1>6 DEF InFlight, Inv, Shape, Return
<1>7. ASSUME NEW h \in Handlers, NEW stamp, stage[h] # "idle", request[h].op = "create",
             SaveNew(h, stamp)
      PROVE  IdsInv'
  <2>1. h \in InFlight /\ InFlight' = InFlight \ {h} /\ nextId' = nextId + 1
    BY <1>6, <1>7 DEF InFlight, SaveNew, Save
  <2>2. Cardinality(InFlight') = Cardinality(InFlight) - 1
    BY <1>1, <2>1, FS_RemoveElement
  <2> QED
    BY <1>1, <2>1, <2>2, StoreAssumption DEF IdsInv
<1>8. ASSUME NEW h \in Handlers, Lock(h) \/ Proceed(h) \/ CutOff(h)
      PROVE  IdsInv'
  <2>1. CASE Lock(h) \/ ReadStamps(h) \/ SaveStamps(h)
    BY <1>5, <2>1 DEF Lock, ReadStamps, SaveStamps, Inv, Shape
  <2>2. CASE CreateUnlimited(h) \/ CreateStamped(h)
    BY <1>7, <2>2 DEF CreateUnlimited, CreateStamped, RequestsInv, Checked
  <2>3. CASE SaveEdited(h) \/ Refuse(h) \/ CutOff(h)
    BY <1>2, <1>6, <2>3 DEF SaveEdited, Refuse, CutOff, Save
  <2> QED
    BY <1>8, <2>1, <2>2, <2>3 DEF Proceed
<1>9. CASE Tick \/ UNCHANGED vars
  BY <1>2, <1>9 DEF Tick, vars, local, InFlight
<1> QED
  BY <1>4, <1>8, <1>9 DEF Next

\* What a step does to the stored queues: nothing, one report filed, or one edited queue.
Filed(c, r) ==
    /\ ~hasDuplicateReport(reports[c], r.by, r.about)
    /\ reports' = [reports EXCEPT ![c] = capReports(<<r>> \o reports[c])]
    /\ nextId' = nextId + 1
EditedQueue(c, q) ==
    /\ reports' = [reports EXCEPT ![c] = EditAll(q, reports[c])]
    /\ UNCHANGED nextId

\* Saving a new report puts it into its channel's queue, as read.
LEMMA SavesNew ==
    ASSUME Inv, RequestsInv, IdsInv, NEW h \in Handlers, NEW stamp \in 0..MaxTime,
           stage[h] \in {"reports", "stamped"}, request[h].op = "create", ~Duplicate(h),
           SaveNew(h, stamp)
    PROVE  /\ request[h].channel \in Channels
           /\ NewReport(h, stamp) \in Report /\ NewReport(h, stamp).id = nextId
           /\ Filed(request[h].channel, NewReport(h, stamp))
<1> DEFINE c == request[h].channel
<1>1. request[h] \in ReportRequests
  BY DEF RequestsInv, ReportRequests, EditRequests
<1>2. c \in Channels /\ seen[h] = reports[c]
  BY DEF Inv, Shape, MutexInv, HolderOwns, Holding
<1>3. nextId \in Ids
  <2>1. h \in InFlight
    BY DEF InFlight
  <2>2. Cardinality(InFlight) # 0
    BY <2>1, InFlightFinite, FS_EmptySet
  <2> QED
    BY <2>2, InFlightFinite, StoreAssumption DEF IdsInv, Ids
<1>4. NewReport(h, stamp) \in Report
  BY <1>1, <1>3 DEF NewReport, Report, ReportRequests, Statuses
<1>5. NewReport(h, stamp).id = nextId /\ Filed(c, NewReport(h, stamp))
  BY <1>2 DEF NewReport, Filed, SaveNew, Save, Duplicate
<1> QED
  BY <1>2, <1>4, <1>5

LEMMA QueueSteps ==
    ASSUME Inv, RequestsInv, IdsInv, [Next]_vars
    PROVE  \/ UNCHANGED <<reports, nextId>>
           \/ \E c \in Channels, r \in Report : r.id = nextId /\ Filed(c, r)
           \/ \E c \in Channels : \E q : EditedQueue(c, q)
<1>1. ASSUME NEW h \in Handlers, SaveEdited(h)
      PROVE  \E c \in Channels : \E q : EditedQueue(c, q)
  <2> DEFINE c == request[h].channel
  <2>1. c \in Channels /\ seen[h] = reports[c]
    BY <1>1 DEF SaveEdited, Inv, Shape, MutexInv, HolderOwns, Holding
  <2>2. EditedQueue(c, request[h])
    BY <1>1, <2>1 DEF SaveEdited, Save, EditedQueue, EditAll
  <2> QED
    BY <2>1, <2>2
<1>2. ASSUME NEW h \in Handlers, CreateUnlimited(h) \/ CreateStamped(h)
      PROVE  \E c \in Channels, r \in Report : r.id = nextId /\ Filed(c, r)
  <2>1. /\ stage[h] \in {"reports", "stamped"} /\ request[h].op = "create" /\ ~Duplicate(h)
        /\ \E stamp \in 0..MaxTime : SaveNew(h, stamp)
    BY <1>2, StoreAssumption DEF CreateUnlimited, CreateStamped, RequestsInv, Checked
  <2> QED
    BY <2>1, SavesNew
<1>3. ASSUME NEW h \in Handlers, Start(h) \/ Lock(h) \/ ReadStamps(h) \/ SaveStamps(h) \/ Refuse(h)
                                 \/ CutOff(h)
      PROVE  UNCHANGED <<reports, nextId>>
  BY <1>3 DEF Start, StartCreate, StartEdit, DeletePost, Lock, ReadStamps, SaveStamps, Refuse, CutOff
<1>4. CASE Tick \/ UNCHANGED vars
  BY <1>4 DEF Tick, vars
<1> QED
  BY <1>1, <1>2, <1>3, <1>4 DEF Next, Proceed

\* Queues are sorted, of different reports, and not too long.
QueueInv ==
    /\ reports = [c \in Channels |-> reports[c]]
    /\ \A c \in Channels : Proper(reports[c], nextId) /\ Len(reports[c]) <= MaxStored

LEMMA QueueInit == Init => QueueInv
BY StoreAssumption DEF Init, QueueInv, Proper, Sorted, NoDuplicates

\* One change of a queue, and what becomes of each report in it.
Forward(c) == \A r \in InQueue(c) : MovesForward(c, r) \/ MakesRoom(c, r)

LEMMA FiledKeeps ==
    ASSUME QueueInv, IdsInv, NEW c \in Channels, NEW r \in Report, r.id = nextId, Filed(c, r)
    PROVE  QueueInv' /\ Forward(c)
<1> DEFINE rs == reports[c]
           full == <<r>> \o rs
<1>1. nextId \in Nat /\ nextId' = nextId + 1 /\ Proper(rs, nextId) /\ Len(rs) <= MaxStored
      /\ ~hasDuplicateReport(rs, r.by, r.about)
  BY DEF QueueInv, IdsInv, Filed
<1>2. /\ reports'[c] = capReports(full)
      /\ reports' = [d \in Channels |-> reports'[d]]
      /\ \A d \in Channels \ {c} : reports'[d] = reports[d]
  BY DEF Filed, QueueInv
<1> HIDE DEF rs
<1>3. /\ Proper(full, nextId + 1) /\ Len(full) = Len(rs) + 1
      /\ \A i \in DOMAIN rs : i + 1 \in DOMAIN full /\ full[i + 1] = rs[i]
  BY <1>1, PutInFront
<1> HIDE DEF full
<1>4. Len(rs) \in Nat /\ MaxStored \in Nat /\ nextId + 1 \in Nat /\ Len(full) <= MaxStored + 1
  BY <1>1, <1>3, StoreAssumption DEF Proper
<1>5. Proper(reports'[c], nextId') /\ Len(reports'[c]) <= MaxStored
  BY <1>1, <1>2, <1>3, <1>4, CapProper
<1>6. ASSUME NEW d \in Channels \ {c}
      PROVE  Proper(reports[d], nextId + 1) /\ Len(reports[d]) <= MaxStored
  <2>1. Proper(reports[d], nextId) /\ Len(reports[d]) <= MaxStored
    BY DEF QueueInv
  <2>2. \A i \in DOMAIN reports[d] : reports[d][i].id < nextId + 1
    <3> TAKE i \in DOMAIN reports[d]
    <3>1. reports[d][i].id \in Nat /\ reports[d][i].id < nextId
      BY <2>1, ReportAt DEF Proper
    <3> QED
      BY <1>1, <3>1
  <2> QED
    BY <2>1, <2>2 DEF Proper
<1>7. QueueInv'
  BY <1>1, <1>2, <1>5, <1>6 DEF QueueInv
<1>8. ASSUME NEW i \in DOMAIN rs
      PROVE  MovesForward(c, rs[i]) \/ MakesRoom(c, rs[i])
  <2>1. InQueue(c)' = {capReports(full)[k] : k \in DOMAIN capReports(full)}
    BY <1>2 DEF InQueue
  <2>2. full[i + 1] = rs[i] /\ i + 1 \in DOMAIN full
    BY <1>3
  <2>3. CASE \E k \in DOMAIN capReports(full) : capReports(full)[k] = full[i + 1]
    <3>1. rs[i] \in InQueue(c)'
      BY <2>1, <2>2, <2>3
    <3>2. Progress[rs[i].status] >= Progress[rs[i].status] /\ SameContent(rs[i], rs[i])
      <4>1. rs[i] \in Report
        BY <1>1, ReportAt DEF Proper
      <4>2. rs[i].status \in {"open", "escalated", "resolved"}
        BY <4>1 DEF Report, Statuses
      <4>3. SameContent(rs[i], rs[i])
        BY <4>1 DEF SameContent, Report
      <4> QED
        BY <4>2, <4>3 DEF Progress
    <3> QED
      BY <3>1, <3>2 DEF MovesForward
  <2>4. CASE /\ Len(full) = MaxStored + 1
             /\ \A k \in DOMAIN capReports(full) : LeavesBefore(full[i + 1], capReports(full)[k])
    <3>1. Len(rs) = MaxStored
      BY <1>3, <1>4, <2>4
    <3>2. \A r2 \in InQueue(c)' : LeavesBefore(rs[i], r2)
      BY <2>1, <2>2, <2>4
    <3> QED
      BY <3>1, <3>2 DEF MakesRoom, rs
  <2> QED
    BY <1>3, <1>4, <2>2, <2>3, <2>4, CapDropsLast
<1>9. Forward(c)
  BY <1>8 DEF Forward, InQueue, MovesForward, MakesRoom, rs
<1> QED
  BY <1>7, <1>9

LEMMA EditedKeeps ==
    ASSUME QueueInv, IdsInv, NEW c \in Channels, NEW q, EditedQueue(c, q)
    PROVE  QueueInv' /\ Forward(c)
<1> DEFINE rs == reports[c]
           edited == EditAll(q, rs)
<1>1. nextId \in Nat /\ nextId' = nextId /\ Proper(rs, nextId) /\ Len(rs) <= MaxStored
  BY DEF QueueInv, IdsInv, EditedQueue
<1>2. /\ reports'[c] = edited
      /\ reports' = [d \in Channels |-> reports'[d]]
      /\ \A d \in Channels \ {c} : reports'[d] = reports[d]
  BY DEF EditedQueue, QueueInv
<1>3. /\ Proper(edited, nextId) /\ Len(edited) = Len(rs) /\ DOMAIN edited = DOMAIN rs
      /\ \A i \in DOMAIN rs : /\ SameContent(rs[i], edited[i])
                              /\ Progress[edited[i].status] >= Progress[rs[i].status]
  BY <1>1, EditProper
<1> HIDE DEF rs, edited
<1>4. QueueInv'
  <2>1. Proper(reports'[c], nextId') /\ Len(reports'[c]) <= MaxStored
    BY <1>1, <1>2, <1>3
  <2>2. \A d \in Channels \ {c} : Proper(reports'[d], nextId') /\ Len(reports'[d]) <= MaxStored
    BY <1>1, <1>2 DEF QueueInv
  <2> QED
    BY <1>2, <2>1, <2>2 DEF QueueInv
<1>5. ASSUME NEW i \in DOMAIN rs
      PROVE  MovesForward(c, rs[i])
  <2>1. edited[i] \in InQueue(c)'
    BY <1>2, <1>3 DEF InQueue
  <2> QED
    BY <1>3, <2>1 DEF MovesForward
<1>6. Forward(c)
  BY <1>5 DEF Forward, InQueue, MovesForward, rs
<1> QED
  BY <1>4, <1>6

\* A channel whose queue does not change.
LEMMA SameForward ==
    ASSUME QueueInv, NEW c \in Channels, reports'[c] = reports[c]
    PROVE  Forward(c)
<1> SUFFICES ASSUME NEW i \in DOMAIN reports[c]
             PROVE  MovesForward(c, reports[c][i])
  BY DEF Forward, InQueue, MovesForward
<1>1. reports[c][i] \in Report
  BY ReportAt DEF QueueInv, Proper
<1>2. reports[c][i].status \in {"open", "escalated", "resolved"}
  BY <1>1 DEF Report, Statuses
<1>3. Progress[reports[c][i].status] >= Progress[reports[c][i].status]
  BY <1>2 DEF Progress
<1>4. reports[c][i] \in InQueue(c)' /\ SameContent(reports[c][i], reports[c][i])
  BY <1>1 DEF InQueue, SameContent, Report
<1> QED
  BY <1>3, <1>4 DEF MovesForward

LEMMA QueueStep ==
    ASSUME Inv, RequestsInv, IdsInv, QueueInv, [Next]_vars
    PROVE  QueueInv' /\ \A c \in Channels : Forward(c)
<1>1. CASE UNCHANGED <<reports, nextId>>
  BY <1>1, SameForward DEF QueueInv
<1>2. ASSUME NEW c \in Channels, QueueInv', Forward(c),
             \A d \in Channels \ {c} : reports'[d] = reports[d]
      PROVE  QueueInv' /\ \A d \in Channels : Forward(d)
  BY <1>2, SameForward
<1>3. ASSUME NEW c \in Channels, NEW r \in Report, r.id = nextId, Filed(c, r)
      PROVE  QueueInv' /\ \A d \in Channels : Forward(d)
  <2>1. QueueInv' /\ Forward(c)
    BY <1>3, FiledKeeps
  <2>2. \A d \in Channels \ {c} : reports'[d] = reports[d]
    BY <1>3 DEF Filed, QueueInv
  <2> QED
    BY <1>2, <2>1, <2>2
<1>4. ASSUME NEW c \in Channels, NEW q, EditedQueue(c, q)
      PROVE  QueueInv' /\ \A d \in Channels : Forward(d)
  <2>1. QueueInv' /\ Forward(c)
    BY <1>4, EditedKeeps
  <2>2. \A d \in Channels \ {c} : reports'[d] = reports[d]
    BY <1>4 DEF EditedQueue, QueueInv
  <2> QED
    BY <1>2, <2>1, <2>2
<1> QED
  BY <1>1, <1>3, <1>4, QueueSteps

\* For any handlers, channels and members: no member has two unresolved reports about the
\* same subject in a channel, however submissions, dismissals and failures interleave.
THEOREM DuplicatesRefused == Spec => []NoDuplicateOpen
<1>1. QueueInv => NoDuplicateOpen
  BY DEF QueueInv, Proper, NoDuplicates, NoDuplicateOpen
<1>2. Inv /\ RequestsInv /\ IdsInv /\ QueueInv /\ [Next]_vars => QueueInv'
  BY QueueStep
<1> QED
  BY <1>1, <1>2, InitInv, NextInv, RequestsInit, RequestsStep, IdsInit, IdsStep, QueueInit, PTL
     DEF Spec

\* For any queue length: a stored report keeps its content and only moves forward, and is
\* dropped only from a full queue, a resolved one only when it is the oldest of them, an
\* unresolved one only when it is the oldest of all and nothing is resolved.
THEOREM ReportsMoveForward == Spec => QueueForward
<1>1. Inv /\ RequestsInv /\ IdsInv /\ QueueInv /\ [Next]_vars =>
        /\ QueueInv'
        /\ [\A c \in Channels : \A r \in InQueue(c) : MovesForward(c, r) \/ MakesRoom(c, r)]_vars
  BY QueueStep DEF Forward
<1> QED
  BY <1>1, InitInv, NextInv, RequestsInit, RequestsStep, IdsInit, IdsStep, QueueInit, PTL
     DEF Spec, QueueForward

\* What QueueInv and Inv do not say of the types.
Times == Seq(1..MaxTime)
Types ==
    /\ limit \in RateLimits
    /\ stamps \in [Reporters -> Times]
    /\ posts \subseteq Posts
    /\ request \in [Handlers -> Requests \cup {NoRequest}]
    /\ seen \in [Handlers -> Seq(Report)]
    /\ recent \in [Handlers -> [kept : Times, stamp : 0..MaxTime]]
    /\ now \in 1..MaxTime

\* A stamp on its way was taken at some time not after the present.
StampsInv == \A h \in Handlers : stage[h] \in {"stamps", "stamped"} => recent[h].stamp \in 1..now

LEMMA TypesInit == Init => Types /\ StampsInv
<1> SUFFICES ASSUME Init PROVE Types /\ StampsInv
  OBVIOUS
<1>1. NoStamps \in [kept : Times, stamp : 0..MaxTime]
  BY StoreAssumption DEF NoStamps, Times
<1>2. Types
  BY <1>1, StoreAssumption DEF Init, Types, Times
<1> QED
  BY <1>2 DEF Init, StampsInv

LEMMA RequestTypes == ReportRequests \cup EditRequests \subseteq Requests
BY SubjectsAssumption DEF ReportRequests, EditRequests, Requests

LEMMA RecentType ==
    ASSUME NEW times \in Times
    PROVE  Recent(times) \in Times
<1> DEFINE S == {i \in DOMAIN times : times[i] + Window >= now}
<1>1. S \in SUBSET (DOMAIN times)
  OBVIOUS
<1> HIDE DEF S
<1>2. AtPositions(times, S) \in Times
  BY <1>1, AtPositionsType DEF Times
<1> QED
  BY <1>2 DEF Recent, S

LEMMA Reporting ==
    ASSUME RequestsInv, NEW h \in Handlers, stage[h] # "idle", request[h].op = "create"
    PROVE  request[h].by \in Reporters /\ request[h].channel \in Channels
BY DEF RequestsInv, ReportRequests, EditRequests

LEMMA ReadStampsTypes ==
    ASSUME Inv, RequestsInv, Types, StampsInv, NEW h \in Handlers, ReadStamps(h)
    PROVE  Types' /\ StampsInv'
<1> DEFINE read == [kept |-> Recent(stamps[request[h].by]), stamp |-> now]
<1>1. request[h].by \in Reporters
  BY Reporting DEF ReadStamps
<1>2. Recent(stamps[request[h].by]) \in Times
  BY <1>1, RecentType DEF Types
<1>3. now \in 0..MaxTime /\ now \in 1..now
  BY StoreAssumption DEF Types
<1>4. read \in [kept : Times, stamp : 0..MaxTime] /\ read.stamp = now
  BY <1>2, <1>3
<1>5. /\ recent' = [recent EXCEPT ![h] = read]
      /\ stage' = [stage EXCEPT ![h] = "stamps"]
      /\ UNCHANGED <<limit, stamps, posts, request, seen, now>>
  BY DEF ReadStamps
<1> HIDE DEF read
<1>6. Types'
  BY <1>4, <1>5 DEF Types
<1>7. \A g \in Handlers \ {h} : recent'[g] = recent[g] /\ stage'[g] = stage[g]
  BY <1>5 DEF Types, Inv, Shape
<1>8. recent'[h] = read /\ now' = now
  BY <1>5 DEF Types
<1> QED
  BY <1>3, <1>4, <1>6, <1>7, <1>8 DEF StampsInv

LEMMA SaveStampsTypes ==
    ASSUME Inv, RequestsInv, Types, StampsInv, NEW h \in Handlers, SaveStamps(h)
    PROVE  Types' /\ StampsInv'
<1>1. recent[h].kept \in Times /\ recent[h].stamp \in 1..MaxTime
  BY StoreAssumption DEF Types, StampsInv, SaveStamps
<1>2. Append(recent[h].kept, recent[h].stamp) \in Times
  BY <1>1 DEF Times
<1>3. Types'
  BY <1>2 DEF SaveStamps, Types
<1>4. \A g \in Handlers : stage'[g] \in {"stamps", "stamped"} => stage[g] \in {"stamps", "stamped"}
  BY DEF SaveStamps, Inv, Shape
<1> QED
  BY <1>3, <1>4 DEF StampsInv, SaveStamps

LEMMA TypesStep ==
    ASSUME Inv, RequestsInv, RequestsInv', QueueInv, Types, StampsInv, [Next]_vars
    PROVE  Types' /\ StampsInv'
<1>1. NoStamps \in [kept : Times, stamp : 0..MaxTime] /\ <<>> \in Seq(Report)
  BY StoreAssumption DEF NoStamps, Times
<1>2. ASSUME NEW h \in Handlers, Return(h), UNCHANGED <<limit, stamps, posts, now>>
      PROVE  Types' /\ StampsInv'
  <2>1. Types'
    BY <1>1, <1>2 DEF Return, Types
  <2>2. \A g \in Handlers : stage'[g] # "idle" => stage'[g] = stage[g] /\ recent'[g] = recent[g]
    BY <1>2 DEF Return, Inv, Shape, Types
  <2> QED
    BY <1>2, <2>1, <2>2 DEF StampsInv
<1>3. ASSUME NEW h \in Handlers, Start(h)
      PROVE  Types' /\ StampsInv'
  <2>1. /\ UNCHANGED <<limit, stamps, seen, recent, now>> /\ posts' \subseteq posts
        /\ stage' = [stage EXCEPT ![h] = "wait"]
        /\ request' = [request EXCEPT ![h] = request'[h]]
    BY <1>3 DEF Start, StartCreate, StartEdit, DeletePost, Take, Types, Inv, Shape
  <2>2. request'[h] \in Requests
    BY <2>1, RequestTypes DEF RequestsInv, Inv, Shape
  <2>3. Types'
    BY <2>1, <2>2 DEF Types
  <2> QED
    BY <2>1, <2>3 DEF StampsInv, Inv, Shape
<1>4. ASSUME NEW h \in Handlers, Lock(h)
      PROVE  Types' /\ StampsInv'
  <2>1. reports[request[h].channel] \in Seq(Report)
    BY <1>4 DEF Lock, Inv, Shape, QueueInv, Proper
  <2>2. Types'
    BY <1>4, <2>1 DEF Lock, Types
  <2> QED
    BY <1>4, <2>2 DEF Lock, StampsInv, Inv, Shape
<1>5. ASSUME NEW h \in Handlers, Proceed(h)
      PROVE  Types' /\ StampsInv'
  <2>1. CASE ReadStamps(h)
    BY <2>1, ReadStampsTypes
  <2>2. CASE SaveStamps(h)
    BY <2>2, SaveStampsTypes
  <2>3. CASE CreateUnlimited(h) \/ CreateStamped(h) \/ SaveEdited(h) \/ Refuse(h)
    BY <1>2, <2>3 DEF CreateUnlimited, CreateStamped, SaveEdited, Refuse, SaveNew, Save
  <2> QED
    BY <1>5, <2>1, <2>2, <2>3 DEF Proceed
<1>6. ASSUME NEW h \in Handlers, CutOff(h)
      PROVE  Types' /\ StampsInv'
  BY <1>2, <1>6 DEF CutOff
<1>7. CASE Tick
  <2>1. now' \in 1..MaxTime /\ 1..now \subseteq 1..now'
    BY <1>7, StoreAssumption DEF Tick, Types
  <2> QED
    BY <1>7, <2>1 DEF Tick, local, Types, StampsInv
<1>8. CASE UNCHANGED vars
  BY <1>8 DEF vars, local, Types, StampsInv
<1> QED
  BY <1>3, <1>4, <1>5, <1>6, <1>7, <1>8 DEF Next

\* Everything the proofs above keep.
AllInv == Inv /\ RequestsInv /\ IdsInv /\ QueueInv /\ Types /\ StampsInv

LEMMA AllInit == Init => AllInv
BY InitInv, RequestsInit, IdsInit, QueueInit, TypesInit DEF AllInv

LEMMA AllStep == AllInv /\ [Next]_vars => AllInv'
<1> SUFFICES ASSUME AllInv, [Next]_vars PROVE AllInv'
  OBVIOUS
<1>1. Inv' /\ RequestsInv' /\ IdsInv'
  BY NextInv, RequestsStep, IdsStep DEF AllInv
<1>2. QueueInv'
  BY QueueStep DEF AllInv
<1>3. Types' /\ StampsInv'
  BY <1>1, TypesStep DEF AllInv
<1> QED
  BY <1>1, <1>2, <1>3 DEF AllInv

\* For any handlers, channels, members, limits and bounds, every variable keeps its type; a queue
\* never holds more than MaxStored reports and no ID is given out beyond the last.
THEOREM TypeCorrect == Spec => []TypeOK
<1>1. AllInv => TypeOK
  <2> SUFFICES ASSUME AllInv PROVE TypeOK
    OBVIOUS
  <2>1. nextId \in 1..(MaxReports + 1)
    BY InFlightFinite, StoreAssumption DEF AllInv, IdsInv
  <2>2. /\ reports \in [Channels -> Seq(Report)]
        /\ \A c \in Channels : Len(reports[c]) <= MaxStored
    BY DEF AllInv, QueueInv, Proper
  <2> QED
    BY <2>1, <2>2 DEF AllInv, Inv, Shape, Types, Times, TypeOK
<1> QED
  BY <1>1, AllInit, AllStep, PTL DEF Spec

------------------------------------------------------------------------------
(* The rate limit.                                                         *)

\* A member's stamps are read and written under the mutexes of different channels, so that the
\* limit is only kept while no member has two submissions past their channels' mutexes, between
\* the read of the stamps and the store of the report, at a time.
Counting(h, u) == stage[h] \in {"stamps", "stamped"} /\ request[h].by = u
SubmissionsApart ==
    \A g, h \in Handlers, u \in Reporters : Counting(g, u) /\ Counting(h, u) => g = h

\* The reports of a member stamped from a to b, and the stamps from x on in a list.
Stamped(queues, u, a, b) ==
    {id \in Ids : \E c \in Channels : \E i \in DOMAIN queues[c] :
        /\ queues[c][i].id = id /\ queues[c][i].by = u
        /\ queues[c][i].stamp \in a..b}
Since(times, x) == {i \in DOMAIN times : times[i] >= x}

\* Until it leaves every window, a stored report of a member has a stamp in the list.
StampsCount(u) ==
    \A x \in 1..MaxTime : x + Window >= now =>
        Cardinality(Stamped(reports, u, x, MaxTime)) <= Cardinality(Since(stamps[u], x))
WindowsKept(u) == \A x \in 1..MaxTime : Cardinality(Stamped(reports, u, x, x + Window)) <= limit

\* A submission that passed the check has room in every window its stamp is in, writes no fewer
\* stamps than are stored, and, once they are stored, one more than there are reports.
HasRoom(h, u) ==
    \A x \in 1..MaxTime : recent[h].stamp \in x..(x + Window) =>
        Cardinality(Stamped(reports, u, x, x + Window)) < limit
KeptCount(h, u) ==
    \A x \in 1..MaxTime : x + Window >= now =>
        Cardinality(Since(stamps[u], x)) <= Cardinality(Since(recent[h].kept, x))
StampPending(h, u) ==
    \A x \in 1..MaxTime : x + Window >= now /\ recent[h].stamp >= x =>
        Cardinality(Stamped(reports, u, x, MaxTime)) < Cardinality(Since(stamps[u], x))

CountingInv(h, u) ==
    /\ HasRoom(h, u)
    /\ stage[h] = "stamps" => KeptCount(h, u)
    /\ stage[h] = "stamped" => StampPending(h, u)
MemberInv(u) ==
    /\ StampsCount(u)
    /\ WindowsKept(u)
    /\ \A h \in Handlers : Counting(h, u) => CountingInv(h, u)
RatesInv == limit > 0 => \A u \in Reporters : MemberInv(u)

\* No ID is given to reports in two channels.
DistinctIds ==
    \A c, d \in Channels : \A i \in DOMAIN reports[c], j \in DOMAIN reports[d] :
        c # d => reports[c][i].id # reports[d][j].id

LEMMA IdSets ==
    ASSUME NEW S \in SUBSET Ids
    PROVE  IsFiniteSet(S) /\ Cardinality(S) \in Nat
<1>1. IsFiniteSet(Ids)
  BY StoreAssumption, FS_Interval DEF Ids
<1> QED
  BY <1>1, FS_Subset, FS_CardinalityType

LEMMA StampedSize ==
    ASSUME NEW queues, NEW u, NEW a, NEW b
    PROVE  IsFiniteSet(Stamped(queues, u, a, b)) /\ Cardinality(Stamped(queues, u, a, b)) \in Nat
<1>1. Stamped(queues, u, a, b) \in SUBSET Ids
  BY DEF Stamped
<1> QED
  BY <1>1, IdSets

LEMMA SinceSize ==
    ASSUME NEW times \in Times, NEW x
    PROVE  IsFiniteSet(Since(times, x)) /\ Cardinality(Since(times, x)) \in Nat
<1>1. Since(times, x) \in SUBSET (DOMAIN times)
  BY DEF Since
<1>2. IsFiniteSet(Since(times, x))
  BY <1>1, Positions DEF Times
<1> QED
  BY <1>2, FS_CardinalityType

\* Pruning keeps every stamp that is still in a window, and only as many stamps as those.
LEMMA PruneKeeps ==
    ASSUME NEW times \in Times, NEW x \in 1..MaxTime, now \in Nat, x + Window >= now
    PROVE  /\ Cardinality(Since(times, x)) <= Cardinality(Since(Recent(times), x))
           /\ Cardinality(Since(times, x)) <= Len(Recent(times))
<1> DEFINE S == {i \in DOMAIN times : times[i] + Window >= now}
           kept == AtPositions(times, S)
<1>1. S \in SUBSET (DOMAIN times)
  OBVIOUS
<1>2. \A i \in DOMAIN times : times[i] \in 1..MaxTime
  BY SeqAt DEF Times
<1>3. Since(times, x) \in SUBSET S
  <2> SUFFICES ASSUME NEW i \in Since(times, x) PROVE i \in S
    OBVIOUS
  <2>1. i \in DOMAIN times /\ times[i] >= x /\ times[i] \in Nat
    BY <1>2, StoreAssumption DEF Since
  <2> QED
    BY <2>1, BoundsAssumption, StoreAssumption
<1> HIDE DEF S
<1>4. /\ S \in SUBSET Nat /\ IsFiniteSet(S) /\ Cardinality(S) \in Nat
      /\ kept \in Times /\ Len(kept) = Cardinality(S)
      /\ \A k \in 1..Cardinality(S) : kept[k] = times[Nth(S, k)]
  BY <1>1, Positions, AtPositionsType, FS_CardinalityType DEF Times
<1>5. Cardinality(Since(times, x)) <= Cardinality(S)
  BY <1>3, <1>4, FS_Subset
<1> HIDE DEF kept
<1>6. Cardinality(Since(times, x)) <= Cardinality(Since(kept, x))
  <2> DEFINE at == [i \in Since(times, x) |-> CHOOSE k \in 1..Cardinality(S) : Nth(S, k) = i]
  <2>1. ASSUME NEW i \in Since(times, x)
        PROVE  at[i] \in 1..Cardinality(S) /\ Nth(S, at[i]) = i
    <3>1. \E k \in 1..Cardinality(S) : Nth(S, k) = i
      BY <1>3, <1>4, NthFacts
    <3> QED
      BY <3>1
  <2>2. DOMAIN at = Since(times, x)
    OBVIOUS
  <2>3. at = [i \in Since(times, x) |-> at[i]]
    OBVIOUS
  <2> HIDE DEF at
  <2>4. DOMAIN kept = 1..Cardinality(S)
    <3>1. DOMAIN kept = 1..Len(kept)
      BY <1>4, SeqDomain DEF Times
    <3> QED
      BY <1>4, <3>1
  <2>5. ASSUME NEW i \in Since(times, x)
        PROVE  at[i] \in Since(kept, x)
    <3>1. kept[at[i]] = times[i] /\ times[i] >= x
      BY <1>4, <2>1 DEF Since
    <3> QED
      BY <2>1, <2>4, <3>1 DEF Since
  <2>6. \A i, j \in Since(times, x) : at[i] = at[j] => i = j
    BY <2>1
  <2>7. at \in Injection(Since(times, x), Since(kept, x))
    BY <2>3, <2>5, <2>6 DEF Injection, IsInjective
  <2>8. IsFiniteSet(Since(kept, x))
    BY <1>4, SinceSize
  <2> QED
    BY <2>7, <2>8, FS_Injection
<1> QED
  BY <1>4, <1>5, <1>6 DEF Recent, S, kept

\* A stamp more at the end of a list.
LEMMA AppendCounts ==
    ASSUME NEW times \in Times, NEW s \in 1..MaxTime, NEW x \in 1..MaxTime
    PROVE  Cardinality(Since(Append(times, s), x)) =
             IF s >= x THEN Cardinality(Since(times, x)) + 1 ELSE Cardinality(Since(times, x))
<1>1. /\ Append(times, s) \in Seq(1..MaxTime) /\ DOMAIN times = 1..Len(times) /\ Len(times) \in Nat
      /\ DOMAIN Append(times, s) = 1..(Len(times) + 1)
      /\ \A i \in DOMAIN times : Append(times, s)[i] = times[i]
      /\ Append(times, s)[Len(times) + 1] = s
  BY DEF Times
<1>2. Since(Append(times, s), x) =
        IF s >= x THEN Since(times, x) \cup {Len(times) + 1} ELSE Since(times, x)
  <2> DEFINE longer == Append(times, s)
             n == Len(times)
  <2>1. /\ DOMAIN times = 1..n /\ n \in Nat /\ DOMAIN longer = 1..(n + 1)
        /\ \A i \in 1..n : longer[i] = times[i]
        /\ longer[n + 1] = s
    BY <1>1
  <2> HIDE DEF longer, n
  <2>2. \A i : i \in Since(longer, x) <=> i \in Since(times, x) \/ (i = n + 1 /\ s >= x)
    BY <2>1 DEF Since
  <2> QED
    BY <2>2 DEF longer, n
<1>3. Len(times) + 1 \notin Since(times, x)
  BY <1>1 DEF Since
<1> QED
  BY <1>2, <1>3, SinceSize, FS_AddElement

\* Where the entries of a changed queue come from, and what edits and additions do to the
\* reports with a stamp in a window.
LEMMA FiledEntries ==
    ASSUME QueueInv, IdsInv, NEW c \in Channels, NEW r \in Report, r.id = nextId, Filed(c, r),
           NEW i \in DOMAIN reports'[c]
    PROVE  reports'[c][i] = r \/ \E j \in DOMAIN reports[c] : reports'[c][i] = reports[c][j]
<1> DEFINE rs == reports[c]
           full == <<r>> \o rs
<1>1. nextId \in Nat /\ Proper(rs, nextId) /\ Len(rs) <= MaxStored
      /\ ~hasDuplicateReport(rs, r.by, r.about) /\ reports'[c] = capReports(full)
  BY DEF QueueInv, IdsInv, Filed
<1>2. full[1] = r /\ rs \in Seq(Report)
  BY <1>1 DEF Proper
<1> HIDE DEF rs
<1>3. Proper(full, nextId + 1) /\ Len(full) = Len(rs) + 1
  BY <1>1, PutInFront
<1>4. DOMAIN rs = 1..Len(rs) /\ Len(rs) \in Nat
  BY <1>2, SeqDomain
<1>5. \A j \in DOMAIN full : j = 1 \/ (j - 1 \in DOMAIN rs /\ full[j] = rs[j - 1])
  BY <1>2, <1>4
<1>6. full \in Seq(Report) /\ Len(full) <= MaxStored + 1
  BY <1>1, <1>3, <1>4, StoreAssumption DEF Proper
<1> HIDE DEF full
<1>7. PICK j \in DOMAIN full : reports'[c][i] = full[j]
  <2>1. i \in DOMAIN capReports(full) /\ reports'[c][i] = capReports(full)[i]
    BY <1>1
  <2>2. /\ Nth(Kept(full), i) \in Kept(full)
        /\ capReports(full)[i] = full[Nth(Kept(full), i)]
    BY <1>6, <2>1, CapKeeps
  <2> QED
    BY <2>1, <2>2 DEF Kept
<1> QED
  BY <1>2, <1>5, <1>7 DEF rs

LEMMA EditedEntries ==
    ASSUME QueueInv, NEW c \in Channels, NEW q, EditedQueue(c, q), NEW i \in DOMAIN reports'[c]
    PROVE  /\ i \in DOMAIN reports[c]
           /\ reports'[c][i].id = reports[c][i].id /\ reports'[c][i].by = reports[c][i].by
           /\ reports'[c][i].stamp = reports[c][i].stamp
<1>1. reports'[c] = EditAll(q, reports[c])
  BY DEF EditedQueue, QueueInv
<1>2. i \in DOMAIN reports[c] /\ reports'[c][i] = Edited(q, reports[c][i])
  BY <1>1 DEF EditAll
<1>3. reports[c][i] \in Report
  BY <1>2, ReportAt DEF QueueInv, Proper
<1> QED
  BY <1>2, <1>3, EditedFacts

LEMMA StampedEdited ==
    ASSUME QueueInv, NEW c \in Channels, NEW q, EditedQueue(c, q), NEW u, NEW a, NEW b
    PROVE  Stamped(reports', u, a, b) \subseteq Stamped(reports, u, a, b)
<1> SUFFICES ASSUME NEW id \in Ids, NEW d \in Channels, NEW i \in DOMAIN reports'[d],
                    reports'[d][i].id = id, reports'[d][i].by = u, reports'[d][i].stamp \in a..b
             PROVE  /\ i \in DOMAIN reports[d] /\ reports[d][i].id = id
                    /\ reports[d][i].by = u /\ reports[d][i].stamp \in a..b
  BY DEF Stamped
<1>1. CASE d = c
  BY <1>1, EditedEntries
<1>2. CASE d # c
  BY <1>2 DEF EditedQueue, QueueInv
<1> QED
  BY <1>1, <1>2

LEMMA StampedFiled ==
    ASSUME QueueInv, IdsInv, NEW c \in Channels, NEW r \in Report, r.id = nextId, Filed(c, r),
           NEW u, NEW a, NEW b
    PROVE  /\ Stamped(reports', u, a, b) \subseteq Stamped(reports, u, a, b) \cup {r.id}
           /\ ~(r.by = u /\ r.stamp \in a..b) =>
                Stamped(reports', u, a, b) \subseteq Stamped(reports, u, a, b)
<1> SUFFICES ASSUME NEW id \in Ids, NEW d \in Channels, NEW i \in DOMAIN reports'[d],
                    reports'[d][i].id = id, reports'[d][i].by = u, reports'[d][i].stamp \in a..b
             PROVE  id \in Stamped(reports, u, a, b) \/ (id = r.id /\ r.by = u /\ r.stamp \in a..b)
  BY DEF Stamped
<1>1. CASE d # c
  <2>1. reports'[d] = reports[d]
    BY <1>1 DEF Filed, QueueInv
  <2> QED
    BY <2>1 DEF Stamped
<1>2. CASE d = c
  BY <1>2, FiledEntries DEF Stamped
<1> QED
  BY <1>1, <1>2

\* Fewer reports in every window, the same stamps: nothing of what is known of a member is lost.
LEMMA QuietStep ==
    ASSUME NEW u \in Reporters, MemberInv(u), now \in Nat, now' \in Nat, now' >= now, limit \in Nat,
           UNCHANGED limit, stamps[u] \in Times, stamps'[u] = stamps[u],
           \A a, b \in Nat : Stamped(reports', u, a, b) \subseteq Stamped(reports, u, a, b),
           recent \in [Handlers -> [kept : Times, stamp : 0..MaxTime]],
           \A g \in Handlers : Counting(g, u)' => /\ stage'[g] = stage[g] /\ Counting(g, u)
                                                  /\ recent'[g] = recent[g]
    PROVE  MemberInv(u)'
<1>1. \A x \in 1..MaxTime : /\ x \in Nat /\ x + Window \in Nat /\ MaxTime \in Nat
                            /\ x + Window >= now' => x + Window >= now
  BY BoundsAssumption, StoreAssumption
<1> DEFINE Fewer(b, x, n) ==
             /\ Cardinality(Stamped(reports, u, x, b)) <= n => Cardinality(Stamped(reports', u, x, b)) <= n
             /\ Cardinality(Stamped(reports, u, x, b)) < n => Cardinality(Stamped(reports', u, x, b)) < n
<1>2. ASSUME NEW a \in Nat, NEW b \in Nat, NEW n \in Nat
      PROVE  Fewer(b, a, n)
  <2>1. /\ Cardinality(Stamped(reports', u, a, b)) <= Cardinality(Stamped(reports, u, a, b))
        /\ Cardinality(Stamped(reports', u, a, b)) \in Nat
        /\ Cardinality(Stamped(reports, u, a, b)) \in Nat
    BY StampedSize, FS_Subset
  <2> QED
    BY <2>1
<1>3. \A x \in 1..MaxTime : Cardinality(Since(stamps[u], x)) \in Nat
  BY SinceSize
<1>4. StampsCount(u)'
  <2> SUFFICES ASSUME NEW x \in 1..MaxTime, x + Window >= now'
               PROVE  Cardinality(Stamped(reports', u, x, MaxTime)) <= Cardinality(Since(stamps[u], x))
    BY DEF StampsCount, Since
  <2>1. Cardinality(Stamped(reports, u, x, MaxTime)) <= Cardinality(Since(stamps[u], x))
    BY <1>1 DEF MemberInv, StampsCount
  <2>2. Fewer(MaxTime, x, Cardinality(Since(stamps[u], x)))
    BY <1>1, <1>2, <1>3
  <2> QED
    BY <2>1, <2>2
<1>5. WindowsKept(u)'
  <2> SUFFICES ASSUME NEW x \in 1..MaxTime
               PROVE  Cardinality(Stamped(reports', u, x, x + Window)) <= limit
    BY DEF WindowsKept
  <2>1. Cardinality(Stamped(reports, u, x, x + Window)) <= limit
    BY DEF MemberInv, WindowsKept
  <2>2. Fewer(x + Window, x, limit)
    BY <1>1, <1>2
  <2> QED
    BY <2>1, <2>2
<1>6. ASSUME NEW g \in Handlers, Counting(g, u)'
      PROVE  CountingInv(g, u)'
  <2>1. stage'[g] = stage[g] /\ CountingInv(g, u) /\ recent'[g] = recent[g]
    BY <1>6 DEF MemberInv
  <2>2. HasRoom(g, u)'
    <3> SUFFICES ASSUME NEW x \in 1..MaxTime, recent'[g].stamp \in x..(x + Window)
                 PROVE  Cardinality(Stamped(reports', u, x, x + Window)) < limit
      BY DEF HasRoom
    <3>1. Cardinality(Stamped(reports, u, x, x + Window)) < limit
      BY <2>1 DEF CountingInv, HasRoom
    <3>2. Fewer(x + Window, x, limit)
      BY <1>1, <1>2
    <3> QED
      BY <3>1, <3>2
  <2>3. ASSUME stage[g] = "stamps"
        PROVE  KeptCount(g, u)'
    BY <1>1, <2>1, <2>3 DEF CountingInv, KeptCount, Since
  <2>4. ASSUME stage[g] = "stamped"
        PROVE  StampPending(g, u)'
    <3> SUFFICES ASSUME NEW x \in 1..MaxTime, x + Window >= now', recent'[g].stamp >= x
                 PROVE  Cardinality(Stamped(reports', u, x, MaxTime)) < Cardinality(Since(stamps[u], x))
      BY DEF StampPending, Since
    <3>1. Cardinality(Stamped(reports, u, x, MaxTime)) < Cardinality(Since(stamps[u], x))
      BY <1>1, <2>1, <2>4 DEF CountingInv, StampPending
    <3>2. Fewer(MaxTime, x, Cardinality(Since(stamps[u], x)))
      BY <1>1, <1>2, <1>3
    <3> QED
      BY <3>1, <3>2
  <2> QED
    BY <2>1, <2>2, <2>3, <2>4 DEF CountingInv
<1> QED
  BY <1>4, <1>5, <1>6 DEF MemberInv

\* The check leaves room in every window the new stamp is in.
LEMMA ReadStep ==
    ASSUME AllInv, AllInv', SubmissionsApart', NEW h \in Handlers, ReadStamps(h), NEW u \in Reporters,
           u = request[h].by, MemberInv(u)
    PROVE  MemberInv(u)'
<1>1. /\ UNCHANGED <<limit, reports, stamps, request, now>> /\ Len(Recent(stamps[u])) < limit
      /\ stage'[h] = "stamps" /\ recent'[h] = [kept |-> Recent(stamps[u]), stamp |-> now]
  BY DEF ReadStamps, AllInv, Inv, Shape, Types
<1>2. stamps[u] \in Times /\ now \in 1..MaxTime /\ limit \in Nat /\ Recent(stamps[u]) \in Times
  BY BoundsAssumption, RecentType DEF AllInv, Types
<1>3. now \in Nat /\ MaxTime \in Nat /\ Window \in Nat /\ \A x \in 1..MaxTime : x \in Nat
  BY <1>2, StoreAssumption, BoundsAssumption
<1>4. ASSUME NEW x \in 1..MaxTime, x + Window >= now
      PROVE  /\ Cardinality(Since(stamps[u], x)) <= Cardinality(Since(Recent(stamps[u]), x))
             /\ Cardinality(Stamped(reports, u, x, MaxTime)) < limit
  <2>1. /\ Cardinality(Since(stamps[u], x)) <= Cardinality(Since(Recent(stamps[u]), x))
        /\ Cardinality(Since(stamps[u], x)) <= Len(Recent(stamps[u]))
    BY <1>2, <1>3, <1>4, PruneKeeps
  <2>2. Cardinality(Stamped(reports, u, x, MaxTime)) <= Cardinality(Since(stamps[u], x))
    BY <1>4 DEF MemberInv, StampsCount
  <2>3. /\ Cardinality(Stamped(reports, u, x, MaxTime)) \in Nat
        /\ Cardinality(Since(stamps[u], x)) \in Nat
        /\ Len(Recent(stamps[u])) \in Nat
    BY <1>2, StampedSize, SinceSize, SeqDomain DEF Times
  <2> QED
    BY <1>1, <1>2, <2>1, <2>2, <2>3
<1>5. HasRoom(h, u)'
  <2> SUFFICES ASSUME NEW x \in 1..MaxTime, now \in x..(x + Window)
               PROVE  Cardinality(Stamped(reports, u, x, x + Window)) < limit
    BY <1>1 DEF HasRoom
  <2>1. x + Window >= now
    BY <1>3
  <2>2. Cardinality(Stamped(reports, u, x, MaxTime)) < limit
    BY <1>4, <2>1
  <2>3. Stamped(reports, u, x, x + Window) \subseteq Stamped(reports, u, x, MaxTime)
    <3> SUFFICES ASSUME NEW c \in Channels, NEW i \in DOMAIN reports[c],
                        reports[c][i].stamp \in x..(x + Window)
                 PROVE  reports[c][i].stamp \in x..MaxTime
      BY DEF Stamped
    <3>1. reports[c][i].stamp \in 0..MaxTime
      BY ReportAt DEF AllInv, QueueInv, Proper
    <3> QED
      BY <1>3, <3>1
  <2>4. /\ Cardinality(Stamped(reports, u, x, x + Window)) <=
             Cardinality(Stamped(reports, u, x, MaxTime))
        /\ Cardinality(Stamped(reports, u, x, x + Window)) \in Nat
        /\ Cardinality(Stamped(reports, u, x, MaxTime)) \in Nat
    BY <2>3, StampedSize, FS_Subset
  <2> QED
    BY <1>2, <2>2, <2>4
<1>6. KeptCount(h, u)'
  <2>1. \A x \in 1..MaxTime : x + Window >= now =>
          Cardinality(Since(stamps'[u], x)) <= Cardinality(Since(recent'[h].kept, x))
    BY <1>1, <1>4
  <2> QED
    BY <1>1, <2>1 DEF KeptCount, Since
<1>7. CountingInv(h, u)'
  BY <1>1, <1>5, <1>6 DEF CountingInv
<1>8. Counting(h, u)'
  BY <1>1 DEF Counting
<1>9. \A g \in Handlers : Counting(g, u)' => g = h
  BY <1>8 DEF SubmissionsApart
<1>10. StampsCount(u)' /\ WindowsKept(u)'
  BY <1>1 DEF MemberInv, StampsCount, WindowsKept, Since
<1> QED
  BY <1>7, <1>9, <1>10 DEF MemberInv

\* Once the stamp is stored, there is one more stamp than reports in each window it is in.
LEMMA SaveStep ==
    ASSUME AllInv, AllInv', SubmissionsApart', NEW h \in Handlers, SaveStamps(h), NEW u \in Reporters,
           u = request[h].by, MemberInv(u)
    PROVE  MemberInv(u)'
<1> DEFINE s == recent[h].stamp
           kept == recent[h].kept
<1>1. /\ UNCHANGED <<limit, reports, request, recent, now>> /\ stage[h] = "stamps"
      /\ stage'[h] = "stamped" /\ stamps'[u] = Append(kept, s)
  BY DEF SaveStamps, AllInv, Inv, Shape, Types
<1>2. kept \in Times /\ now \in 1..MaxTime /\ s \in 1..MaxTime /\ stamps[u] \in Times
  BY <1>1, StoreAssumption DEF AllInv, Types, StampsInv
<1>3. Counting(h, u) /\ Counting(h, u)'
  BY <1>1 DEF Counting
<1>4. HasRoom(h, u) /\ KeptCount(h, u) /\ StampsCount(u) /\ WindowsKept(u)
  BY <1>1, <1>3 DEF MemberInv, CountingInv
<1> HIDE DEF s, kept
<1>5. ASSUME NEW x \in 1..MaxTime, x + Window >= now
      PROVE  /\ Cardinality(Stamped(reports, u, x, MaxTime)) <= Cardinality(Since(stamps'[u], x))
             /\ s >= x => Cardinality(Stamped(reports, u, x, MaxTime)) < Cardinality(Since(stamps'[u], x))
  <2>1. Cardinality(Stamped(reports, u, x, MaxTime)) <= Cardinality(Since(stamps[u], x))
    BY <1>4, <1>5 DEF StampsCount
  <2>2. Cardinality(Since(stamps[u], x)) <= Cardinality(Since(kept, x))
    BY <1>4, <1>5 DEF KeptCount, kept
  <2>3. Cardinality(Since(stamps'[u], x)) =
          IF s >= x THEN Cardinality(Since(kept, x)) + 1 ELSE Cardinality(Since(kept, x))
    BY <1>1, <1>2, AppendCounts
  <2>4. /\ Cardinality(Stamped(reports, u, x, MaxTime)) \in Nat
        /\ Cardinality(Since(stamps[u], x)) \in Nat
        /\ Cardinality(Since(kept, x)) \in Nat
    BY <1>2, StampedSize, SinceSize
  <2> QED
    BY <2>1, <2>2, <2>3, <2>4
<1>6. StampsCount(u)' /\ WindowsKept(u)'
  BY <1>1, <1>4, <1>5 DEF StampsCount, WindowsKept, Since
<1>7. HasRoom(h, u)' /\ StampPending(h, u)'
  BY <1>1, <1>4, <1>5 DEF HasRoom, StampPending, Since, s
<1>8. CountingInv(h, u)'
  BY <1>1, <1>7 DEF CountingInv
<1>9. \A g \in Handlers : Counting(g, u)' => g = h
  BY <1>3 DEF SubmissionsApart
<1> QED
  BY <1>6, <1>8, <1>9 DEF MemberInv

\* The stored report takes the room that was left for it.
LEMMA FileStep ==
    ASSUME AllInv, AllInv', SubmissionsApart, NEW h \in Handlers, CreateStamped(h), NEW u \in Reporters,
           u = request[h].by, limit \in Nat, MemberInv(u)
    PROVE  MemberInv(u)'
<1> DEFINE s == recent[h].stamp
           r == NewReport(h, s)
<1>1. /\ UNCHANGED <<limit, stamps, now>> /\ stage[h] = "stamped" /\ stage'[h] = "idle"
      /\ SaveNew(h, s) /\ \A g \in Handlers \ {h} : stage'[g] = stage[g] /\ request'[g] = request[g]
  BY DEF CreateStamped, SaveNew, Save, Return, AllInv, Inv, Shape, Types
<1>2. s \in 1..MaxTime /\ s \in 0..MaxTime /\ request[h].op = "create" /\ ~Duplicate(h)
      /\ stamps[u] \in Times /\ now \in 1..MaxTime
  BY <1>1, StoreAssumption DEF AllInv, Types, StampsInv, RequestsInv, Checked
<1>3. /\ request[h].channel \in Channels /\ r \in Report /\ r.id = nextId
      /\ Filed(request[h].channel, r)
  BY <1>1, <1>2, SavesNew DEF AllInv
<1>4. r.by = u /\ r.stamp = s
  BY DEF NewReport
<1>5. Counting(h, u) /\ \A g \in Handlers : ~Counting(g, u)'
  BY <1>1 DEF Counting, SubmissionsApart
<1>6. HasRoom(h, u) /\ StampPending(h, u) /\ StampsCount(u) /\ WindowsKept(u)
  BY <1>1, <1>5 DEF MemberInv, CountingInv
<1> HIDE DEF s, r
<1>7. ASSUME NEW a, NEW b
      PROVE  /\ Stamped(reports', u, a, b) \subseteq Stamped(reports, u, a, b) \cup {r.id}
             /\ s \notin a..b => Stamped(reports', u, a, b) \subseteq Stamped(reports, u, a, b)
  BY <1>3, <1>4, StampedFiled DEF AllInv
<1>8. ASSUME NEW a, NEW b
      PROVE  /\ Cardinality(Stamped(reports', u, a, b)) <= Cardinality(Stamped(reports, u, a, b)) + 1
             /\ s \notin a..b =>
                  Cardinality(Stamped(reports', u, a, b)) <= Cardinality(Stamped(reports, u, a, b))
             /\ Cardinality(Stamped(reports', u, a, b)) \in Nat
             /\ Cardinality(Stamped(reports, u, a, b)) \in Nat
  <2>1. /\ IsFiniteSet(Stamped(reports, u, a, b)) /\ Cardinality(Stamped(reports, u, a, b)) \in Nat
        /\ IsFiniteSet(Stamped(reports', u, a, b)) /\ Cardinality(Stamped(reports', u, a, b)) \in Nat
    BY StampedSize
  <2> DEFINE more == Stamped(reports, u, a, b) \cup {r.id}
  <2>2. IsFiniteSet(more) /\ Cardinality(more) <= Cardinality(Stamped(reports, u, a, b)) + 1
        /\ Cardinality(more) \in Nat
    <3>1. /\ IsFiniteSet(more)
          /\ \/ Cardinality(more) = Cardinality(Stamped(reports, u, a, b))
             \/ Cardinality(more) = Cardinality(Stamped(reports, u, a, b)) + 1
      BY <2>1, FS_AddElement
    <3> QED
      BY <2>1, <3>1
  <2> HIDE DEF more
  <2>3. Cardinality(Stamped(reports', u, a, b)) <= Cardinality(more)
    BY <1>7, <2>2, FS_Subset DEF more
  <2>4. s \notin a..b =>
          Cardinality(Stamped(reports', u, a, b)) <= Cardinality(Stamped(reports, u, a, b))
    BY <1>7, <2>1, FS_Subset
  <2> QED
    BY <2>1, <2>2, <2>3, <2>4
<1>9. \A x \in 1..MaxTime : Cardinality(Since(stamps[u], x)) \in Nat
  BY <1>2, SinceSize
<1>10. StampsCount(u)'
  <2> SUFFICES ASSUME NEW x \in 1..MaxTime, x + Window >= now
               PROVE  Cardinality(Stamped(reports', u, x, MaxTime)) <= Cardinality(Since(stamps[u], x))
    BY <1>1 DEF StampsCount, Since
  <2>1. CASE s >= x
    <3>1. Cardinality(Stamped(reports, u, x, MaxTime)) < Cardinality(Since(stamps[u], x))
      BY <1>6, <2>1 DEF StampPending, s
    <3> QED
      BY <1>8, <1>9, <3>1
  <2>2. CASE ~(s >= x)
    <3>1. s \notin x..MaxTime
      BY <1>2, <2>2
    <3>2. Cardinality(Stamped(reports, u, x, MaxTime)) <= Cardinality(Since(stamps[u], x))
      BY <1>6 DEF StampsCount
    <3> QED
      BY <1>8, <1>9, <3>1, <3>2
  <2> QED
    BY <2>1, <2>2
<1>11. WindowsKept(u)'
  <2> SUFFICES ASSUME NEW x \in 1..MaxTime
               PROVE  Cardinality(Stamped(reports', u, x, x + Window)) <= limit
    BY <1>1 DEF WindowsKept
  <2>1. CASE s \in x..(x + Window)
    <3>1. Cardinality(Stamped(reports, u, x, x + Window)) < limit
      BY <1>6, <2>1 DEF HasRoom, s
    <3> QED
      BY <1>8, <3>1
  <2>2. CASE s \notin x..(x + Window)
    <3>1. Cardinality(Stamped(reports, u, x, x + Window)) <= limit
      BY <1>6 DEF WindowsKept
    <3> QED
      BY <1>8, <2>2, <3>1
  <2> QED
    BY <2>1, <2>2
<1> QED
  BY <1>5, <1>10, <1>11 DEF MemberInv

\* Every other step is a quiet one for the member.
LEMMA OtherSteps ==
    ASSUME AllInv, AllInv', limit > 0, [Next]_vars, NEW u \in Reporters, MemberInv(u),
           \A h \in Handlers : ReadStamps(h) \/ SaveStamps(h) \/ CreateStamped(h) => u # request[h].by
    PROVE  MemberInv(u)'
<1>1. /\ now \in Nat /\ now' \in Nat /\ limit \in Nat /\ stamps[u] \in Times
      /\ recent \in [Handlers -> [kept : Times, stamp : 0..MaxTime]]
  BY BoundsAssumption, StoreAssumption DEF AllInv, Types
<1>2. ASSUME UNCHANGED limit, stamps'[u] = stamps[u], now' >= now,
             \A a, b \in Nat : Stamped(reports', u, a, b) \subseteq Stamped(reports, u, a, b),
             \A g \in Handlers : Counting(g, u)' => /\ stage'[g] = stage[g] /\ Counting(g, u)
                                                    /\ recent'[g] = recent[g]
      PROVE  MemberInv(u)'
  BY <1>1, <1>2, QuietStep
<1>3. ASSUME NEW h \in Handlers, UNCHANGED <<limit, stamps, now>>,
             \A a, b \in Nat : Stamped(reports', u, a, b) \subseteq Stamped(reports, u, a, b),
             ~Counting(h, u)',
             \A g \in Handlers \ {h} : /\ stage'[g] = stage[g] /\ request'[g] = request[g]
                                       /\ recent'[g] = recent[g]
      PROVE  MemberInv(u)'
  BY <1>1, <1>2, <1>3 DEF Counting
<1>4. ASSUME NEW h \in Handlers, Start(h) \/ Lock(h) \/ Refuse(h) \/ CutOff(h) \/ SaveEdited(h)
                                 \/ CreateUnlimited(h) \/ CreateStamped(h)
      PROVE  /\ UNCHANGED <<limit, stamps, now>>
             /\ stage'[h] \notin {"stamps", "stamped"}
             /\ \A g \in Handlers \ {h} : /\ stage'[g] = stage[g] /\ request'[g] = request[g]
                                          /\ recent'[g] = recent[g]
  BY <1>4 DEF Start, StartCreate, StartEdit, DeletePost, Take, Lock, Refuse, CutOff, SaveEdited,
              CreateUnlimited, CreateStamped, SaveNew, Save, Return, AllInv, Inv, Shape, Types
<1>5. ASSUME NEW h \in Handlers, Start(h) \/ Lock(h) \/ Refuse(h) \/ CutOff(h)
      PROVE  MemberInv(u)'
  <2>1. UNCHANGED reports
    BY <1>5 DEF Start, StartCreate, StartEdit, DeletePost, Lock, Refuse, CutOff
  <2> QED
    BY <1>3, <1>4, <1>5, <2>1 DEF Counting
<1>6. ASSUME NEW h \in Handlers, SaveEdited(h)
      PROVE  MemberInv(u)'
  <2> DEFINE c == request[h].channel
  <2>1. c \in Channels /\ seen[h] = reports[c]
    BY <1>6 DEF SaveEdited, AllInv, Inv, Shape, MutexInv, HolderOwns, Holding
  <2>2. EditedQueue(c, request[h])
    BY <1>6, <2>1 DEF SaveEdited, Save, EditedQueue, EditAll
  <2>3. \A a, b \in Nat : Stamped(reports', u, a, b) \subseteq Stamped(reports, u, a, b)
    BY <2>1, <2>2, StampedEdited DEF AllInv
  <2> QED
    BY <1>3, <1>4, <1>6, <2>3 DEF Counting
<1>7. ASSUME NEW h \in Handlers, CreateStamped(h)
      PROVE  MemberInv(u)'
  <2> DEFINE c == request[h].channel
             r == NewReport(h, recent[h].stamp)
  <2>1. /\ stage[h] = "stamped" /\ SaveNew(h, recent[h].stamp) /\ recent[h].stamp \in 0..MaxTime
        /\ request[h].op = "create" /\ ~Duplicate(h)
    BY <1>7 DEF CreateStamped, AllInv, RequestsInv, Checked
  <2>2. c \in Channels /\ r \in Report /\ r.id = nextId /\ Filed(c, r)
    BY <2>1, SavesNew DEF AllInv
  <2>3. r.by # u
    BY <1>7 DEF NewReport
  <2> HIDE DEF c, r
  <2>4. \A a, b \in Nat : Stamped(reports', u, a, b) \subseteq Stamped(reports, u, a, b)
    BY <2>2, <2>3, StampedFiled DEF AllInv
  <2> QED
    BY <1>3, <1>4, <1>7, <2>4 DEF Counting
<1>8. ASSUME NEW h \in Handlers, ReadStamps(h) \/ SaveStamps(h)
      PROVE  MemberInv(u)'
  <2>1. /\ UNCHANGED <<limit, reports, request, now>> /\ request[h].by # u
        /\ \A g \in Handlers \ {h} : stage'[g] = stage[g] /\ recent'[g] = recent[g]
    BY <1>8 DEF ReadStamps, SaveStamps, AllInv, Inv, Shape, Types
  <2>2. stamps'[u] = stamps[u]
    BY <1>8, <2>1 DEF ReadStamps, SaveStamps, AllInv, Types
  <2> QED
    BY <1>1, <1>2, <2>1, <2>2 DEF Counting
<1>9. CASE Tick \/ UNCHANGED vars
  <2>1. UNCHANGED <<limit, reports, stamps, stage, request, recent>> /\ now' >= now
    BY <1>1, <1>9 DEF Tick, vars, local
  <2> QED
    BY <1>2, <2>1 DEF Counting
<1>10. ASSUME NEW h \in Handlers, CreateUnlimited(h)
       PROVE  FALSE
  BY <1>1, <1>10 DEF CreateUnlimited
<1> QED
  BY <1>5, <1>6, <1>7, <1>8, <1>9, <1>10 DEF Next, Proceed

LEMMA RatesInit == Init => RatesInv /\ DistinctIds
<1> SUFFICES ASSUME Init, limit > 0, NEW u \in Reporters
             PROVE  MemberInv(u) /\ DistinctIds
  BY DEF RatesInv, Init, DistinctIds
<1>1. limit \in Nat
  BY BoundsAssumption DEF Init
<1>2. \A a, b : Stamped(reports, u, a, b) = {}
  BY DEF Stamped, Init
<1>3. \A x : Since(stamps[u], x) = {}
  BY DEF Since, Init
<1>4. Cardinality({}) = 0
  BY FS_EmptySet
<1>5. StampsCount(u) /\ WindowsKept(u)
  BY <1>1, <1>2, <1>3, <1>4 DEF StampsCount, WindowsKept
<1>6. \A h \in Handlers : ~Counting(h, u)
  BY DEF Init, Counting
<1> QED
  BY <1>5, <1>6 DEF MemberInv, DistinctIds, Init

LEMMA RatesStep ==
    AllInv /\ AllInv' /\ SubmissionsApart /\ SubmissionsApart' /\ RatesInv /\ [Next]_vars => RatesInv'
<1> SUFFICES ASSUME AllInv, AllInv', SubmissionsApart, SubmissionsApart', RatesInv, [Next]_vars,
                    limit' > 0, NEW u \in Reporters
             PROVE  MemberInv(u)'
  BY DEF RatesInv
<1>1. limit' = limit /\ limit \in Nat
  BY BoundsAssumption
     DEF AllInv, Types, Next, Start, StartCreate, StartEdit, DeletePost, Lock, Proceed,
         CreateUnlimited, ReadStamps, SaveStamps, CreateStamped, SaveEdited, Refuse, CutOff, SaveNew,
         Tick, vars
<1>2. MemberInv(u) /\ limit > 0
  BY <1>1 DEF RatesInv
<1>3. ASSUME NEW h \in Handlers, ReadStamps(h) \/ SaveStamps(h) \/ CreateStamped(h), u = request[h].by
      PROVE  MemberInv(u)'
  BY <1>1, <1>2, <1>3, ReadStep, SaveStep, FileStep
<1> QED
  BY <1>2, <1>3, OtherSteps

\* A new ID is above all those in the queues.
LEMMA IdsStayDistinct ==
    ASSUME AllInv, DistinctIds, [Next]_vars
    PROVE  DistinctIds'
<1>1. ASSUME NEW c \in Channels,
             \A i \in DOMAIN reports'[c] :
                \/ reports'[c][i].id = nextId
                \/ \E j \in DOMAIN reports[c] : reports'[c][i].id = reports[c][j].id,
             \A d \in Channels \ {c} : reports'[d] = reports[d]
      PROVE  DistinctIds'
  <2>1. ASSUME NEW d \in Channels, NEW j \in DOMAIN reports[d]
        PROVE  reports[d][j].id # nextId
    <3>1. reports[d][j].id \in Nat /\ reports[d][j].id < nextId
      BY ReportAt DEF AllInv, QueueInv, Proper
    <3> QED
      BY <3>1
  <2>2. ASSUME NEW d \in Channels \ {c}, NEW i \in DOMAIN reports'[c], NEW j \in DOMAIN reports'[d]
        PROVE  reports'[c][i].id # reports'[d][j].id
    <3>1. j \in DOMAIN reports[d] /\ reports'[d][j] = reports[d][j]
      BY <1>1
    <3> QED
      BY <1>1, <2>1, <3>1 DEF DistinctIds
  <2> SUFFICES ASSUME NEW d \in Channels, NEW e \in Channels, d # e,
                      NEW i \in DOMAIN reports'[d], NEW j \in DOMAIN reports'[e]
               PROVE  reports'[d][i].id # reports'[e][j].id
    BY DEF DistinctIds
  <2>3. CASE d = c
    BY <2>2, <2>3
  <2>4. CASE e = c
    BY <2>2, <2>4
  <2>5. CASE d # c /\ e # c
    BY <1>1, <2>5 DEF DistinctIds
  <2> QED
    BY <2>3, <2>4, <2>5
<1>2. ASSUME NEW c \in Channels, NEW r \in Report, r.id = nextId, Filed(c, r)
      PROVE  DistinctIds'
  <2>1. \A d \in Channels \ {c} : reports'[d] = reports[d]
    BY <1>2 DEF Filed, AllInv, QueueInv
  <2> QED
    BY <1>1, <1>2, <2>1, FiledEntries DEF AllInv
<1>3. ASSUME NEW c \in Channels, NEW q, EditedQueue(c, q)
      PROVE  DistinctIds'
  <2>1. \A d \in Channels \ {c} : reports'[d] = reports[d]
    BY <1>3 DEF EditedQueue, AllInv, QueueInv
  <2> QED
    BY <1>1, <1>3, <2>1, EditedEntries DEF AllInv
<1> QED
  BY <1>2, <1>3, QueueSteps DEF AllInv, DistinctIds

\* The reports the limit counts have as many IDs.
LEMMA RatesCounted ==
    ASSUME AllInv, DistinctIds, RatesInv
    PROVE  RateRespected
<1> SUFFICES ASSUME limit > 0, NEW u \in Reporters, NEW t \in 1..MaxTime
             PROVE  Cardinality(Counted(u, t)) <= limit
  BY DEF RateRespected
<1> DEFINE Ids1 == Stamped(reports, u, t, t + Window)
           f == [r \in Counted(u, t) |-> r.id]
<1>1. Cardinality(Ids1) <= limit /\ Cardinality(Ids1) \in Nat /\ IsFiniteSet(Ids1) /\ limit \in Nat
  BY StampedSize, BoundsAssumption DEF RatesInv, MemberInv, WindowsKept, AllInv, Types
<1>2. ASSUME NEW r \in Counted(u, t)
      PROVE  \E c \in Channels : \E i \in DOMAIN reports[c] :
               r = reports[c][i] /\ r.by = u /\ r.stamp \in t..(t + Window) /\ r.id \in Ids
  <2>1. PICK c \in Channels : r \in InQueue(c)
    BY DEF Counted
  <2>2. PICK i \in DOMAIN reports[c] : r = reports[c][i]
    BY <2>1 DEF InQueue
  <2>3. r \in Report
    BY <2>2, ReportAt DEF AllInv, QueueInv, Proper
  <2> QED
    BY <2>2, <2>3 DEF Counted, Report
<1>3. \A r \in Counted(u, t) : r.id \in Ids1
  BY <1>2 DEF Stamped
<1>4. ASSUME NEW r \in Counted(u, t), NEW r2 \in Counted(u, t), r.id = r2.id
      PROVE  r = r2
  <2> PICK c \in Channels : \E i \in DOMAIN reports[c] : r = reports[c][i]
    BY <1>2
  <2>1. PICK i \in DOMAIN reports[c] : r = reports[c][i]
    OBVIOUS
  <2> PICK d \in Channels : \E j \in DOMAIN reports[d] : r2 = reports[d][j]
    BY <1>2
  <2>2. PICK j \in DOMAIN reports[d] : r2 = reports[d][j]
    OBVIOUS
  <2>3. c = d
    BY <1>4, <2>1, <2>2 DEF DistinctIds
  <2>4. reports[c] \in Seq(Report) /\ Sorted(reports[c])
    BY DEF AllInv, QueueInv, Proper
  <2>5. i \in Nat /\ j \in Nat /\ r.id \in Nat
    BY <2>1, <2>2, <2>3, <2>4, ReportAt, SeqDomain
  <2>6. ~(i < j) /\ ~(j < i)
    BY <1>4, <2>1, <2>2, <2>3, <2>4, <2>5 DEF Sorted
  <2> QED
    BY <2>1, <2>2, <2>3, <2>5, <2>6
<1> HIDE DEF Ids1
<1>5. f \in Injection(Counted(u, t), Ids1)
  BY <1>3, <1>4 DEF Injection, IsInjective
<1>6. IsFiniteSet(Counted(u, t)) /\ Cardinality(Counted(u, t)) <= Cardinality(Ids1)
  BY <1>1, <1>5, FS_Injection
<1> QED
  BY <1>1, <1>6, FS_CardinalityType

\* For any limit, window, clock and handlers: as long as no member has two submissions between
\* the read of the stamps and the store of the report at a time, no window of the configured length
\* ever holds more than limit reports of one member, however requests fail or are cut off.
THEOREM RateLimited == Spec /\ []SubmissionsApart => []RateRespected
<1>1. AllInv /\ DistinctIds /\ RatesInv => RateRespected
  BY RatesCounted
<1>2. AllInv /\ DistinctIds /\ [Next]_vars => DistinctIds'
  BY IdsStayDistinct
<1> QED
  BY <1>1, <1>2, AllInit, AllStep, RatesInit, RatesStep, PTL DEF Spec
==============================================================================
