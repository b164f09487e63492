------------------------------ MODULE PanelProofs ------------------------------
(***************************************************************************)
(* Proofs about Panel: how many calls can be under way, for any number of  *)
(* changes, any bound on what starts another thing, and any faults.        *)
(***************************************************************************)
EXTENDS Panel, SequenceTheorems, FiniteSetTheorems, TLAPS

------------------------------------------------------------------------------
(* What a call costs: itself, and one more if a second call may follow it  *)
(* that a third may follow.                                                *)

Weight(c) == IF c.kind \in {"status", "act"} THEN 2 ELSE 1
Heavy(s) == {i \in 1..Len(s) : Weight(s[i]) = 2}
Cost(s) == Len(s) + Cardinality(Heavy(s))

LEMMA HeavyFinite ==
    ASSUME NEW S, NEW s \in Seq(S)
    PROVE  /\ Len(s) \in Nat
           /\ IsFiniteSet(Heavy(s)) /\ Cardinality(Heavy(s)) \in Nat
           /\ Cardinality(Heavy(s)) <= Len(s)
<1>1. Len(s) \in Nat
  BY LenProperties
<1>2. IsFiniteSet(1..Len(s)) /\ Cardinality(1..Len(s)) = Len(s)
  BY <1>1, FS_Interval
<1>3. Heavy(s) \in SUBSET (1..Len(s))
  BY DEF Heavy
<1> QED
  BY <1>1, <1>2, <1>3, FS_Subset, FS_CardinalityType

\* Between one and two per call.
LEMMA CostBounds ==
    ASSUME NEW S, NEW s \in Seq(S)
    PROVE  Cost(s) \in Nat /\ Len(s) <= Cost(s) /\ Cost(s) <= 2 * Len(s)
BY HeavyFinite DEF Cost

LEMMA CostEmpty == Cost(<<>>) = 0
<1>1. Heavy(<<>>) = {}
  BY DEF Heavy
<1> QED
  BY <1>1, FS_EmptySet DEF Cost

LEMMA CostOne ==
    ASSUME NEW S, NEW c \in S
    PROVE  <<c>> \in Seq(S) /\ Cost(<<c>>) = Weight(c)
<1>1. Len(<<c>>) = 1 /\ <<c>>[1] = c
  OBVIOUS
<1>2. Heavy(<<c>>) = IF Weight(c) = 2 THEN {1} ELSE {}
  BY <1>1 DEF Heavy
<1>3. Cardinality(Heavy(<<c>>)) = IF Weight(c) = 2 THEN 1 ELSE 0
  BY <1>2, FS_Singleton, FS_EmptySet
<1>4. Weight(c) \in {1, 2}
  BY DEF Weight
<1> QED
  BY <1>1, <1>3, <1>4 DEF Cost

LEMMA CostConcat ==
    ASSUME NEW S, NEW s \in Seq(S), NEW t \in Seq(S)
    PROVE  s \o t \in Seq(S) /\ Cost(s \o t) = Cost(s) + Cost(t)
<1> DEFINE n == Len(s)
           Later == {j \in n + 1 .. n + Len(t) : Weight(t[j - n]) = 2}
           shift == [j \in Heavy(t) |-> j + n]
<1>1. n \in Nat /\ Len(t) \in Nat
  BY HeavyFinite
<1>2. /\ s \o t \in Seq(S)
      /\ Len(s \o t) = n + Len(t)
      /\ \A i \in 1..n + Len(t) : (s \o t)[i] = IF i <= n THEN s[i] ELSE t[i - n]
  BY ConcatProperties
<1>3. Heavy(s \o t) = Heavy(s) \cup Later
  BY <1>1, <1>2 DEF Heavy
<1>4. Heavy(s) \cap Later = {}
  BY <1>1 DEF Heavy
<1>5. ExistsBijection(Heavy(t), Later)
  <2>1. shift \in [Heavy(t) -> Later]
    BY <1>1 DEF Heavy
  <2>2. \A i, j \in Heavy(t) : shift[i] = shift[j] => i = j
    BY <1>1 DEF Heavy
  <2>3. \A k \in Later : k - n \in Heavy(t) /\ shift[k - n] = k
    BY <1>1 DEF Heavy
  <2> HIDE DEF shift, Later
  <2>4. shift \in Injection(Heavy(t), Later)
    BY <2>1, <2>2 DEF Injection, IsInjective
  <2>5. shift \in Surjection(Heavy(t), Later)
    BY <2>1, <2>3 DEF Surjection
  <2> QED
    BY <2>4, <2>5 DEF ExistsBijection, Bijection
<1>6. IsFiniteSet(Later) /\ Cardinality(Later) = Cardinality(Heavy(t))
  BY <1>5, HeavyFinite, FS_Bijection
<1>7. Cardinality(Heavy(s) \cup Later) = Cardinality(Heavy(s)) + Cardinality(Later)
  <2>1. Cardinality(Heavy(s) \cap Later) = 0
    BY <1>4, FS_EmptySet
  <2>2. Cardinality(Heavy(s)) \in Nat /\ Cardinality(Later) \in Nat
    BY <1>6, HeavyFinite
  <2>3. IsFiniteSet(Heavy(s)) /\ IsFiniteSet(Later)
    BY <1>6, HeavyFinite
  <2> HIDE DEF Later
  <2>4. Cardinality(Heavy(s) \cup Later) =
          Cardinality(Heavy(s)) + Cardinality(Later) - Cardinality(Heavy(s) \cap Later)
    BY <2>3, FS_Union
  <2> QED
    BY <2>1, <2>2, <2>4
<1> QED
  BY <1>1, <1>2, <1>3, <1>6, <1>7, HeavyFinite DEF Cost

LEMMA CostRemove ==
    ASSUME NEW S, NEW s \in Seq(S), NEW i \in DOMAIN s
    PROVE  RemoveAt(s, i) \in Seq(S) /\ Cost(RemoveAt(s, i)) = Cost(s) - Weight(s[i])
<1> DEFINE a == SubSeq(s, 1, i - 1)
           b == SubSeq(s, i + 1, Len(s))
<1>1. Len(s) \in Nat /\ i \in 1..Len(s) /\ DOMAIN s = 1..Len(s) /\ s[i] \in S
      /\ \A j \in 1..Len(s) : s[j] \in S
  BY LenProperties
<1>2. a \in Seq(S) /\ b \in Seq(S)
  <2>1. \A j \in 1..i - 1 : s[j] \in S
    BY <1>1
  <2>2. \A j \in i + 1 .. Len(s) : s[j] \in S
    BY <1>1
  <2>3. 1 \in Int /\ i - 1 \in Int /\ i + 1 \in Int /\ Len(s) \in Int
    BY <1>1
  <2>4. a \in Seq(S)
    BY <2>1, <2>3, SubSeqProperties
  <2>5. b \in Seq(S)
    BY <2>2, <2>3, SubSeqProperties
  <2> QED
    BY <2>4, <2>5
<1>3. s = a \o (<<s[i]>> \o b)
  <2>1. SubSeq(s, i, Len(s)) = <<s[i]>> \o b
    <3>1. i \in 1..Len(s) /\ Len(s) \in i..Len(s)
      BY <1>1
    <3> QED
      BY <3>1, SubSeqRecursiveFirst
  <2>2. a \o SubSeq(s, i, Len(s)) = SubSeq(s, 1, Len(s))
    <3>1. 1 \in 1..Len(s) + 1 /\ i - 1 \in 1 - 1 .. Len(s) /\ Len(s) \in i - 1 .. Len(s)
          /\ (i - 1) + 1 = i
      BY <1>1
    <3> QED
      BY <3>1, ConcatAdjacentSubSeq
  <2> QED
    BY <2>1, <2>2, SubSeqFull
<1> HIDE DEF a, b
<1>4. <<s[i]>> \in Seq(S) /\ Cost(<<s[i]>>) = Weight(s[i])
  BY <1>1, CostOne
<1>5. <<s[i]>> \o b \in Seq(S) /\ Cost(<<s[i]>> \o b) = Weight(s[i]) + Cost(b)
  BY <1>2, <1>4, CostConcat
<1>6. Cost(a \o (<<s[i]>> \o b)) = Cost(a) + (Weight(s[i]) + Cost(b))
  <2>1. Cost(a \o (<<s[i]>> \o b)) = Cost(a) + Cost(<<s[i]>> \o b)
    BY <1>2, <1>5, CostConcat
  <2> QED
    BY <2>1, <1>5
<1>7. a \o b \in Seq(S) /\ Cost(a \o b) = Cost(a) + Cost(b)
  BY <1>2, CostConcat
<1>8. Cost(a) \in Nat /\ Cost(b) \in Nat /\ Weight(s[i]) \in Nat
  BY <1>2, CostBounds DEF Weight
<1>9. RemoveAt(s, i) = a \o b
  BY DEF RemoveAt, a, b
<1>10. Cost(s) = Cost(a) + (Weight(s[i]) + Cost(b))
  BY <1>3, <1>6
<1> QED
  BY <1>7, <1>8, <1>9, <1>10

LEMMA CostExcept ==
    ASSUME NEW S, NEW s \in Seq(S), NEW i \in DOMAIN s, NEW c \in S, Weight(c) = Weight(s[i])
    PROVE  /\ [s EXCEPT ![i] = c] \in Seq(S)
           /\ Cost([s EXCEPT ![i] = c]) = Cost(s)
<1> DEFINE t == [s EXCEPT ![i] = c]
<1>1. i \in 1..Len(s)
  BY LenProperties
<1>2. t \in Seq(S) /\ Len(t) = Len(s) /\ \A j \in 1..Len(s) : t[j] = IF j = i THEN c ELSE s[j]
  BY <1>1, ExceptSeq
<1>3. Heavy(t) = Heavy(s)
  BY <1>2 DEF Heavy
<1> QED
  BY <1>2, <1>3 DEF Cost

------------------------------------------------------------------------------
(* The inductive invariant.  A chain of calls is started for a role, and    *)
(* whoever administers the channel does so throughout: an admin's chain     *)
(* finds the effects run already, a moderator's is not followed by the      *)
(* members.  So what arrives makes room for what follows it.                *)

\* The calls there can be for a viewer who is an admin or not, while the
\* status shown is seen.
Good(admin, seen) ==
    {c \in Calls :
        /\ c.was = "admin" => seen = "admin"
        /\ c.was = "moderator" => ~admin
        /\ c.kind = "status" /\ c.stage = "answered" => (c.answer.tier = "admin" <=> admin)}

Seen == shown["status"].tier

StateInv ==
    /\ server \in Contents /\ Age(server) <= MaxChanges
    /\ connected \in BOOLEAN
    /\ events \in Nat /\ events <= Age(server)
    /\ ~connected => events = 0
    /\ shown \in [Lists -> Contents]
    /\ Seen = "admin" => IsAdmin(server)
    /\ Seen = "moderator" => ~IsAdmin(server)
    /\ loaded \in BOOLEAN
    /\ viewing \in BOOLEAN /\ open \in BOOLEAN /\ tab \in {"reports", "members"}

CallsInv ==
    /\ calls \in Seq(Good(IsAdmin(server), Seen))
    /\ Cost(calls) <= 2 * MaxCalls + 2

IInv == StateInv /\ CallsInv

LEMMA BlankType == Blank \in Contents
BY BoundsAssumption DEF Blank, Contents, Tiers

LEMMA ContentsParts ==
    ASSUME NEW s \in Contents
    PROVE  s.tier \in Tiers /\ s.queue \in Nat /\ s.members \in Nat /\ Age(s) \in Nat
BY BoundsAssumption DEF Contents, Age

LEMMA GoodMeansTyped ==
    ASSUME NEW a \in BOOLEAN, NEW seen, NEW s \in Seq(Good(a, seen))
    PROVE  s \in Seq(Calls)
<1>1. Good(a, seen) \subseteq Calls
  BY DEF Good
<1> QED
  BY <1>1, SeqMonotonic

LEMMA InvariantImpliesType == IInv => TypeOK
<1> SUFFICES ASSUME IInv PROVE TypeOK
  OBVIOUS
<1>1. events \in 0..MaxChanges
  <2>1. Age(server) \in Nat
    BY ContentsParts DEF IInv, StateInv
  <2> QED
    BY <2>1, BoundsAssumption DEF IInv, StateInv
<1>2. IsAdmin(server) \in BOOLEAN
  BY DEF IsAdmin
<1>3. calls \in Seq(Calls)
  BY <1>2, GoodMeansTyped DEF IInv, CallsInv
<1>4. Len(calls) <= 2 * MaxCalls + 2
  <2>1. Len(calls) \in Nat /\ Cost(calls) \in Nat /\ Len(calls) <= Cost(calls)
    BY <1>3, HeavyFinite, CostBounds
  <2> QED
    BY <2>1, BoundsAssumption DEF IInv, CallsInv
<1> QED
  BY <1>1, <1>3, <1>4 DEF IInv, StateInv, TypeOK

------------------------------------------------------------------------------
(* The calls that are sent.                                                *)

LEMMA CallSent ==
    ASSUME NEW a \in BOOLEAN, NEW seen, NEW k \in Lists \cup {"act"}, NEW was \in Tiers,
           was = "admin" => seen = "admin", was = "moderator" => ~a
    PROVE  Call(k, was) \in Good(a, seen)
BY BlankType DEF Call, Good, Calls

LEMMA FetchSent ==
    ASSUME NEW a \in BOOLEAN, NEW seen, NEW k \in Lists \cup {"act"}
    PROVE  /\ <<Fetch(k)>> \in Seq(Good(a, seen))
           /\ Cost(<<Fetch(k)>>) = IF k \in {"status", "act"} THEN 2 ELSE 1
<1>1. Fetch(k) \in Good(a, seen)
  BY CallSent DEF Fetch, Tiers
<1>2. Weight(Fetch(k)) = IF k \in {"status", "act"} THEN 2 ELSE 1
  BY DEF Weight, Fetch, Call
<1> QED
  BY <1>1, <1>2, CostOne

\* The fetches of the side panel, by which of the two there are.
EffectsOf(a, b) ==
    (IF a THEN <<Fetch("reports")>> ELSE <<>>) \o (IF b THEN <<Fetch("members")>> ELSE <<>>)

LEMMA EffectsAre == Effects = EffectsOf(WantsReports' /\ ~WantsReports,
                                        WantsMembers' /\ ~WantsMembers)
BY DEF Effects, EffectsOf

LEMMA EffectsSent ==
    ASSUME NEW a \in BOOLEAN, NEW seen, NEW p \in BOOLEAN, NEW q \in BOOLEAN
    PROVE  /\ EffectsOf(p, q) \in Seq(Good(a, seen))
           /\ Cost(EffectsOf(p, q)) = (IF p THEN 1 ELSE 0) + (IF q THEN 1 ELSE 0)
<1> DEFINE P == IF p THEN <<Fetch("reports")>> ELSE <<>>
           Q == IF q THEN <<Fetch("members")>> ELSE <<>>
<1>1. P \in Seq(Good(a, seen)) /\ Cost(P) = IF p THEN 1 ELSE 0
  <2>1. CASE p
    <3>1. P = <<Fetch("reports")>>
      BY <2>1
    <3> QED
      BY <2>1, <3>1, FetchSent DEF Lists
  <2>2. CASE ~p
    <3>1. P = <<>>
      BY <2>2
    <3> QED
      BY <2>2, <3>1, CostEmpty, EmptySeq
  <2> QED
    BY <2>1, <2>2
<1>2. Q \in Seq(Good(a, seen)) /\ Cost(Q) = IF q THEN 1 ELSE 0
  <2>1. CASE q
    <3>1. Q = <<Fetch("members")>>
      BY <2>1
    <3> QED
      BY <2>1, <3>1, FetchSent DEF Lists
  <2>2. CASE ~q
    <3>1. Q = <<>>
      BY <2>2
    <3> QED
      BY <2>2, <3>1, CostEmpty, EmptySeq
  <2> QED
    BY <2>1, <2>2
<1>3. EffectsOf(p, q) = P \o Q
  BY DEF EffectsOf
<1> HIDE DEF P, Q
<1>4. P \o Q \in Seq(Good(a, seen)) /\ Cost(P \o Q) = Cost(P) + Cost(Q)
  BY <1>1, <1>2, CostConcat
<1> QED
  BY <1>1, <1>2, <1>3, <1>4

\* The refresh at the head of a chain.
LEMMA RefreshSent ==
    ASSUME StateInv
    PROVE  /\ <<Refresh>> \in Seq(Good(IsAdmin(server), Seen))
           /\ Cost(<<Refresh>>) = 2
<1>1. IsAdmin(server) \in BOOLEAN /\ Seen \in Tiers
  BY ContentsParts DEF StateInv, IsAdmin, Seen, Lists
<1>2. Refresh = Call("status", Seen)
  BY DEF Refresh, Seen
<1>3. Refresh \in Good(IsAdmin(server), Seen)
  BY <1>1, <1>2, CallSent DEF StateInv, Lists
<1>4. Weight(Refresh) = 2
  BY <1>2 DEF Weight, Call
<1> QED
  BY <1>3, <1>4, CostOne

\* With room for it, up to two things may start, each at two.
LEMMA RoomForFour ==
    ASSUME IInv, Room, NEW t \in Seq(Good(IsAdmin(server), Seen)), Cost(t) <= 4
    PROVE  /\ calls \o t \in Seq(Good(IsAdmin(server), Seen))
           /\ Cost(calls \o t) <= 2 * MaxCalls + 2
<1>1. calls \in Seq(Good(IsAdmin(server), Seen))
  BY DEF IInv, CallsInv
<1>2. calls \o t \in Seq(Good(IsAdmin(server), Seen))
      /\ Cost(calls \o t) = Cost(calls) + Cost(t)
  BY <1>1, CostConcat
<1>3. Len(calls) \in Nat /\ Cost(calls) \in Nat /\ Cost(t) \in Nat
      /\ Cost(calls) <= 2 * Len(calls)
  BY <1>1, HeavyFinite, CostBounds
<1>4. Len(calls) + 1 <= MaxCalls
  BY <1>3, BoundsAssumption DEF Room
<1> QED
  BY <1>2, <1>3, <1>4, BoundsAssumption

------------------------------------------------------------------------------
(* The steps.                                                              *)

LEMMA InitSatisfies == Init => IInv
<1> SUFFICES ASSUME Init PROVE IInv
  OBVIOUS
<1>1. PICK t \in Tiers : server = [Blank EXCEPT !.tier = t]
  BY DEF Init
<1>2. server \in Contents /\ Age(server) = 0
  BY <1>1, BlankType DEF Contents, Age, Blank
<1>3. shown \in [Lists -> Contents] /\ Seen = "member"
  BY BlankType DEF Init, Seen, Lists, Blank
<1>4. StateInv
  <2>1. Age(server) <= MaxChanges /\ events \in Nat /\ events <= Age(server) /\ events = 0
    BY <1>2, BoundsAssumption DEF Init
  <2> QED
    BY <1>2, <1>3, <2>1 DEF Init, StateInv
<1>5. IsAdmin(server) \in BOOLEAN
  BY DEF IsAdmin
<1>6. calls \in Seq(Good(IsAdmin(server), Seen)) /\ Cost(calls) = 2
  BY <1>5, FetchSent DEF Init, Lists
<1> QED
  BY <1>4, <1>6, BoundsAssumption DEF IInv, CallsInv

LEMMA ChangeKeeps ==
    ASSUME IInv, Change
    PROVE  /\ server' \in Contents /\ Age(server') <= MaxChanges
           /\ IsAdmin(server') = IsAdmin(server)
           /\ connected' \in BOOLEAN
           /\ events' \in Nat /\ events' <= Age(server')
           /\ ~connected' => events' = 0
<1>1. server \in Contents /\ connected \in BOOLEAN /\ events \in Nat /\ events <= Age(server)
      /\ (~connected => events = 0)
  BY DEF IInv, StateInv
<1>2. server.tier \in Tiers /\ server.queue \in Nat /\ server.members \in Nat
      /\ Age(server) \in Nat /\ Age(server) < MaxChanges
  BY <1>1, ContentsParts DEF Change
<1> DEFINE queued == [server EXCEPT !.queue = @ + 1]
           roster == [server EXCEPT !.members = @ + 1]
           other == [roster EXCEPT !.tier = IF @ = "member" THEN "moderator" ELSE "member"]
<1>3. server' \in {queued, roster} \/ (~IsAdmin(server) /\ server' = other)
  BY DEF Change, Changes
<1>4. server' \in Contents /\ Age(server') = Age(server) + 1
  <2>1. server.queue + 1 \in 0..MaxChanges /\ server.members + 1 \in 0..MaxChanges
    BY <1>2, BoundsAssumption DEF Age
  <2>2. queued \in Contents /\ Age(queued) = Age(server) + 1
    BY <1>1, <1>2, <2>1 DEF Contents, Age
  <2>3. roster \in Contents /\ Age(roster) = Age(server) + 1
    BY <1>1, <1>2, <2>1 DEF Contents, Age
  <2>4. other \in Contents /\ Age(other) = Age(roster)
    BY <2>3 DEF Contents, Age, Tiers
  <2> HIDE DEF queued, roster, other
  <2> QED
    BY <1>3, <2>2, <2>3, <2>4
<1>6. IsAdmin(server') = IsAdmin(server)
  BY <1>1, <1>3 DEF Contents, IsAdmin
<1>7. /\ connected' = connected
      /\ events' = IF connected THEN events + 1 ELSE events
  BY DEF Change
<1> QED
  BY <1>1, <1>2, <1>4, <1>6, <1>7, BoundsAssumption

\* What the channel's change does to the calls under way: nothing.
LEMMA ChangeElsewhereKeeps ==
    ASSUME IInv, ChangeElsewhere
    PROVE  IInv'
<1>1. UNCHANGED <<calls, shown, loaded, view>> /\ Change
  BY DEF ChangeElsewhere
<1>2. StateInv'
  BY <1>1, ChangeKeeps DEF IInv, StateInv, Seen, view
<1>3. CallsInv'
  BY <1>1, ChangeKeeps DEF IInv, CallsInv, Seen
<1> QED
  BY <1>2, <1>3 DEF IInv

\* A step that leaves the server and what was received alone and sends calls
\* for which there is room.
LEMMA StartKeeps ==
    ASSUME IInv, Room, UNCHANGED <<server, shown, loaded>>,
           connected' \in BOOLEAN, events' \in Nat, events' <= events, ~connected' => events' = 0,
           viewing' \in BOOLEAN, open' \in BOOLEAN, tab' \in {"reports", "members"},
           NEW t \in Seq(Good(IsAdmin(server), Seen)), Cost(t) <= 4, calls' = calls \o t
    PROVE  IInv'
<1>1. Age(server) \in Nat
  BY ContentsParts DEF IInv, StateInv
<1>2. events' <= Age(server)
  BY <1>1 DEF IInv, StateInv
<1>3. StateInv'
  BY <1>2 DEF IInv, StateInv, Seen
<1>4. CallsInv'
  BY RoomForFour DEF CallsInv, Seen
<1> QED
  BY <1>3, <1>4 DEF IInv

\* The same when the side panel's effects come last, after at most one fetch.
LEMMA StartWithEffects ==
    ASSUME IInv, Room, UNCHANGED <<server, socket, shown, loaded>>,
           viewing' \in BOOLEAN, open' \in BOOLEAN, tab' \in {"reports", "members"},
           NEW t \in Seq(Good(IsAdmin(server), Seen)), Cost(t) <= 2,
           calls' = calls \o t \o Effects
    PROVE  IInv'
<1> DEFINE G == Good(IsAdmin(server), Seen)
<1>1. PICK p, q \in BOOLEAN : Effects = EffectsOf(p, q)
  <2>1. (WantsReports' /\ ~WantsReports) \in BOOLEAN /\ (WantsMembers' /\ ~WantsMembers) \in BOOLEAN
    OBVIOUS
  <2> QED
    BY <2>1, EffectsAre
<1>2. IsAdmin(server) \in BOOLEAN
  BY DEF IsAdmin
<1>3. EffectsOf(p, q) \in Seq(G) /\ Cost(EffectsOf(p, q)) <= 2
  <2>1. /\ EffectsOf(p, q) \in Seq(G)
        /\ Cost(EffectsOf(p, q)) = (IF p THEN 1 ELSE 0) + (IF q THEN 1 ELSE 0)
    BY <1>2, EffectsSent
  <2>2. (IF p THEN 1 ELSE 0) \in {0, 1} /\ (IF q THEN 1 ELSE 0) \in {0, 1}
    OBVIOUS
  <2> QED
    BY <2>1, <2>2
<1>4. calls \in Seq(G)
  BY DEF IInv, CallsInv
<1> DEFINE e == EffectsOf(p, q)
<1>5. calls' = (calls \o t) \o e
  BY <1>1
<1> HIDE DEF e
<1>6. e \in Seq(G) /\ Cost(e) <= 2
  BY <1>3 DEF e
<1>7. (calls \o t) \o e = calls \o (t \o e)
  BY <1>4, <1>6, ConcatAssociative
<1>8. t \o e \in Seq(G) /\ Cost(t \o e) <= 4
  <2>1. Cost(t) \in Nat /\ Cost(e) \in Nat /\ Cost(t \o e) = Cost(t) + Cost(e)
    BY <1>6, CostBounds, CostConcat
  <2>2. t \o e \in Seq(G)
    BY <1>6, CostConcat
  <2> QED
    BY <1>6, <2>1, <2>2
<1>9. /\ UNCHANGED <<server, shown, loaded>>
      /\ connected' \in BOOLEAN /\ (~connected' => events' = 0)
      /\ events' \in Nat /\ events' <= events
  BY DEF IInv, StateInv, socket
<1> DEFINE u == t \o e
<1>10. calls' = calls \o u
  BY <1>5, <1>7
<1>11. u \in Seq(Good(IsAdmin(server), Seen)) /\ Cost(u) <= 4
  BY <1>8
<1> HIDE DEF u
<1> QED
  BY <1>9, <1>10, <1>11, StartKeeps

LEMMA NothingSent == <<>> \in Seq(Good(IsAdmin(server), Seen)) /\ Cost(<<>>) = 0
BY EmptySeq, CostEmpty

LEMMA EffectsAlone ==
    ASSUME IInv, Room, UNCHANGED <<server, socket, shown, loaded>>,
           viewing' \in BOOLEAN, open' \in BOOLEAN, tab' \in {"reports", "members"},
           calls' = calls \o Effects
    PROVE  IInv'
<1>1. calls \o <<>> = calls
  BY ConcatEmptySeq DEF IInv, CallsInv
<1>2. calls' = calls \o <<>> \o Effects
  BY <1>1
<1>3. <<>> \in Seq(Good(IsAdmin(server), Seen)) /\ Cost(<<>>) <= 2
  BY NothingSent
<1> QED
  BY <1>2, <1>3, StartWithEffects

LEMMA TogglePanelKeeps ==
    ASSUME IInv, TogglePanel
    PROVE  IInv'
<1>1. viewing' \in BOOLEAN /\ open' \in BOOLEAN /\ tab' \in {"reports", "members"}
  BY DEF IInv, StateInv, TogglePanel
<1> QED
  BY <1>1, EffectsAlone DEF TogglePanel

LEMMA ChooseTabKeeps ==
    ASSUME IInv, NEW t \in {"reports", "members"}, ChooseTab(t)
    PROVE  IInv'
<1>1. viewing' \in BOOLEAN /\ open' \in BOOLEAN /\ tab' \in {"reports", "members"}
  BY DEF IInv, StateInv, ChooseTab
<1> QED
  BY <1>1, EffectsAlone DEF ChooseTab

LEMMA SwitchChannelKeeps ==
    ASSUME IInv, SwitchChannel
    PROVE  IInv'
<1> DEFINE t == IF viewing' THEN <<Fetch("status")>> ELSE <<>>
<1>1. viewing' \in BOOLEAN /\ open' \in BOOLEAN /\ tab' \in {"reports", "members"}
  BY DEF IInv, StateInv, SwitchChannel
<1>2. PICK b \in BOOLEAN : viewing' = b
  BY <1>1
<1>3. t \in Seq(Good(IsAdmin(server), Seen)) /\ Cost(t) <= 2
  <2>1. IsAdmin(server) \in BOOLEAN
    BY DEF IsAdmin
  <2>2. CASE t = <<>>
    BY <2>2, NothingSent
  <2>3. CASE t = <<Fetch("status")>>
    BY <2>1, <2>3, FetchSent DEF Lists
  <2> QED
    BY <2>2, <2>3
<1>4. calls' = calls \o t \o Effects /\ Room /\ UNCHANGED <<server, socket, shown, loaded>>
  BY DEF SwitchChannel
<1> HIDE DEF t
<1> QED
  BY <1>1, <1>3, <1>4, StartWithEffects

LEMMA ActKeeps ==
    ASSUME IInv, Act
    PROVE  IInv'
<1>1. IsAdmin(server) \in BOOLEAN
  BY DEF IsAdmin
<1>2. Fetch("act") \in Good(IsAdmin(server), Seen)
  BY <1>1, CallSent DEF Fetch, Tiers
<1>3. <<Fetch("act")>> \in Seq(Good(IsAdmin(server), Seen)) /\ Cost(<<Fetch("act")>>) <= 4
  BY <1>1, FetchSent
<1>4. calls' = calls \o <<Fetch("act")>>
  BY <1>2, AppendIsConcat DEF Act, IInv, CallsInv
<1>5. /\ connected' \in BOOLEAN /\ (~connected' => events' = 0)
      /\ events' \in Nat /\ events' <= events
  BY DEF Act, IInv, StateInv, socket
<1>6. viewing' \in BOOLEAN /\ open' \in BOOLEAN /\ tab' \in {"reports", "members"}
  BY DEF Act, IInv, StateInv, view
<1> QED
  BY <1>3, <1>4, <1>5, <1>6, StartKeeps DEF Act

LEMMA DeliverKeeps ==
    ASSUME IInv, Deliver
    PROVE  IInv'
<1>1. <<Refresh>> \in Seq(Good(IsAdmin(server), Seen)) /\ Cost(<<Refresh>>) <= 4
  BY RefreshSent DEF IInv
<1>2. Refresh \in Good(IsAdmin(server), Seen)
  BY <1>1, ElementOfSeq
<1>3. calls' = calls \o <<Refresh>>
  BY <1>2, AppendIsConcat DEF Deliver, IInv, CallsInv
<1>4. /\ connected' \in BOOLEAN /\ (~connected' => events' = 0)
      /\ events' \in Nat /\ events' <= events
  BY DEF Deliver, IInv, StateInv
<1>5. viewing' \in BOOLEAN /\ open' \in BOOLEAN /\ tab' \in {"reports", "members"}
  BY DEF Deliver, IInv, StateInv, view
<1> QED
  BY <1>1, <1>3, <1>4, <1>5, StartKeeps DEF Deliver

LEMMA ReconnectKeeps ==
    ASSUME IInv, Reconnect
    PROVE  IInv'
<1>1. OnReconnect \in Seq(Good(IsAdmin(server), Seen)) /\ Cost(OnReconnect) <= 4
  <2>1. IsAdmin(server) \in BOOLEAN
    BY DEF IsAdmin
  <2>2. CASE OnReconnect = <<>>
    BY <2>2, NothingSent
  <2>3. CASE OnReconnect = <<Fetch("status")>>
    BY <2>1, <2>3, FetchSent DEF Lists
  <2> QED
    BY <2>2, <2>3 DEF OnReconnect
<1>2. /\ connected' \in BOOLEAN /\ (~connected' => events' = 0)
      /\ events' \in Nat /\ events' <= events
  BY DEF Reconnect, IInv, StateInv
<1>3. viewing' \in BOOLEAN /\ open' \in BOOLEAN /\ tab' \in {"reports", "members"}
  BY DEF Reconnect, IInv, StateInv, view
<1> QED
  BY <1>1, <1>2, <1>3, StartKeeps DEF Reconnect

LEMMA DisconnectKeeps ==
    ASSUME IInv, Disconnect
    PROVE  IInv'
<1>1. Age(server) \in Nat
  BY ContentsParts DEF IInv, StateInv
<1>2. events' = 0 /\ connected' = FALSE /\ UNCHANGED <<server, calls, shown, loaded, view>>
  BY DEF Disconnect
<1>3. StateInv'
  <2>1. events' \in Nat /\ events' <= Age(server') /\ events' = 0
    BY <1>1, <1>2
  <2> QED
    BY <1>2, <2>1 DEF IInv, StateInv, Seen, view
<1>4. CallsInv'
  BY <1>2 DEF IInv, CallsInv, Seen
<1> QED
  BY <1>3, <1>4 DEF IInv

------------------------------------------------------------------------------
(* The answers.                                                            *)

\* An answer costs nothing.  The status that is sent names an admin exactly
\* if the viewer is one.
LEMMA RespondKeeps ==
    ASSUME IInv, NEW i, NEW stage \in {"answered", "failed"}, NEW answer \in Contents,
           Respond(i, stage, answer), IsAdmin(server') = IsAdmin(server),
           calls[i].kind = "status" /\ stage = "answered"
               => (answer.tier = "admin" <=> IsAdmin(server))
    PROVE  CallsInv'
<1> DEFINE G == Good(IsAdmin(server), Seen)
           c == [calls[i] EXCEPT !.stage = stage, !.answer = answer]
<1>1. calls \in Seq(G) /\ i \in DOMAIN calls
  BY DEF IInv, CallsInv, Respond
<1>2. calls[i] \in G
  BY <1>1, LenProperties, ElementOfSeq
<1>3. c \in G /\ Weight(c) = Weight(calls[i])
  BY <1>2 DEF Good, Calls, Weight
<1>4. calls' = [calls EXCEPT ![i] = c]
  BY <1>1, LenProperties DEF Respond
<1> HIDE DEF c
<1>5. calls' \in Seq(G) /\ Cost(calls') = Cost(calls)
  <2> HIDE DEF G
  <2>1. [calls EXCEPT ![i] = c] \in Seq(G) /\ Cost([calls EXCEPT ![i] = c]) = Cost(calls)
    BY <1>1, <1>3, CostExcept
  <2> QED
    BY <1>4, <2>1
<1>6. Seen' = Seen
  BY DEF Seen, Respond
<1> QED
  BY <1>5, <1>6 DEF IInv, CallsInv

LEMMA AnswerFetchKeeps ==
    ASSUME IInv, NEW i, AnswerFetch(i)
    PROVE  IInv'
<1>1. /\ Respond(i, "answered", View(calls[i].kind))
      /\ UNCHANGED <<server, socket>> /\ UNCHANGED <<shown, loaded, view>>
      /\ calls[i].kind # "act"
  BY DEF AnswerFetch, Respond
<1>2. StateInv'
  BY <1>1 DEF IInv, StateInv, Seen, socket, view
<1>3. calls[i] \in Calls
  <2>1. calls \in Seq(Good(IsAdmin(server), Seen)) /\ i \in DOMAIN calls
    BY <1>1 DEF IInv, CallsInv, Respond
  <2> QED
    BY <2>1, LenProperties, ElementOfSeq DEF Good
<1>4. View(calls[i].kind) \in Contents
  <2>1. server \in Contents
    BY DEF IInv, StateInv
  <2>2. calls[i].kind \in Lists
    BY <1>1, <1>3 DEF Calls
  <2> QED
    BY <2>1, <2>2, BlankType DEF View, Lists, Contents
<1>5. calls[i].kind = "status" => View(calls[i].kind) = server
  BY DEF View
<1> QED
  BY <1>1, <1>2, <1>4, <1>5, RespondKeeps DEF IInv, IsAdmin

LEMMA AnswerActKeeps ==
    ASSUME IInv, NEW i, AnswerAct(i)
    PROVE  IInv'
<1>1. /\ Respond(i, "answered", Blank) /\ Change
      /\ UNCHANGED <<shown, loaded, view>>
      /\ calls[i].kind = "act"
  BY DEF AnswerAct, Respond
<1>2. StateInv'
  BY <1>1, ChangeKeeps DEF IInv, StateInv, Seen, view
<1>3. CallsInv'
  BY <1>1, ChangeKeeps, BlankType, RespondKeeps
<1> QED
  BY <1>2, <1>3 DEF IInv

LEMMA RefuseCallKeeps ==
    ASSUME IInv, NEW i, RefuseCall(i)
    PROVE  IInv'
<1>1. /\ Respond(i, "failed", Blank)
      /\ UNCHANGED <<server, socket>> /\ UNCHANGED <<shown, loaded, view>>
  BY DEF RefuseCall, Respond
<1>2. StateInv'
  BY <1>1 DEF IInv, StateInv, Seen, socket, view
<1>3. CallsInv'
  BY <1>1, BlankType, RespondKeeps
<1> QED
  BY <1>2, <1>3 DEF IInv

------------------------------------------------------------------------------
(* The arrivals.                                                           *)

\* An arrival gives the status shown the right role, and an admin's stays one.
LEMMA ArriveState ==
    ASSUME IInv, NEW i, Arrive(i)
    PROVE  /\ StateInv'
           /\ Good(IsAdmin(server), Seen) \subseteq Good(IsAdmin(server'), Seen')
<1> DEFINE c == calls[i]
<1>1. c \in Good(IsAdmin(server), Seen)
  <2>1. calls \in Seq(Good(IsAdmin(server), Seen)) /\ i \in DOMAIN calls
    BY DEF IInv, CallsInv, Arrive
  <2> QED
    BY <2>1, LenProperties, ElementOfSeq
<1>2. c \in Calls /\ c.answer \in Contents /\ c.answer.tier \in Tiers
  BY <1>1, ContentsParts DEF Good, Calls
<1>3. UNCHANGED <<server, socket, view>>
  BY DEF Arrive
<1>4. Seen \in Tiers
  BY ContentsParts DEF IInv, StateInv, Seen, Lists
<1>5. /\ Seen = "admin" => IsAdmin(server)
      /\ Seen = "moderator" => ~IsAdmin(server)
  BY DEF IInv, StateInv
<1>6. /\ shown' \in [Lists -> Contents] /\ loaded' \in BOOLEAN
      /\ Seen' = "admin" => IsAdmin(server)
      /\ Seen' = "moderator" => ~IsAdmin(server)
      /\ Seen = "admin" => Seen' = "admin"
  <2>1. shown \in [Lists -> Contents] /\ loaded \in BOOLEAN
    BY DEF IInv, StateInv
  <2>2. CASE c.stage = "answered" /\ c.kind \in Lists
    <3>1. shown' = [shown EXCEPT ![c.kind] = c.answer] /\ loaded' = (loaded \/ c.kind = "members")
      BY <2>2 DEF Arrive
    <3>2. shown' \in [Lists -> Contents] /\ loaded' \in BOOLEAN
      BY <1>2, <2>1, <2>2, <3>1
    <3>3. CASE c.kind = "status"
      <4>1. Seen' = c.answer.tier
        BY <2>1, <3>1, <3>3 DEF Seen, Lists
      <4>2. c.answer.tier = "admin" <=> IsAdmin(server)
        BY <1>1, <2>2, <3>3 DEF Good
      <4> QED
        BY <1>5, <3>2, <4>1, <4>2
    <3>4. CASE c.kind # "status"
      <4>1. Seen' = Seen
        BY <2>1, <3>1, <3>4 DEF Seen, Lists
      <4> QED
        BY <1>5, <3>2, <4>1
    <3> QED
      BY <3>3, <3>4
  <2>3. CASE ~(c.stage = "answered" /\ c.kind \in Lists)
    <3>1. UNCHANGED <<shown, loaded>>
      BY <2>3 DEF Arrive
    <3> QED
      BY <1>5, <2>1, <3>1 DEF Seen
  <2> QED
    BY <2>2, <2>3
<1>7. StateInv'
  BY <1>3, <1>6 DEF IInv, StateInv, socket, view
<1>8. Good(IsAdmin(server), Seen) \subseteq Good(IsAdmin(server), Seen')
  BY <1>6 DEF Good
<1> QED
  BY <1>3, <1>7, <1>8

\* What follows a call, by cases.
LEMMA ThenCases ==
    ASSUME NEW c
    PROVE  \/ c.kind = "act" /\ c.stage = "answered" /\ Then(c) = <<Refresh>>
           \/ c.kind = "status" /\ c.was # "member" /\ Then(c) = <<Call("reports", c.was)>>
           \/ c.kind = "reports" /\ c.was = "admin" /\ Then(c) = <<Call("members", c.was)>>
           \/ /\ Then(c) = <<>>
              /\ ~(c.kind = "status" /\ c.was # "member")
BY DEF Then

\* It is a call there can be, and costs less than the one that arrived.
LEMMA ThenSent ==
    ASSUME IInv, NEW c \in Good(IsAdmin(server), Seen),
           Good(IsAdmin(server), Seen) \subseteq Good(IsAdmin(server'), Seen')
    PROVE  /\ Then(c) \in Seq(Good(IsAdmin(server'), Seen'))
           /\ Cost(Then(c)) <= Weight(c)
           /\ c.kind = "status" => Cost(Then(c)) = IF c.was = "member" THEN 0 ELSE 1
<1> DEFINE G == Good(IsAdmin(server), Seen)
           H == Good(IsAdmin(server'), Seen')
<1>1. IsAdmin(server) \in BOOLEAN
  BY DEF IsAdmin
<1>2. c.was \in Tiers /\ (c.was = "admin" => Seen = "admin")
      /\ (c.was = "moderator" => ~IsAdmin(server))
  BY DEF Good, Calls
<1>3. Weight(c) \in Nat
  BY DEF Weight
<1>4. CASE c.kind = "act" /\ Then(c) = <<Refresh>>
  <2>1. <<Refresh>> \in Seq(G) /\ Cost(<<Refresh>>) = 2
    BY RefreshSent DEF IInv
  <2>2. Weight(c) = 2
    BY <1>4 DEF Weight
  <2>3. <<Refresh>> \in Seq(H)
    BY <2>1, SeqMonotonic
  <2> QED
    BY <1>4, <2>1, <2>2, <2>3
<1>5. ASSUME NEW k \in {"reports", "members"}, Then(c) = <<Call(k, c.was)>>
      PROVE  Then(c) \in Seq(H) /\ Cost(Then(c)) = 1
  <2>1. Call(k, c.was) \in G
    BY <1>1, <1>2, CallSent DEF Lists
  <2>2. Call(k, c.was) \in H
    BY <2>1
  <2>3. Weight(Call(k, c.was)) = 1
    BY DEF Weight, Call
  <2> HIDE DEF H
  <2> QED
    BY <1>5, <2>2, <2>3, CostOne
<1>6. CASE c.kind = "status" /\ c.was # "member" /\ Then(c) = <<Call("reports", c.was)>>
  <2>1. Weight(c) = 2
    BY <1>6 DEF Weight
  <2> QED
    BY <1>5, <1>6, <2>1
<1>7. CASE c.kind = "reports" /\ Then(c) = <<Call("members", c.was)>>
  <2>1. Weight(c) = 1
    BY <1>7 DEF Weight
  <2> QED
    BY <1>5, <1>7, <2>1
<1>8. CASE Then(c) = <<>> /\ ~(c.kind = "status" /\ c.was # "member")
  <2>1. <<>> \in Seq(H) /\ Cost(<<>>) = 0
    BY EmptySeq, CostEmpty
  <2> QED
    BY <1>3, <1>8, <2>1
<1> QED
  BY <1>4, <1>6, <1>7, <1>8, ThenCases

\* An arrival makes the side panel fetch only if it is the status, and then it
\* cannot do so for an admin's chain, nor fetch the members for a moderator's.
LEMMA ArriveEffects ==
    ASSUME IInv, NEW i, Arrive(i)
    PROVE  LET c == calls[i]
               p == WantsReports' /\ ~WantsReports
               q == WantsMembers' /\ ~WantsMembers
           IN  /\ c.kind # "status" \/ c.stage # "answered" \/ c.was = "admin" => ~p /\ ~q
               /\ c.was = "moderator" => ~q
<1> DEFINE c == calls[i]
<1>1. c \in Good(IsAdmin(server), Seen)
  <2>1. calls \in Seq(Good(IsAdmin(server), Seen)) /\ i \in DOMAIN calls
    BY DEF IInv, CallsInv, Arrive
  <2> QED
    BY <2>1, LenProperties, ElementOfSeq
<1>2. UNCHANGED <<server, open, viewing, tab>>
  BY DEF Arrive, view
<1>3. CASE c.kind # "status" \/ c.stage # "answered"
  <2>1. shown'["status"] = shown["status"]
    BY <1>3 DEF Arrive, IInv, StateInv, Lists
  <2> QED
    BY <1>2, <2>1 DEF WantsReports, WantsMembers
<1>4. CASE c.was = "admin"
  <2>1. Seen = "admin"
    BY <1>1, <1>4 DEF Good
  <2>2. IsModerator(shown["status"]) /\ IsAdmin(shown["status"])
    BY <2>1 DEF Seen, IsModerator, IsAdmin
  <2> QED
    BY <1>2, <1>4, <2>2 DEF WantsReports, WantsMembers
<1>5. CASE c.was = "moderator"
  <2>1. ~IsAdmin(server)
    BY <1>1, <1>5 DEF Good
  <2>2. StateInv'
    BY ArriveState
  <2>3. ~IsAdmin(shown["status"])'
    BY <1>2, <2>1, <2>2 DEF StateInv, Seen, IsAdmin
  <2>4. ~WantsMembers'
    BY <2>3 DEF WantsMembers
  <2> QED
    BY <1>2, <1>3, <1>5, <2>4
<1> QED
  BY <1>3, <1>4, <1>5

LEMMA ArriveKeeps ==
    ASSUME IInv, NEW i, Arrive(i)
    PROVE  IInv'
<1> DEFINE c == calls[i]
           H == Good(IsAdmin(server'), Seen')
           r == RemoveAt(calls, i)
           t == Then(c)
           p == WantsReports' /\ ~WantsReports
           q == WantsMembers' /\ ~WantsMembers
           e == Effects
<1>1. StateInv' /\ Good(IsAdmin(server), Seen) \subseteq H
  BY ArriveState
<1>2. /\ calls \in Seq(Good(IsAdmin(server), Seen)) /\ i \in DOMAIN calls
      /\ Cost(calls) <= 2 * MaxCalls + 2
  BY DEF IInv, CallsInv, Arrive
<1>3. c \in Good(IsAdmin(server), Seen)
  BY <1>2, LenProperties, ElementOfSeq
<1>4. r \in Seq(H) /\ Cost(r) = Cost(calls) - Weight(c)
  <2>1. calls \in Seq(H)
    BY <1>1, <1>2, SeqMonotonic
  <2> QED
    BY <1>2, <2>1, CostRemove
<1>5. /\ t \in Seq(H) /\ Cost(t) <= Weight(c)
      /\ c.kind = "status" => Cost(t) = IF c.was = "member" THEN 0 ELSE 1
  BY <1>1, <1>3, ThenSent
<1>6. /\ c.kind # "status" \/ c.stage # "answered" \/ c.was = "admin" => ~p /\ ~q
      /\ c.was = "moderator" => ~q
  BY ArriveEffects
<1>7. PICK a, b \in BOOLEAN : (a <=> p) /\ (b <=> q) /\ e = EffectsOf(a, b)
  <2>1. p \in BOOLEAN /\ q \in BOOLEAN
    OBVIOUS
  <2> QED
    BY <2>1, EffectsAre
<1>8. e \in Seq(H) /\ Cost(e) = (IF a THEN 1 ELSE 0) + (IF b THEN 1 ELSE 0)
  <2>1. IsAdmin(server') \in BOOLEAN
    BY DEF IsAdmin
  <2> QED
    BY <1>7, <2>1, EffectsSent
<1>9. calls' = (r \o t) \o e
  BY DEF Arrive
<1> HIDE DEF r, t, e, H, p, q
<1>10. Cost(t) + Cost(e) <= Weight(c)
  <2>1. c.kind \in Lists \cup {"act"} /\ c.was \in Tiers
    BY <1>3 DEF Good, Calls
  <2>2. Cost(t) \in Nat /\ Weight(c) \in Nat
    BY <1>5, CostBounds DEF Weight
  <2>3. CASE c.kind # "status" \/ c.was = "admin"
    <3>1. a = FALSE /\ b = FALSE
      BY <1>6, <1>7, <2>3
    <3> QED
      BY <1>5, <1>8, <2>2, <3>1
  <2>4. CASE c.kind = "status" /\ c.was = "moderator"
    <3>1. b = FALSE
      BY <1>6, <1>7, <2>4
    <3>2. Weight(c) = 2 /\ Cost(t) = 1
      BY <1>5, <2>4 DEF Weight
    <3>3. Cost(e) <= 1
      BY <1>8, <3>1
    <3>4. Cost(e) \in Nat
      BY <1>8, CostBounds
    <3> QED
      BY <3>2, <3>3, <3>4
  <2>5. CASE c.kind = "status" /\ c.was = "member"
    <3>1. Weight(c) = 2 /\ Cost(t) = 0
      BY <1>5, <2>5 DEF Weight
    <3>2. Cost(e) <= 2
      BY <1>8
    <3>3. Cost(e) \in Nat
      BY <1>8, CostBounds
    <3> QED
      BY <3>1, <3>2, <3>3
  <2> QED
    BY <2>1, <2>3, <2>4, <2>5 DEF Tiers
<1>11. r \o t \in Seq(H) /\ Cost(r \o t) = Cost(r) + Cost(t)
  BY <1>4, <1>5, CostConcat
<1>12. (r \o t) \o e \in Seq(H) /\ Cost((r \o t) \o e) = Cost(r \o t) + Cost(e)
  BY <1>8, <1>11, CostConcat
<1>13. Cost(calls') <= Cost(calls)
  <2>1. Cost(calls') = (Cost(calls) - Weight(c)) + Cost(t) + Cost(e)
    BY <1>4, <1>9, <1>11, <1>12
  <2>2. Cost(calls) \in Nat /\ Weight(c) \in Nat /\ Cost(t) \in Nat /\ Cost(e) \in Nat
    BY <1>2, <1>5, <1>8, CostBounds DEF Weight
  <2> QED
    BY <1>10, <2>1, <2>2
<1>14. CallsInv'
  <2>1. Cost(calls') \in Nat /\ Cost(calls) \in Nat
    BY <1>2, <1>9, <1>12, CostBounds
  <2>2. Cost(calls') <= 2 * MaxCalls + 2
    BY <1>2, <1>13, <2>1, BoundsAssumption
  <2> QED
    BY <1>9, <1>12, <2>2 DEF CallsInv, H
<1> QED
  BY <1>1, <1>14 DEF IInv

------------------------------------------------------------------------------

LEMMA InvariantInductive == Spec => []IInv
<1>1. Init => IInv
  BY InitSatisfies
<1>2. IInv /\ [Next]_vars => IInv'
  <2> SUFFICES ASSUME IInv, [Next]_vars PROVE IInv'
    OBVIOUS
  <2>1. CASE ChangeElsewhere
    BY <2>1, ChangeElsewhereKeeps
  <2>2. CASE TogglePanel
    BY <2>2, TogglePanelKeeps
  <2>3. ASSUME NEW t \in {"reports", "members"}, ChooseTab(t) PROVE IInv'
    BY <2>3, ChooseTabKeeps
  <2>4. CASE SwitchChannel
    BY <2>4, SwitchChannelKeeps
  <2>5. CASE Act
    BY <2>5, ActKeeps
  <2>6. CASE Disconnect
    BY <2>6, DisconnectKeeps
  <2>7. ASSUME NEW i \in DOMAIN calls, AnswerFetch(i) PROVE IInv'
    BY <2>7, AnswerFetchKeeps
  <2>8. ASSUME NEW i \in DOMAIN calls, AnswerAct(i) PROVE IInv'
    BY <2>8, AnswerActKeeps
  <2>9. ASSUME NEW i \in DOMAIN calls, RefuseCall(i) PROVE IInv'
    BY <2>9, RefuseCallKeeps
  <2>10. ASSUME NEW i \in DOMAIN calls, Arrive(i) PROVE IInv'
    BY <2>10, ArriveKeeps
  <2>11. CASE Deliver
    BY <2>11, DeliverKeeps
  <2>12. CASE Reconnect
    BY <2>12, ReconnectKeeps
  <2>13. CASE UNCHANGED vars
    BY <2>13 DEF IInv, StateInv, CallsInv, Seen, vars, socket, view
  <2> QED
    BY <2>1, <2>2, <2>3, <2>4, <2>5, <2>6, <2>7, <2>8, <2>9, <2>10, <2>11, <2>12, <2>13
       DEF Next, Somebody, Answer, Receive
<1> QED
  BY <1>1, <1>2, PTL DEF Spec

\* The calls, events and answers keep their types, and there are never more
\* than 2 * MaxCalls + 2 calls under way (panel and refresh, webapp/src:
\* index.tsx, actions.ts): a chain of fetches, and the fetches of the side
\* panel that its answers cause, end rather than feed each other.
THEOREM TypeCorrect == Spec => []TypeOK
BY InvariantInductive, InvariantImpliesType, PTL
================================================================================
