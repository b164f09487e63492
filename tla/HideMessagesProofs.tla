--------------------------- MODULE HideMessagesProofs ---------------------------
(***************************************************************************)
(* What a scan of hideMessagesFromUser can miss, for any channel, any page *)
(* size and limit, and any messages that come and go meanwhile.            *)
(***************************************************************************)
EXTENDS HideMessages, KVPagingProofs

\* What the scan will not list again, and the recent messages it has left as they
\* were there, their own update not failed.
Behind(s) ==
    \/ Before(s) < scan.page * PageSize
    \/ Before(s) >= ScanLimit
    \/ scan.stage \in {"posts", "done"} /\ ~scan.full
Lost == {s \in window : shown[s] = "text" /\ Behind(s)} \ (excused \cup scan.todo)

ScanInv ==
    /\ Cardinality(Lost) <= shifts
    /\ \A s \in Posts : s > last => shown[s] = "nothing"
    /\ \A s \in window : s <= last
    /\ scan.stage # "posts" => scan.todo = {}
    /\ scan.stage = "done" => ~scan.full \/ scan.page * PageSize >= ScanLimit

------------------------------------------------------------------------------
(* The channel's order.                                                    *)

LEMMA ListedOrder ==
    ASSUME NEW S \in SUBSET Posts
    PROVE  IsFiniteSet(S) /\ Orders(NewestFirst, S)
<1>1. IsFiniteSet(Posts)
  BY ScanBoundsAssumption, FS_Interval DEF Posts
<1>2. \A s \in Posts : NewestFirst[s] = MaxPosts - s /\ NewestFirst[s] \in Nat /\ s \in Nat
  BY ScanBoundsAssumption DEF Posts, NewestFirst
<1>3. \A s, t \in Posts : NewestFirst[s] = NewestFirst[t] => s = t
  BY <1>2, ScanBoundsAssumption
<1> QED
  BY <1>1, <1>2, <1>3, FS_Subset DEF Orders

LEMMA ListedFacts ==
    /\ IsFiniteSet(Listed) /\ Orders(NewestFirst, Listed)
    /\ \A s : Before(s) \in Nat
    /\ \A s, t \in Listed : Before(s) = Before(t) => s = t
<1>1. Listed \subseteq Posts
  BY DEF Listed
<1> QED
  BY <1>1, ListedOrder, RankType, RankInjective DEF Before

\* The message the scan turns to is one of those it has to hide.
LEMMA CurrentListed ==
    ASSUME ScanTypeOK, scan.todo # {}
    PROVE  Current \in scan.todo
<1> DEFINE S == scan.todo
           pos == [s \in S |-> s]
<1>1. S \in SUBSET Posts /\ Posts \subseteq Nat
  BY ScanBoundsAssumption DEF ScanTypeOK, Scans, Posts
<1>2. IsFiniteSet(S) /\ Orders(pos, S)
  BY <1>1, ListedOrder DEF Orders
<1>3. Cardinality(S) \in Nat /\ Cardinality(S) # 0
  BY <1>2, FS_CardinalityType, FS_EmptySet
<1>4. PICK k \in S : Rank(S, pos, k) = Cardinality(S) - 1
  BY <1>2, <1>3, RankOnto
<1>5. \A s \in S : ~(pos[k] < pos[s])
  BY <1>2, <1>3, <1>4, RankGrows, RankBound, RankType
<1>6. \A s \in S : k >= s
  <2> TAKE s \in S
  <2>1. pos[k] = k /\ pos[s] = s /\ k \in Nat /\ s \in Nat
    BY <1>1
  <2> QED
    BY <1>5, <2>1
<1> QED
  BY <1>6 DEF Current, Max

------------------------------------------------------------------------------
(* Types.                                                                  *)

LEMMA TypeInit == ScanInit => ScanTypeOK
<1> SUFFICES ASSUME ScanInit PROVE ScanTypeOK
  OBVIOUS
<1>1. PICK mode \in {"placeholder", "remove"} :
        scan = [stage |-> "list", mode |-> mode, page |-> 0, todo |-> {}, full |-> FALSE]
  BY DEF ScanInit
<1>2. scan \in Scans
  BY <1>1 DEF Scans
<1>3. window \subseteq written /\ editing \subseteq written
  BY DEF ScanInit
<1> QED
  BY <1>2, <1>3 DEF ScanInit, ScanTypeOK

LEMMA TypeStep == ScanTypeOK /\ [ScanNext]_scanVars => ScanTypeOK'
<1> SUFFICES ASSUME ScanTypeOK, [ScanNext]_scanVars PROVE ScanTypeOK'
  OBVIOUS
<1> USE ScanBoundsAssumption DEF ScanTypeOK, Scans
<1>1. CASE Post
  BY <1>1 DEF Post, Shift, Posts, member
<1>2. ASSUME NEW s \in Posts, DeletePost(s) PROVE ScanTypeOK'
  BY <1>2 DEF DeletePost, Shift, member
<1>3. ASSUME NEW s \in Posts, SendEdit(s) PROVE ScanTypeOK'
  BY <1>3 DEF SendEdit, channel, history
<1>4. ASSUME NEW s \in Posts, StoreEdit(s) PROVE ScanTypeOK'
  BY <1>4 DEF StoreEdit
<1>5. CASE Unban
  BY <1>5 DEF Unban, channel, history
<1>6. CASE ListPage
  <2>1. OnPage(scan.page) \cap written \in SUBSET Posts
    OBVIOUS
  <2>2. PICK todo \in SUBSET Posts, full \in BOOLEAN :
          scan' = [scan EXCEPT !.stage = "posts", !.page = @ + 1, !.todo = todo, !.full = full]
    BY <1>6, <2>1 DEF ListPage
  <2>3. scan.mode \in {"placeholder", "remove"} /\ scan.page + 1 \in Nat
    OBVIOUS
  <2>4. scan' = [stage |-> "posts", mode |-> scan.mode, page |-> scan.page + 1,
                todo |-> todo, full |-> full]
    BY <2>2
  <2> QED
    BY <1>6, <2>3, <2>4 DEF ListPage, channel, member, history
<1>7. CASE ListFails
  BY <1>7 DEF ListFails, channel, member, history
<1>8. CASE NextPost /\ (HidePost \/ HideRejected \/ HideFails)
  <2>1. Current \in Posts /\ scan' \in Scans
    BY <1>8, CurrentListed DEF NextPost
  <2> QED
    BY <1>8, <2>1 DEF NextPost, HidePost, HideRejected, HideFails, Shift, member
<1>9. CASE EndPage
  BY <1>9 DEF EndPage, channel, member, history
<1>10. CASE UNCHANGED scanVars
  BY <1>10 DEF scanVars, channel, member, history
<1> QED
  BY <1>1, <1>2, <1>3, <1>4, <1>5, <1>6, <1>7, <1>8, <1>9, <1>10
     DEF ScanNext, HidePost, HideRejected, HideFails

\* Every variable has its type: in particular the scan only turns to messages of
\* the channel (NextPost picks from the page that GetPostsForChannel returned).
THEOREM TypeCorrect == ScanSpec => []ScanTypeOK
BY TypeInit, TypeStep, PTL DEF ScanSpec

------------------------------------------------------------------------------
(* How many messages have been left behind.                                *)

LEMMA LostFinite == ScanTypeOK => IsFiniteSet(Lost)
<1> SUFFICES ASSUME ScanTypeOK PROVE IsFiniteSet(Lost)
  OBVIOUS
<1>1. Lost \subseteq Posts
  BY DEF Lost, ScanTypeOK
<1> QED
  BY <1>1, ListedOrder

\* A step that leaves nothing more behind, and one that shifts the pages by one
\* message and leaves that one behind.
LEMMA NothingMoreLost ==
    ASSUME ScanTypeOK, Cardinality(Lost) <= shifts, Lost' \subseteq Lost,
           shifts' \in {shifts, shifts + 1}
    PROVE  Cardinality(Lost)' <= shifts'
<1>1. /\ IsFiniteSet(Lost) /\ IsFiniteSet(Lost')
      /\ Cardinality(Lost') <= Cardinality(Lost)
  BY LostFinite, FS_Subset
<1>2. Cardinality(Lost') \in Nat /\ Cardinality(Lost) \in Nat /\ shifts \in Nat
  BY <1>1, FS_CardinalityType DEF ScanTypeOK
<1> QED
  BY <1>1, <1>2

LEMMA OneMoreLost ==
    ASSUME ScanTypeOK, Cardinality(Lost) <= shifts, NEW x, Lost' \subseteq Lost \cup {x},
           shifts' = shifts + 1
    PROVE  Cardinality(Lost)' <= shifts'
<1>1. IsFiniteSet(Lost) /\ IsFiniteSet(Lost \cup {x})
  BY LostFinite, FS_AddElement
<1>2. /\ Cardinality(Lost) \in Nat /\ shifts \in Nat
      /\ Cardinality(Lost \cup {x}) \in Nat
      /\ Cardinality(Lost \cup {x}) <= Cardinality(Lost) + 1
  BY <1>1, FS_AddElement, FS_CardinalityType DEF ScanTypeOK
<1>3. IsFiniteSet(Lost') /\ Cardinality(Lost') <= Cardinality(Lost \cup {x})
  BY <1>1, FS_Subset
<1>4. Cardinality(Lost') \in Nat
  BY <1>3, FS_CardinalityType
<1> QED
  BY <1>2, <1>3, <1>4

\* At most one message is at an offset, and only such a one crosses it.
LEMMA OneAtOffset ==
    ASSUME NEW n
    PROVE  \E x : \A s \in Listed : Before(s) = n => s = x
BY ListedFacts

\* A message that arrives pushes at most one past the limit.
LEMMA ArrivalLosesOne ==
    ASSUME ScanTypeOK, ScanInv, Post
    PROVE  Cardinality(Lost)' <= shifts'
<1> DEFINE new == last + 1
<1>1. new \in Posts /\ new \notin Listed /\ last \in Nat
  BY ScanBoundsAssumption DEF Post, ScanTypeOK, ScanInv, Posts, Listed
<1>2. shown' = [shown EXCEPT ![new] = "text"] /\ shifts' = shifts + 1
  BY DEF Post, Shift
<1>3. Listed' = Listed \cup {new}
  BY <1>1, <1>2 DEF Listed, ScanTypeOK
<1>4. \A s \in Listed : NewestFirst[new] < NewestFirst[s]
  BY <1>1, ScanBoundsAssumption DEF NewestFirst, Listed, ScanInv, Posts
<1>5. \A s \in Listed : Before(s)' = Before(s) + 1
  BY <1>1, <1>3, <1>4, ListedFacts, RankAdd DEF Before
<1>6. PICK x : \A s \in Listed : Before(s) = ScanLimit - 1 => s = x
  BY OneAtOffset
<1>7. Lost' \subseteq Lost \cup {x}
  <2> SUFFICES ASSUME NEW s \in Lost', s # x PROVE s \in Lost
    OBVIOUS
  <2>1. UNCHANGED <<scan, window, excused>>
    BY DEF Post
  <2>2. s \in window /\ shown'[s] = "text" /\ Behind(s)' /\ s \notin excused \cup scan.todo
    BY <2>1 DEF Lost
  <2>3. s # new /\ s \in Posts
    BY <1>1, <2>2 DEF ScanInv, ScanTypeOK
  <2>4. shown[s] = "text" /\ s \in Listed
    BY <1>2, <2>2, <2>3 DEF ScanTypeOK, Listed
  <2>5. Before(s) \in Nat /\ scan.page * PageSize \in Nat
    BY ListedFacts, ScanBoundsAssumption DEF ScanTypeOK, Scans
  <2>6. Before(s)' = Before(s) + 1 /\ Before(s) # ScanLimit - 1
    BY <1>5, <1>6, <2>4
  <2>7. Behind(s)
    BY <2>1, <2>2, <2>5, <2>6, ScanBoundsAssumption DEF Behind
  <2> QED
    BY <2>2, <2>4, <2>7 DEF Lost
<1> QED
  BY <1>2, <1>7, OneMoreLost DEF ScanInv

\* A message that goes, by whoever's doing, pulls at most one onto a page already
\* listed.
LEMMA DeletionLosesOne ==
    ASSUME ScanTypeOK, ScanInv, NEW d \in Listed, shown' = [shown EXCEPT ![d] = "nothing"],
           scan'.stage = scan.stage, scan'.page = scan.page, scan'.full = scan.full,
           scan.todo \ {d} \subseteq scan'.todo, UNCHANGED <<window, excused>>, Shift
    PROVE  Cardinality(Lost)' <= shifts'
<1>1. d \in Posts /\ Listed' = Listed \ {d}
  BY DEF Listed, ScanTypeOK
<1>2. ASSUME NEW s \in Listed'
      PROVE  Before(s) = Before(s)' + 1 \/ Before(s) = Before(s)'
  BY <1>1, ListedFacts, RankRemove DEF Before
<1>3. PICK x : \A s \in Listed : Before(s) = scan.page * PageSize => s = x
  BY OneAtOffset
<1>4. Lost' \subseteq Lost \cup {x}
  <2> SUFFICES ASSUME NEW s \in Lost', s # x PROVE s \in Lost
    OBVIOUS
  <2>1. s \in window /\ shown'[s] = "text" /\ Behind(s)' /\ s \notin excused \cup scan'.todo
    BY DEF Lost
  <2>2. s # d /\ shown[s] = "text" /\ s \in Listed' /\ s \in Listed /\ s \notin scan.todo
    BY <1>1, <2>1 DEF ScanTypeOK, Listed
  <2>3. Before(s) \in Nat /\ scan.page * PageSize \in Nat
    BY ListedFacts, ScanBoundsAssumption DEF ScanTypeOK, Scans
  <2>4. Before(s)' \in Nat
    BY <1>2, <2>2, <2>3, <1>1, ListedFacts, FS_RemoveElement, RankType DEF Before
  <2>5. Before(s) = Before(s)' + 1 \/ Before(s) = Before(s)'
    BY <1>2, <2>2
  <2>6. Before(s) # scan.page * PageSize
    BY <1>3, <2>2
  <2>7. Behind(s)
    BY <2>1, <2>3, <2>4, <2>5, <2>6, ScanBoundsAssumption DEF Behind
  <2> QED
    BY <2>1, <2>2, <2>7 DEF Lost
<1> QED
  BY <1>4, OneMoreLost DEF ScanInv, Shift

\* Listing a page takes its messages into hand, and a page that is not full is
\* followed by nothing.
LEMMA ListingLosesNone ==
    ASSUME ScanTypeOK, ScanInv, ListPage
    PROVE  Lost' \subseteq Lost
<1> DEFINE page == scan.page
<1>1. /\ page \in Nat /\ scan'.page = page + 1 /\ scan'.todo = OnPage(page) \cap written
      /\ scan'.full <=> Cardinality(OnPage(page)) = PageSize
      /\ UNCHANGED <<shown, window, excused>> /\ scan.todo = {}
  BY DEF ListPage, ScanTypeOK, Scans, channel, history, ScanInv
<1> SUFFICES ASSUME NEW s \in Lost' PROVE s \in Lost
  OBVIOUS
<1>2. s \in window /\ shown[s] = "text" /\ Behind(s)' /\ s \notin excused /\ s \notin OnPage(page)
  BY <1>1 DEF Lost, ScanTypeOK
<1>3. s \in Listed /\ Before(s) \in Nat /\ Before(s)' = Before(s)
  BY <1>1, <1>2, ListedFacts DEF Listed, Before, ScanTypeOK
<1>4. Before(s) < (page + 1) * PageSize \/ Before(s) >= ScanLimit
  <2>1. CASE Cardinality(OnPage(page)) # PageSize
    BY <1>1, <1>3, <2>1, ListedFacts, ScanBoundsAssumption, ShortPageIsLast DEF OnPage, Before
  <2>2. CASE Cardinality(OnPage(page)) = PageSize
    BY <1>1, <1>2, <1>3, <2>2 DEF Behind
  <2> QED
    BY <2>1, <2>2
<1>5. Before(s) < page * PageSize \/ Before(s) >= (page + 1) * PageSize
  <2>1. page * PageSize \in Nat /\ (page + 1) * PageSize \in Nat
    BY <1>1, ScanBoundsAssumption
  <2> QED
    BY <1>1, <1>2, <1>3, <2>1, ListedFacts, ScanBoundsAssumption, PageOffsets DEF OnPage, Before
<1>6. Behind(s)
  BY <1>1, <1>3, <1>4, <1>5, ScanBoundsAssumption DEF Behind
<1> QED
  BY <1>1, <1>2, <1>6 DEF Lost

\* The other steps leave nothing more behind: they look at a message, or change
\* what is not shown.
LEMMA OtherStepsLoseNone ==
    ASSUME ScanTypeOK, ScanInv,
           \/ \E s \in Posts : SendEdit(s) \/ StoreEdit(s)
           \/ Unban \/ ListFails \/ EndPage \/ HideRejected \/ HideFails
           \/ HidePost /\ scan.mode # "remove"
           \/ UNCHANGED scanVars
    PROVE  Lost' \subseteq Lost
<1> SUFFICES ASSUME NEW s \in Lost' PROVE s \in Lost
  OBVIOUS
<1>0. s \in window' /\ shown'[s] = "text" /\ Behind(s)' /\ s \notin excused' /\ s \notin scan'.todo
  BY DEF Lost
<1>1. CASE \E t \in Posts : StoreEdit(t)
  <2>1. PICK t \in Posts : StoreEdit(t)
    BY <1>1
  <2>2. s # t \/ t \notin Listed
    BY <2>1, <1>0 DEF StoreEdit
  <2>3. Listed' = Listed /\ shown'[s] = shown[s]
    <3>1. CASE t \in Listed
      <4>1. shown' = [shown EXCEPT ![t] = "text"] /\ shown[t] # "nothing" /\ s # t
        BY <2>1, <2>2, <3>1 DEF StoreEdit, Listed
      <4>2. \A r \in Posts : shown'[r] = "nothing" <=> shown[r] = "nothing"
        BY <4>1 DEF ScanTypeOK
      <4>3. s \in Posts
        BY <2>1, <1>0 DEF StoreEdit, ScanTypeOK
      <4> QED
        BY <4>1, <4>2, <4>3 DEF Listed, ScanTypeOK
    <3>2. CASE t \notin Listed
      BY <2>1, <3>2 DEF StoreEdit, Listed
    <3> QED
      BY <3>1, <3>2
  <2> QED
    BY <2>1, <2>3, <1>0 DEF StoreEdit, Lost, Behind, Before
<1>2. CASE HidePost /\ scan.mode # "remove"
  <2>1. /\ Current \in Listed /\ shown' = [shown EXCEPT ![Current] = "tombstone"]
        /\ scan' = [scan EXCEPT !.todo = @ \ {Current}] /\ UNCHANGED <<window, excused>>
    BY <1>2 DEF HidePost, NextPost
  <2>2. Listed' = Listed /\ s # Current /\ shown[s] = "text"
    BY <2>1, <1>0 DEF Listed, ScanTypeOK
  <2>3. Behind(s)
    BY <2>1, <2>2, <1>0 DEF Behind, Before, ScanTypeOK, Scans
  <2> QED
    BY <2>1, <2>2, <2>3, <1>0 DEF Lost, ScanTypeOK, Scans
<1>3. CASE HideRejected \/ HideFails
  <2>1. /\ UNCHANGED <<shown, window>> /\ excused' = excused \cup {Current}
        /\ scan' = [scan EXCEPT !.todo = @ \ {Current}]
    BY <1>3 DEF HideRejected, HideFails, NextPost
  <2>2. Behind(s)
    BY <2>1, <1>0 DEF Behind, Before, Listed, ScanTypeOK, Scans
  <2> QED
    BY <2>1, <2>2, <1>0 DEF Lost, ScanTypeOK, Scans
<1>4. CASE ListFails \/ EndPage
  <2>1. /\ UNCHANGED <<shown, window, excused>> /\ scan'.todo = scan.todo
        /\ scan'.page = scan.page /\ scan'.full = scan.full
    BY <1>4 DEF ListFails, EndPage, channel, history, ScanTypeOK, Scans
  <2>2. scan'.stage \in {"posts", "done"} => scan.stage \in {"posts", "done"}
    BY <1>4 DEF ListFails, EndPage, ScanTypeOK, Scans
  <2>3. Behind(s)
    BY <2>1, <2>2, <1>0 DEF Behind, Before, Listed
  <2> QED
    BY <2>1, <2>3, <1>0 DEF Lost
<1>5. CASE Unban \/ (\E t \in Posts : SendEdit(t)) \/ UNCHANGED scanVars
  BY <1>5, <1>0 DEF Unban, SendEdit, scanVars, channel, history, Lost, Behind, Before, Listed
<1> QED
  BY <1>1, <1>2, <1>3, <1>4, <1>5

LEMMA ScanInvInit == ScanInit => ScanInv
<1> SUFFICES ASSUME ScanInit PROVE ScanInv
  OBVIOUS
<1>1. scan.stage = "list" /\ scan.page = 0 /\ scan.todo = {} /\ shifts = 0
  BY DEF ScanInit
<1>2. ASSUME NEW s \in window PROVE ~Behind(s) /\ s <= last
  <2>1. s \in Listed /\ Before(s) < ScanLimit /\ Before(s) \in Nat
    BY ListedFacts DEF ScanInit
  <2> QED
    BY <1>1, <2>1, ScanBoundsAssumption DEF ScanInit, Behind, Listed, Posts
<1>3. Lost = {}
  BY <1>2 DEF Lost
<1>4. \A s \in Posts : s > last => shown[s] = "nothing"
  BY ScanBoundsAssumption DEF ScanInit, Posts
<1> QED
  BY <1>1, <1>2, <1>3, <1>4, FS_EmptySet DEF ScanInv

LEMMA ScanStep == ScanTypeOK /\ ScanInv /\ [ScanNext]_scanVars => ScanInv'
<1> SUFFICES ASSUME ScanTypeOK, ScanInv, [ScanNext]_scanVars PROVE ScanInv'
  OBVIOUS
<1>1. Cardinality(Lost)' <= shifts'
  <2>1. CASE Post
    BY <2>1, ArrivalLosesOne
  <2>2. ASSUME NEW s \in Posts, DeletePost(s) PROVE Cardinality(Lost)' <= shifts'
    BY <2>2, DeletionLosesOne DEF DeletePost
  <2>3. CASE HidePost /\ scan.mode = "remove"
    <3>1. scan' = [scan EXCEPT !.todo = @ \ {Current}]
      BY <2>3 DEF HidePost, NextPost
    <3>2. /\ scan'.stage = scan.stage /\ scan'.page = scan.page /\ scan'.full = scan.full
          /\ scan.todo \ {Current} \subseteq scan'.todo
      BY <3>1 DEF ScanTypeOK, Scans
    <3>3. /\ Current \in Listed /\ shown' = [shown EXCEPT ![Current] = "nothing"] /\ Shift
          /\ UNCHANGED <<window, excused>>
      BY <2>3 DEF HidePost, NextPost
    <3> QED
      BY <3>2, <3>3, DeletionLosesOne
  <2>4. CASE ListPage
    <3>1. shifts' = shifts
      BY <2>4 DEF ListPage, history
    <3> QED
      BY <2>4, <3>1, ListingLosesNone, NothingMoreLost DEF ScanInv
  <2>5. CASE \/ \E s \in Posts : SendEdit(s) \/ StoreEdit(s)
             \/ Unban \/ ListFails \/ EndPage \/ HideRejected \/ HideFails
             \/ HidePost /\ scan.mode # "remove"
             \/ UNCHANGED scanVars
    <3>1. shifts' = shifts
      BY <2>5 DEF SendEdit, StoreEdit, Unban, ListFails, EndPage, HideRejected, HideFails, HidePost,
                  scanVars, history
    <3> QED
      BY <2>5, <3>1, OtherStepsLoseNone, NothingMoreLost DEF ScanInv
  <2> QED
    BY <2>1, <2>2, <2>3, <2>4, <2>5 DEF ScanNext
<1>2. (\A s \in Posts : s > last => shown[s] = "nothing")'
  BY ScanBoundsAssumption
     DEF ScanNext, Post, DeletePost, SendEdit, StoreEdit, Unban, ListPage, ListFails, NextPost, HidePost,
         HideRejected, HideFails, EndPage, scanVars, channel, Listed, ScanTypeOK, ScanInv, Posts
<1>3. (\A s \in window : s <= last)'
  BY DEF ScanNext, Post, DeletePost, SendEdit, StoreEdit, Unban, ListPage, ListFails, NextPost, HidePost,
         HideRejected, HideFails, EndPage, scanVars, channel, history, ScanTypeOK, ScanInv, Posts
<1>4. /\ (scan.stage # "posts" => scan.todo = {})'
      /\ (scan.stage = "done" => ~scan.full \/ scan.page * PageSize >= ScanLimit)'
  BY DEF ScanNext, Post, DeletePost, SendEdit, StoreEdit, Unban, ListPage, ListFails, NextPost, HidePost,
         HideRejected, HideFails, EndPage, IsLast, scanVars, ScanTypeOK, Scans, ScanInv
<1> QED
  BY <1>1, <1>2, <1>3, <1>4 DEF ScanInv

\* For any channel, page size and limit, and whatever messages come, go and are edited
\* during the scan: a finished scan of hideMessagesFromUser has missed at most one
\* recent message for each that came or went meanwhile.
THEOREM ScanMissesOnlyShifted == ScanSpec => []MissesOnlyShifted
<1>1. ScanTypeOK /\ ScanInv => MissesOnlyShifted
  <2> SUFFICES ASSUME ScanTypeOK, ScanInv, scan.stage = "done" PROVE Cardinality(Missed) <= shifts
    BY DEF MissesOnlyShifted
  <2>1. ASSUME NEW s \in Missed PROVE s \in Lost
    <3>1. s \in window /\ shown[s] = "text" /\ s \notin excused /\ scan.todo = {}
      BY DEF Missed, ScanInv
    <3>2. Before(s) \in Nat /\ scan.page * PageSize \in Nat
      BY ListedFacts, ScanBoundsAssumption DEF ScanTypeOK, Scans
    <3>3. Behind(s)
      BY <3>2, ScanBoundsAssumption DEF Behind, ScanInv
    <3> QED
      BY <3>1, <3>3 DEF Lost
  <2>2. IsFiniteSet(Lost) /\ Cardinality(Missed) <= Cardinality(Lost) /\ IsFiniteSet(Missed)
    BY <2>1, LostFinite, FS_Subset
  <2>3. Cardinality(Missed) \in Nat /\ Cardinality(Lost) \in Nat /\ shifts \in Nat
    BY <2>2, FS_CardinalityType DEF ScanTypeOK
  <2> QED
    BY <2>2, <2>3 DEF ScanInv
<1> QED
  BY TypeInit, TypeStep, ScanInvInit, ScanStep, <1>1, PTL DEF ScanSpec
==============================================================================
