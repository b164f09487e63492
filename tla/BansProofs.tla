------------------------------ MODULE BansProofs ------------------------------
(***************************************************************************)
(* Proofs about bans and unbans, for any number of requests and of failing *)
(* calls, for second bans and for whatever the System Console does: types  *)
(* are correct; account and record agree between requests, and the         *)
(* member's own profile is kept for the unban that puts it back, unless    *)
(* one of the events that BanHistory names has intervened.                 *)
(***************************************************************************)
EXTENDS BanHistory, TLAPS

\* BanTypeOK is not inductive as it stands: an unban writes the profile of the record
\* it carries, so the record must be there and hold one.
BanInv == BanTypeOK /\ Carried

LEMMA InitCarried == BanInit => BanInv
<1> SUFFICES ASSUME BanInit PROVE BanInv
  OBVIOUS
<1>1. faults \in 0..MaxFaults
  BY ScenarioAssumption DEF BanInit
<1>2. BanTypeOK
  BY <1>1 DEF BanInit, BanTypeOK, Profiles
<1>3. Carried
  BY DEF BanInit, Carried, NeedsIdentity
<1> QED
  BY <1>2, <1>3 DEF BanInv

\* Counting failures, moving a request on, and ending it.
LEMMA FaultsTyped ==
    ASSUME BanTypeOK, NEW call, Works \/ Fails(call)
    PROVE  faults' \in 0..MaxFaults
BY ScenarioAssumption DEF BanTypeOK, Works, Fails

LEMMA GotoCarried ==
    ASSUME BanInv, NEW h \in Admins, NEW s \in BanStages \cup UnbanStages, Goto(h, s),
           stage[h] # "idle",
           s \in NeedsIdentity => draft[h].identity # NoIdentity
    PROVE  /\ stage' \in [Admins -> {"idle"} \cup BanStages \cup UnbanStages]
           /\ draft' \in [Admins -> Ban \cup {NoBan}]
           /\ removes' \in [Admins -> BOOLEAN]
           /\ Carried'
<1>1. s # "idle"
  BY DEF BanStages, UnbanStages
<1> QED
  BY <1>1 DEF BanInv, BanTypeOK, Carried, Goto, NeedsIdentity

LEMMA ReturnCarried ==
    ASSUME BanInv, NEW h \in Admins, Leave(h)
    PROVE  /\ stage' \in [Admins -> {"idle"} \cup BanStages \cup UnbanStages]
           /\ draft' \in [Admins -> Ban \cup {NoBan}]
           /\ removes' \in [Admins -> BOOLEAN]
           /\ Carried'
BY DEF BanInv, BanTypeOK, Carried, Leave, NeedsIdentity

\* A request that builds on the record it carries keeps it a record.
LEMMA DraftCarried ==
    ASSUME BanInv, NEW h \in Admins, NEW s \in BanStages, NEW rec \in Ban,
           stage' = [stage EXCEPT ![h] = s],
           draft' = [draft EXCEPT ![h] = rec],
           removes' \in [Admins -> BOOLEAN],
           s \in NeedsIdentity => rec.identity # NoIdentity
    PROVE  /\ stage' \in [Admins -> {"idle"} \cup BanStages \cup UnbanStages]
           /\ draft' \in [Admins -> Ban \cup {NoBan}]
           /\ Carried'
<1>1. s # "idle" /\ rec # NoBan
  BY BanDistinctAssumption DEF BanStages
<1> QED
  BY <1>1 DEF BanInv, BanTypeOK, Carried, NeedsIdentity

\* The record of a request that runs.
LEMMA DraftIsBan ==
    ASSUME BanInv, NEW h \in Admins, stage[h] # "idle"
    PROVE  draft[h] \in Ban
BY DEF BanInv, BanTypeOK, Carried

LEMMA AfterPictureCarried ==
    ASSUME BanInv, NEW h \in Admins, stage[h] # "idle", AfterPicture(h)
    PROVE  /\ stage' \in [Admins -> {"idle"} \cup BanStages \cup UnbanStages]
           /\ draft' \in [Admins -> Ban \cup {NoBan}]
           /\ removes' \in [Admins -> BOOLEAN]
           /\ Carried'
<1>1. CASE draft[h].identity # NoIdentity
  BY <1>1, GotoCarried DEF AfterPicture, BanStages
<1>2. CASE draft[h].identity = NoIdentity
  BY <1>2, ReturnCarried DEF AfterPicture
<1> QED
  BY <1>1, <1>2

LEMMA BanStepCarried ==
    ASSUME BanInv, NEW h \in Admins, BanStep(h)
    PROVE  BanInv'
<1> USE DEF BanInv
<1>1. CASE BanStart(h)
  <2>1. \A hide \in BOOLEAN : NewRecord(hide) \in Ban
    BY DEF NewRecord, Ban, BanTypeOK, Placeholders
  <2>2. PICK hide \in BOOLEAN : draft' = [draft EXCEPT ![h] = NewRecord(hide)]
    BY <1>1 DEF BanStart
  <2>3. removes' \in [Admins -> BOOLEAN]
    BY <1>1 DEF BanStart, BanTypeOK
  <2> QED
    BY <1>1, <2>1, <2>2, <2>3, DraftCarried DEF BanStart, BanStages, NeedsIdentity, BanTypeOK
<1>2. CASE Deactivate(h)
  <2>1. faults' \in 0..MaxFaults
    BY <1>2, FaultsTyped DEF Deactivate
  <2>2. stage[h] # "idle"
    BY <1>2 DEF Deactivate
  <2>3. Goto(h, "record") \/ Leave(h)
    BY <1>2 DEF Deactivate
  <2> QED
    BY <1>2, <2>1, <2>2, <2>3, GotoCarried, ReturnCarried
    DEF Deactivate, SetActive, BanTypeOK, BanStages, NeedsIdentity
<1>3. CASE RecordBan(h)
  <2>1. faults' \in 0..MaxFaults
    BY <1>3, FaultsTyped DEF RecordBan
  <2>2. stage[h] # "idle" /\ draft[h] \in Ban
    BY <1>3, DraftIsBan DEF RecordBan
  <2>3. Goto(h, "picture") \/ AfterPicture(h) \/ Goto(h, "rollback")
    BY <1>3 DEF RecordBan, AfterRecord, RollBackBan
  <2>4. ban' \in Ban \cup {NoBan}
    BY <1>3, <2>2 DEF RecordBan, BanTypeOK
  <2> QED
    BY <1>3, <2>1, <2>2, <2>3, <2>4, GotoCarried, AfterPictureCarried
    DEF RecordBan, BanTypeOK, BanStages, NeedsIdentity
<1>4. CASE RollBack(h)
  BY <1>4, FaultsTyped, ReturnCarried DEF RollBack, SetActive, BanTypeOK
<1>5. CASE RemovePicture(h)
  <2>1. faults' \in 0..MaxFaults
    BY <1>5, FaultsTyped DEF RemovePicture
  <2>2. stage[h] # "idle" /\ draft[h] \in Ban
    BY <1>5, DraftIsBan DEF RemovePicture
  <2>3. CASE AfterPicture(h)
    BY <1>5, <2>1, <2>2, <2>3, AfterPictureCarried DEF RemovePicture, BanTypeOK
  <2>4. CASE ~AfterPicture(h)
    <3> DEFINE rec == [draft[h] EXCEPT !.picture = TRUE]
    <3>1. rec \in Ban
      BY <2>2 DEF Ban
    <3>2. /\ stage' = [stage EXCEPT ![h] = "recordPicture"]
          /\ draft' = [draft EXCEPT ![h] = rec]
          /\ removes' \in [Admins -> BOOLEAN]
      BY <1>5, <2>4 DEF RemovePicture, BanTypeOK
    <3> HIDE DEF rec
    <3> QED
      BY <1>5, <2>1, <3>1, <3>2, DraftCarried DEF RemovePicture, BanStages, NeedsIdentity, BanTypeOK
  <2> QED
    BY <2>3, <2>4
<1>6. CASE RecordPicture(h)
  <2>1. faults' \in 0..MaxFaults
    BY <1>6, FaultsTyped DEF RecordPicture
  <2>2. stage[h] # "idle" /\ draft[h] \in Ban
    BY <1>6, DraftIsBan DEF RecordPicture
  <2>3. ban' \in Ban \cup {NoBan}
    BY <1>6, <2>2 DEF RecordPicture, BanTypeOK
  <2> QED
    BY <1>6, <2>1, <2>2, <2>3, AfterPictureCarried DEF RecordPicture, BanTypeOK
<1>7. ASSUME NEW from \in {"hide", "hideFull"}, NEW to \in Placeholders, NEW otherwise,
             otherwise => Goto(h, "hideFull") \/ Leave(h),
             HideProfile(h, from, to, otherwise)
      PROVE  BanInv'
  <2>1. faults' \in 0..MaxFaults
    BY <1>7, FaultsTyped DEF HideProfile
  <2>2. stage[h] # "idle" /\ draft[h] \in Ban /\ draft[h].identity # NoIdentity
    BY <1>7, DraftIsBan DEF HideProfile, Carried, NeedsIdentity
  <2>3. CASE otherwise /\ UNCHANGED <<profile, warned>>
    BY <1>7, <2>1, <2>2, <2>3, GotoCarried, ReturnCarried
    DEF HideProfile, BanTypeOK, BanStages
  <2>4. CASE ~(otherwise /\ UNCHANGED <<profile, warned>>)
    <3> DEFINE rec == [draft[h] EXCEPT !.placeholder = to]
    <3>1. rec \in Ban /\ rec.identity # NoIdentity
      BY <2>2 DEF Ban
    <3>2. /\ stage' = [stage EXCEPT ![h] = "recordPlaceholder"]
          /\ draft' = [draft EXCEPT ![h] = rec]
          /\ removes' \in [Admins -> BOOLEAN]
          /\ profile' \in Profiles /\ warned' \in BOOLEAN
      BY <1>7, <2>4 DEF HideProfile, BanTypeOK, Show, Profiles
    <3> HIDE DEF rec
    <3> QED
      BY <1>7, <2>1, <3>1, <3>2, DraftCarried DEF HideProfile, BanStages, BanTypeOK
  <2> QED
    BY <2>3, <2>4
<1>8. CASE HideShort(h)
  BY <1>8, <1>7 DEF HideShort, Placeholders
<1>9. CASE HideFull(h)
  BY <1>9, <1>7 DEF HideFull, Placeholders
<1>10. CASE RecordPlaceholder(h)
  <2>1. faults' \in 0..MaxFaults
    BY <1>10, FaultsTyped DEF RecordPlaceholder
  <2>2. draft[h] \in Ban
    BY <1>10, DraftIsBan DEF RecordPlaceholder
  <2> QED
    BY <1>10, <2>1, <2>2, ReturnCarried DEF RecordPlaceholder, BanTypeOK
<1> QED
  BY <1>1, <1>2, <1>3, <1>4, <1>5, <1>6, <1>8, <1>9, <1>10 DEF BanStep

LEMMA UnbanStepCarried ==
    ASSUME BanInv, NEW h \in Admins, UnbanStep(h)
    PROVE  BanInv'
<1> USE DEF BanInv
<1>1. CASE UnbanStart(h)
  BY <1>1, BanDistinctAssumption DEF UnbanStart, BanTypeOK, Carried, UnbanStages, NeedsIdentity
<1>2. CASE Activate(h)
  <2>1. faults' \in 0..MaxFaults
    BY <1>2, FaultsTyped DEF Activate
  <2>2. stage[h] # "idle" /\ (Goto(h, "delete") \/ Leave(h))
    BY <1>2 DEF Activate
  <2> QED
    BY <1>2, <2>1, <2>2, GotoCarried, ReturnCarried
    DEF Activate, SetActive, BanTypeOK, UnbanStages, NeedsIdentity
<1>3. CASE DeleteBan(h)
  <2>1. faults' \in 0..MaxFaults
    BY <1>3, FaultsTyped DEF DeleteBan
  <2>2. /\ stage[h] # "idle"
        /\ \/ Goto(h, "restore") /\ draft[h].identity # NoIdentity
           \/ Leave(h)
           \/ Goto(h, "redeactivate")
    BY <1>3 DEF DeleteBan, RollBackUnban
  <2> QED
    BY <1>3, <2>1, <2>2, GotoCarried, ReturnCarried
    DEF DeleteBan, BanTypeOK, UnbanStages, NeedsIdentity
<1>4. CASE Redeactivate(h)
  BY <1>4, FaultsTyped, ReturnCarried DEF Redeactivate, SetActive, BanTypeOK
<1>5. CASE ReadProfile(h)
  <2>1. faults' \in 0..MaxFaults
    BY <1>5, FaultsTyped DEF ReadProfile
  <2>2. /\ stage[h] # "idle" /\ draft[h].identity # NoIdentity
        /\ Goto(h, "update") \/ Leave(h)
    BY <1>5 DEF ReadProfile, Carried, NeedsIdentity
  <2> QED
    BY <1>5, <2>1, <2>2, GotoCarried, ReturnCarried
    DEF ReadProfile, BanTypeOK, UnbanStages
<1>6. CASE RestoreProfile(h)
  <2>1. faults' \in 0..MaxFaults
    BY <1>6, FaultsTyped DEF RestoreProfile
  <2>2. draft[h].identity \in Profiles
    BY <1>6, DraftIsBan DEF RestoreProfile, Carried, NeedsIdentity, Ban
  <2>3. profile' \in Profiles /\ warned' \in BOOLEAN
    BY <1>6, <2>2 DEF RestoreProfile, Show, BanTypeOK
  <2> QED
    BY <1>6, <2>1, <2>3, ReturnCarried DEF RestoreProfile, BanTypeOK
<1> QED
  BY <1>1, <1>2, <1>3, <1>4, <1>5, <1>6 DEF UnbanStep

LEMMA OthersCarried ==
    ASSUME BanInv, ConsoleSetActive \/ ConsoleRename \/ UNCHANGED banVars
    PROVE  BanInv'
BY DEF BanInv, ConsoleSetActive, ConsoleRename, banVars, BanTypeOK, Carried, Profiles

LEMMA BanInvStep == BanInv /\ [BanNext]_banVars => BanInv'
BY BanStepCarried, UnbanStepCarried, OthersCarried DEF BanNext

LEMMA HistoryStep == [HistoryNext]_<<banVars, historyVars>> => [BanNext]_banVars
BY DEF HistoryNext

\* In every behaviour each variable has its type: the profile an unban puts
\* back is always one that a ban recorded, never a missing one (unbanUser reads
\* ban.Identity only when it is there).
THEOREM TypeCorrect == HistorySpec => []BanTypeOK
<1>1. HistoryInit => BanInv
  BY InitCarried DEF HistoryInit
<1>2. BanInv => BanTypeOK
  BY DEF BanInv
<1> QED
  BY <1>1, <1>2, BanInvStep, HistoryStep, PTL DEF HistorySpec

------------------------------------------------------------------------------
(* A request alone.                                                        *)
(*                                                                         *)
(* No lock covers the calls of a ban or an unban.  What follows is about a *)
(* step that does not make two requests overlap: then whoever takes it is  *)
(* alone.  Both properties are about the time since the last overlap, or   *)
(* rather since account and record, or the profile, were right again.      *)

OneAtATime == \A g, h \in Admins : stage[g] # "idle" /\ stage[h] # "idle" => g = h

LEMMA Alone ==
    ASSUME BanInv, OneAtATime, ~Overlap, NEW h \in Admins, BanStep(h) \/ UnbanStep(h)
    PROVE  /\ \A g \in Admins \ {h} : stage[g] = "idle" /\ stage'[g] = "idle" /\ draft'[g] = draft[g]
           /\ OneAtATime'
           /\ stage[h] = "idle" => Quiescent
<1>1. \A g \in Admins \ {h} : stage'[g] = stage[g] /\ draft'[g] = draft[g]
  BY DEF BanInv, BanTypeOK, BanStep, UnbanStep, BanStart, Deactivate, RecordBan, RollBack, RemovePicture,
         RecordPicture, HideShort, HideFull, HideProfile, RecordPlaceholder, UnbanStart, Activate,
         DeleteBan, Redeactivate, ReadProfile, RestoreProfile, Goto, Leave, AfterRecord, AfterPicture,
         RollBackBan, RollBackUnban
<1>2. stage[h] = "idle" => stage'[h] # "idle"
  BY DEF BanInv, BanTypeOK, BanStep, UnbanStep, BanStart, Deactivate, RecordBan, RollBack, RemovePicture,
         RecordPicture, HideShort, HideFull, HideProfile, RecordPlaceholder, UnbanStart, Activate,
         DeleteBan, Redeactivate, ReadProfile, RestoreProfile
<1>3. stage[h] = "idle" => Quiescent
  BY <1>2 DEF Overlap
<1>4. \A g \in Admins \ {h} : stage[g] = "idle"
  BY <1>3 DEF OneAtATime, Quiescent
<1> QED
  BY <1>1, <1>3, <1>4 DEF OneAtATime

\* A call works or fails, never both.
LEMMA WorksOrFails ==
    ASSUME BanInv, NEW call
    PROVE  ~(Works /\ Fails(call))
<1>1. faults \in Nat
  BY ScenarioAssumption DEF BanInv, BanTypeOK
<1> QED
  BY <1>1 DEF Works, Fails

------------------------------------------------------------------------------
(* Account and record.                                                     *)

Adding == {"picture", "recordPicture", "hide", "hideFull", "recordPlaceholder"}

\* What a request that runs alone knows of account and record.  A second ban finds
\* and keeps a record and an inactive account until it stores its own record.
AccountAt(h) ==
    /\ stage[h] = "deactivate" => Agree
    /\ stage[h] = "record" => ~active
    /\ stage[h] = "rollback" => ban = NoBan /\ ~active
    /\ stage[h] \in Adding \cup {"activate"} => ban # NoBan /\ ~active
    /\ stage[h] \in {"delete", "redeactivate"} => ban # NoBan /\ active
    /\ stage[h] \in {"restore", "update"} => ban = NoBan /\ active

AccountInv == (Quiescent => Agree) /\ \A h \in Admins : AccountAt(h)

LEMMA AccountStep ==
    ASSUME BanInv, BanInv', OneAtATime, AccountInv, [BanNext]_banVars,
           ~Overlap, ~LosesRollBack, ~LosesSecondBan, ~ConsoleSetActive
    PROVE  OneAtATime' /\ AccountInv'
<1>1. CASE ConsoleRename \/ UNCHANGED banVars
  BY <1>1 DEF ConsoleRename, banVars, AccountInv, AccountAt, Agree, Quiescent, OneAtATime
<1>2. ASSUME NEW h \in Admins, BanStep(h) \/ UnbanStep(h)
      PROVE  AccountAt(h)' /\ (stage'[h] = "idle" => Agree')
  <2> USE DEF AccountAt, Agree, Adding
  <2>0. AccountAt(h)
    BY DEF AccountInv
  <2>1. CASE BanStart(h) \/ UnbanStart(h)
    <3>1. Quiescent
      BY <2>1, Alone DEF BanStart, UnbanStart, BanStep, UnbanStep
    <3> QED
      BY <2>1, <3>1 DEF BanStart, UnbanStart, BanInv, BanTypeOK, AccountInv
  <2>2. CASE Deactivate(h) \/ Activate(h)
    BY <2>0, <2>2 DEF Deactivate, Activate, SetActive, Goto, Leave, BanInv, BanTypeOK
  <2>3. CASE RecordBan(h)
    <3>1. draft[h] # NoBan /\ stage[h] = "record"
      BY <2>3, BanDistinctAssumption, DraftIsBan DEF RecordBan
    <3>2. Works \/ ban = NoBan
      BY <2>3 DEF LosesSecondBan
    <3>3. ~(Works /\ Fails("record"))
      BY WorksOrFails
    <3> QED
      BY <2>0, <2>3, <3>1, <3>2, <3>3
         DEF RecordBan, AfterRecord, AfterPicture, RollBackBan, Goto, Leave, BanInv, BanTypeOK
  <2>4. CASE RollBack(h) \/ Redeactivate(h)
    <3>1. Works
      BY <2>4 DEF LosesRollBack
    <3>2. ~Fails("account")
      BY <3>1, WorksOrFails
    <3> QED
      BY <2>0, <2>4, <3>2 DEF RollBack, Redeactivate, SetActive, Leave, BanInv, BanTypeOK
  <2>5. CASE RemovePicture(h) \/ RecordPicture(h) \/ HideShort(h) \/ HideFull(h) \/ RecordPlaceholder(h)
    <3>1. draft[h] # NoBan /\ stage[h] \in Adding
      BY <2>5, BanDistinctAssumption, DraftIsBan
         DEF RemovePicture, RecordPicture, HideShort, HideFull, HideProfile, RecordPlaceholder
    <3>2. /\ UNCHANGED active /\ (ban' = ban \/ ban' = draft[h])
          /\ stage'[h] \in Adding \cup {"idle"}
      BY <2>5 DEF RemovePicture, RecordPicture, HideShort, HideFull, HideProfile, RecordPlaceholder,
                  AfterPicture, Goto, Leave, BanInv, BanTypeOK
    <3> QED
      BY <2>0, <3>1, <3>2
  <2>6. CASE DeleteBan(h)
    BY <2>0, <2>6 DEF DeleteBan, RollBackUnban, Goto, Leave, BanInv, BanTypeOK
  <2>7. CASE ReadProfile(h) \/ RestoreProfile(h)
    BY <2>0, <2>7 DEF ReadProfile, RestoreProfile, Goto, Leave, BanInv, BanTypeOK
  <2> QED
    BY <1>2, <2>1, <2>2, <2>3, <2>4, <2>5, <2>6, <2>7 DEF BanStep, UnbanStep
<1>3. ASSUME NEW h \in Admins, BanStep(h) \/ UnbanStep(h)
      PROVE  OneAtATime' /\ AccountInv'
  <2>1. OneAtATime' /\ \A g \in Admins \ {h} : stage'[g] = "idle"
    BY <1>3, Alone
  <2> QED
    BY <1>2, <1>3, <2>1 DEF AccountInv, AccountAt, Quiescent, Adding
<1> QED
  BY <1>1, <1>3 DEF BanNext

DriftInv == drifted \/ (OneAtATime /\ AccountInv)

LEMMA DriftStep ==
    ASSUME BanInv, BanInv', DriftInv, [HistoryNext]_<<banVars, historyVars>>
    PROVE  DriftInv'
<1>1. CASE UNCHANGED <<banVars, historyVars>>
  BY <1>1 DEF DriftInv, OneAtATime, AccountInv, AccountAt, Agree, Quiescent, banVars, historyVars
<1>2. CASE HistoryNext
  <2>1. CASE (Quiescent /\ Agree)'
    BY <2>1 DEF DriftInv, OneAtATime, AccountInv, AccountAt, Agree, Quiescent, Adding
  <2>2. CASE /\ ~(Quiescent /\ Agree)'
             /\ drifted \/ Overlap \/ LosesRollBack \/ LosesSecondBan \/ ConsoleSetActive
    BY <1>2, <2>2 DEF HistoryNext, History, DriftInv
  <2>3. CASE ~(drifted \/ Overlap \/ LosesRollBack \/ LosesSecondBan \/ ConsoleSetActive)
    BY <1>2, <2>3, AccountStep DEF HistoryNext, DriftInv
  <2> QED
    BY <2>1, <2>2, <2>3
<1> QED
  BY <1>1, <1>2

\* Whatever calls fail in however many requests, whoever is banned twice and
\* whatever the System Console does: between requests a member has a ban record
\* exactly when the account is inactive, as long as, since they last agreed, no
\* two requests have overlapped, no roll back has failed, no second ban has failed
\* to store its record and the System Console has not changed the account.
THEOREM AccountMatchesRecord == HistorySpec => []Consistent
<1>1. HistoryInit => BanInv /\ DriftInv
  BY InitCarried DEF HistoryInit, BanInit, DriftInv, OneAtATime, AccountInv, AccountAt, Agree, Quiescent,
                     Adding
<1>2. DriftInv => Consistent
  BY DEF DriftInv, AccountInv, Consistent
<1> QED
  BY <1>1, <1>2, BanInvStep, HistoryStep, DriftStep, PTL DEF HistorySpec

------------------------------------------------------------------------------
(* The member's profile.                                                   *)

Starting == {"deactivate", "record", "rollback"}
Hiding == {"picture", "recordPicture", "hide", "hideFull"}
Reading == {"activate", "delete", "redeactivate"}

\* While the member shows a placeholder, the record names it and holds the member's own profile.
Remembered(rec) == profile \in Placeholders => warned \/ Restorable(rec)

\* A record holds a placeholder for the member's own profile only if that was what an unban left.
Own(rec) == rec.identity \in Placeholders => warned

\* What a request that runs alone knows of the profile.  A second ban leaves the record of the
\* first in force until it stores its own.
ProfileAt(h) ==
    /\ stage[h] \in Starting => Remembered(ban) /\ (ban = NoBan => Own(draft[h]))
    /\ stage[h] \in Hiding => Own(draft[h]) /\ (profile \in Placeholders => warned)
    /\ stage[h] = "recordPlaceholder" => Remembered(draft[h])
    /\ stage[h] \in Reading => ban = draft[h] /\ Remembered(draft[h])
    /\ stage[h] \in {"restore", "update"} => Remembered(draft[h])
    /\ stage[h] = "update" => warned \/ Holds(draft[h])

ProfileInv == (Quiescent => Remembered(ban)) /\ \A h \in Admins : ProfileAt(h)

LEMMA ProfileStep ==
    ASSUME BanInv, BanInv', OneAtATime, ProfileInv, [BanNext]_banVars,
           ~Overlap, ~ReplacesRecord, ~LosesPlaceholder
    PROVE  OneAtATime' /\ ProfileInv'
<1>1. CASE ConsoleSetActive \/ ConsoleRename \/ UNCHANGED banVars
  BY <1>1 DEF ConsoleSetActive, ConsoleRename, banVars, ProfileInv, ProfileAt, Quiescent, OneAtATime,
              Own, Remembered, Restorable, Holds, Placeholders
<1>2. ASSUME NEW h \in Admins, BanStep(h) \/ UnbanStep(h)
      PROVE  ProfileAt(h)' /\ (stage'[h] = "idle" => Remembered(ban)')
  <2> USE DEF ProfileAt, Starting, Hiding, Reading
  <2>0. ProfileAt(h) /\ NoIdentity \notin Placeholders /\ "none" \notin Placeholders
    BY BanDistinctAssumption DEF ProfileInv, Profiles, Placeholders
  <2>1. CASE BanStart(h)
    <3>1. Quiescent
      BY <2>1, Alone DEF BanStart, BanStep
    <3>2. Remembered(ban)
      BY <3>1 DEF ProfileInv
    <3>3. PICK hide \in BOOLEAN : draft'[h] = NewRecord(hide)
      BY <2>1 DEF BanStart, BanInv, BanTypeOK
    <3>4. draft'[h].identity \in {profile, NoIdentity}
      BY <3>3 DEF NewRecord
    <3>5. UNCHANGED <<profile, ban, warned>> /\ stage'[h] = "deactivate"
      BY <2>1 DEF BanStart, BanInv, BanTypeOK
    <3>6. ban = NoBan => Own(draft[h])'
      BY <2>0, <3>2, <3>4, <3>5 DEF Own, Remembered, Restorable, Holds
    <3> QED
      BY <3>2, <3>5, <3>6 DEF Remembered, Restorable, Holds
  <2>2. CASE UnbanStart(h)
    <3>1. Quiescent
      BY <2>2, Alone DEF UnbanStart, UnbanStep
    <3> QED
      BY <2>2, <3>1 DEF UnbanStart, BanInv, BanTypeOK, ProfileInv, Remembered, Restorable, Holds
  <2>3. CASE Deactivate(h) \/ RollBack(h)
    BY <2>0, <2>3 DEF Deactivate, RollBack, Goto, Leave, BanInv, BanTypeOK, Own, Remembered, Restorable, Holds
  <2>4. CASE RecordBan(h)
    <3>1. stage[h] = "record" /\ draft[h] # NoBan /\ UNCHANGED <<profile, warned>>
      BY <2>4, DraftIsBan, BanDistinctAssumption DEF RecordBan
    <3>2. CASE Works
      <4>1. ban = NoBan
        BY <2>4, <3>2 DEF ReplacesRecord
      <4>2. ban' = draft[h] /\ AfterRecord(h)
        BY <2>4, <3>2, WorksOrFails DEF RecordBan
      <4>3. Own(draft[h]) /\ (profile \in Placeholders => warned)
        BY <2>0, <3>1, <4>1 DEF Remembered, Restorable, Holds
      <4>4. stage'[h] \in Hiding \cup {"idle"} /\ (stage'[h] # "idle" => draft'[h] = draft[h])
        BY <4>2 DEF AfterRecord, AfterPicture, Goto, Leave, BanInv, BanTypeOK
      <4> QED
        BY <3>1, <4>3, <4>4 DEF Own, Remembered
    <3>3. CASE ~Works
      <4>1. ban' = ban /\ stage'[h] = "rollback" /\ draft'[h] = draft[h]
        BY <2>4, <3>3 DEF RecordBan, RollBackBan, Goto, BanInv, BanTypeOK
      <4> QED
        BY <2>0, <3>1, <4>1 DEF Own, Remembered, Restorable, Holds
    <3> QED
      BY <3>2, <3>3
  <2>5. CASE RemovePicture(h) \/ RecordPicture(h)
    <3>1. draft[h] \in Ban /\ stage[h] \in Hiding /\ UNCHANGED <<profile, warned>>
      BY <2>5, DraftIsBan DEF RemovePicture, RecordPicture
    <3>2. /\ stage'[h] \in Hiding \cup {"idle"}
          /\ stage'[h] # "idle" => draft'[h].identity = draft[h].identity
      BY <2>5, <3>1 DEF RemovePicture, RecordPicture, AfterPicture, Goto, Leave, BanInv, BanTypeOK, Ban
    <3> QED
      BY <2>0, <3>1, <3>2 DEF Own, Remembered
  <2>6. ASSUME NEW from \in {"hide", "hideFull"}, NEW to \in Placeholders, NEW otherwise,
               otherwise => Goto(h, "hideFull") \/ Leave(h),
               HideProfile(h, from, to, otherwise)
        PROVE  ProfileAt(h)' /\ (stage'[h] = "idle" => Remembered(ban)')
    <3>1. /\ draft[h] \in Ban /\ draft[h] # NoBan /\ draft[h].identity # NoIdentity
          /\ stage[h] = from /\ ban' = ban
      BY <2>6, DraftIsBan, BanDistinctAssumption DEF HideProfile, BanInv, Carried, NeedsIdentity
    <3>2. CASE UNCHANGED <<profile, warned>> /\ otherwise
      BY <2>0, <2>6, <3>1, <3>2 DEF Goto, Leave, BanInv, BanTypeOK, Own, Remembered
    <3>3. CASE /\ Show(to) /\ stage'[h] = "recordPlaceholder"
               /\ draft'[h] = [draft[h] EXCEPT !.placeholder = to]
      <4>1. draft'[h].identity = draft[h].identity /\ draft'[h].placeholder = to
            /\ draft'[h] # NoBan
        BY <3>1, <3>3, BanDistinctAssumption DEF Ban, BanInv, BanTypeOK
      <4>2. draft[h].identity \in {"original", "renamed"} \/ warned
        BY <2>0, <3>1 DEF Own, Ban, Profiles
      <4>3. profile' = to /\ warned' = warned
        BY <2>6, <3>3 DEF Show, BanInv, BanTypeOK
      <4> QED
        BY <3>3, <4>1, <4>2, <4>3 DEF Remembered, Restorable, Holds
    <3> QED
      BY <2>6, <3>2, <3>3 DEF HideProfile, BanInv, BanTypeOK
  <2>7. CASE HideShort(h) \/ HideFull(h)
    BY <2>6, <2>7 DEF HideShort, HideFull, Placeholders
  <2>8. CASE RecordPlaceholder(h)
    <3>1. Works
      BY <2>8 DEF LosesPlaceholder
    <3>2. /\ ban' = draft[h] /\ stage'[h] = "idle" /\ stage[h] = "recordPlaceholder"
          /\ UNCHANGED <<profile, warned>>
      BY <2>8, <3>1, WorksOrFails DEF RecordPlaceholder, Leave, BanInv, BanTypeOK
    <3> QED
      BY <2>0, <3>2 DEF Remembered, Restorable, Holds
  <2>9. CASE Activate(h) \/ Redeactivate(h)
    <3>1. /\ UNCHANGED <<profile, ban, warned>> /\ stage[h] \in Reading
          /\ \/ stage'[h] = "idle"
             \/ stage'[h] \in Reading /\ draft'[h] = draft[h]
      BY <2>9 DEF Activate, Redeactivate, Goto, Leave, BanInv, BanTypeOK
    <3> QED
      BY <2>0, <3>1 DEF Remembered, Restorable, Holds
  <2>10. CASE DeleteBan(h)
    <3>1. /\ stage[h] = "delete" /\ UNCHANGED <<profile, warned>>
          /\ \/ ban' = NoBan /\ stage'[h] = "restore" /\ draft'[h] = draft[h]
             \/ /\ ban' = NoBan /\ stage'[h] = "idle"
                /\ draft[h].identity = NoIdentity \/ draft[h].placeholder = "none"
             \/ ban' = ban /\ stage'[h] = "redeactivate" /\ draft'[h] = draft[h]
      BY <2>10 DEF DeleteBan, RollBackUnban, Goto, Leave, BanInv, BanTypeOK
    <3>2. NoIdentity \notin {"original", "renamed"}
      BY BanDistinctAssumption DEF Profiles
    <3> QED
      BY <2>0, <3>1, <3>2 DEF Remembered, Restorable, Holds
  <2>11. CASE ReadProfile(h)
    <3>1. /\ stage[h] = "restore" /\ UNCHANGED <<profile, ban>>
          /\ \/ /\ UNCHANGED warned /\ profile = draft[h].placeholder
                /\ stage'[h] = "update" /\ draft'[h] = draft[h]
             \/ UNCHANGED warned /\ profile # draft[h].placeholder /\ stage'[h] = "idle"
             \/ warned' = TRUE /\ stage'[h] = "idle"
      BY <2>11 DEF ReadProfile, Hidden, Goto, Leave, BanInv, BanTypeOK
    <3>2. draft[h].placeholder \in Placeholders \cup {"none"} /\ profile \in Profiles
      BY <2>11, DraftIsBan DEF ReadProfile, Ban, BanInv, BanTypeOK
    <3>3. "none" \notin Profiles
      BY DEF Profiles, Placeholders
    <3> QED
      BY <2>0, <3>1, <3>2, <3>3 DEF Remembered, Restorable, Holds
  <2>12. CASE RestoreProfile(h)
    <3>1. /\ stage[h] = "update" /\ stage'[h] = "idle"
          /\ \/ /\ profile' = draft[h].identity
                /\ warned' = (warned /\ draft[h].identity \in Placeholders)
             \/ warned' = TRUE
      BY <2>12 DEF RestoreProfile, Show, Leave, BanInv, BanTypeOK
    <3>2. "original" \notin Placeholders /\ "renamed" \notin Placeholders
      BY DEF Placeholders
    <3> QED
      BY <2>0, <3>1, <3>2 DEF Remembered, Restorable, Holds
  <2> QED
    BY <1>2, <2>1, <2>2, <2>3, <2>4, <2>5, <2>7, <2>8, <2>9, <2>10, <2>11, <2>12 DEF BanStep, UnbanStep
<1>3. ASSUME NEW h \in Admins, BanStep(h) \/ UnbanStep(h)
      PROVE  OneAtATime' /\ ProfileInv'
  <2>1. OneAtATime' /\ \A g \in Admins \ {h} : stage'[g] = "idle"
    BY <1>3, Alone
  <2>2. \A g \in Admins \ {h} : ProfileAt(g)'
    BY <2>1 DEF ProfileAt, Starting, Hiding, Reading
  <2> QED
    BY <1>2, <1>3, <2>1, <2>2 DEF ProfileInv, Quiescent
<1> QED
  BY <1>1, <1>3 DEF BanNext

MislaidInv == mislaid \/ (OneAtATime /\ ProfileInv)

LEMMA MislaidStep ==
    ASSUME BanInv, BanInv', MislaidInv, [HistoryNext]_<<banVars, historyVars>>
    PROVE  MislaidInv'
<1>1. CASE UNCHANGED <<banVars, historyVars>>
  BY <1>1 DEF MislaidInv, OneAtATime, ProfileInv, ProfileAt, Own, Remembered, Restorable, Holds, Quiescent,
              banVars, historyVars
<1>2. CASE HistoryNext
  <2>1. CASE Quiescent' /\ profile' \notin Placeholders
    BY <2>1 DEF MislaidInv, OneAtATime, ProfileInv, ProfileAt, Remembered, Quiescent, Starting, Hiding,
                Reading
  <2>2. CASE /\ ~(Quiescent' /\ profile' \notin Placeholders)
             /\ mislaid \/ Overlap \/ ReplacesRecord \/ LosesPlaceholder
    BY <1>2, <2>2 DEF HistoryNext, History, MislaidInv
  <2>3. CASE ~(mislaid \/ Overlap \/ ReplacesRecord \/ LosesPlaceholder)
    BY <1>2, <2>3, ProfileStep DEF HistoryNext, MislaidInv
  <2> QED
    BY <2>1, <2>2, <2>3
<1> QED
  BY <1>1, <1>2

LEMMA MislaidKept == BanInv /\ MislaidInv => IdentityKept
<1> SUFFICES ASSUME BanInv, MislaidInv, profile \in Placeholders, ~warned, ~mislaid
             PROVE  \/ Restorable(ban)
                    \/ \E h \in Admins :
                          stage[h] \in UnbanStages \cup {"recordPlaceholder"} /\ Restorable(draft[h])
  BY DEF IdentityKept
<1>1. CASE Quiescent
  BY <1>1 DEF MislaidInv, ProfileInv, Remembered
<1>2. ASSUME NEW h \in Admins, stage[h] # "idle"
      PROVE  \/ Restorable(ban)
             \/ stage[h] \in UnbanStages \cup {"recordPlaceholder"} /\ Restorable(draft[h])
  <2>1. ProfileAt(h)
    BY DEF MislaidInv, ProfileInv
  <2>2. stage[h] \in BanStages \cup UnbanStages
    BY <1>2 DEF BanInv, BanTypeOK
  <2> QED
    BY <2>1, <2>2 DEF ProfileAt, Remembered, Starting, Hiding, Reading, BanStages, UnbanStages
<1> QED
  BY <1>1, <1>2 DEF Quiescent

LEMMA ProfileAlways == HistorySpec => []BanInv /\ []MislaidInv
<1>1. HistoryInit => BanInv /\ MislaidInv
  BY InitCarried DEF HistoryInit, BanInit, MislaidInv, OneAtATime, ProfileInv, ProfileAt, Remembered,
                     Placeholders, Starting, Hiding, Reading
<1> QED
  BY <1>1, BanInvStep, HistoryStep, MislaidStep, PTL DEF HistorySpec

\* Whatever calls fail in however many requests, and whenever the System Console
\* renames the member: for as long as a placeholder shows, the record, or the unban
\* that has read it, holds the member's own profile with this very placeholder, or an
\* unban has warned, as long as, since the member's own profile last showed between
\* requests, no two requests have overlapped, no second ban has replaced the record
\* and no placeholder has gone unrecorded.
THEOREM ProfileKept == HistorySpec => []IdentityKept
BY ProfileAlways, MislaidKept, PTL

\* With the same exceptions an unban puts the profile back, or warns (unbanUser).
THEOREM UnbanRestoresOrWarns == HistorySpec => [](~mislaid => RestoredOrWarned)
<1>1. BanInv /\ MislaidInv => (~mislaid => RestoredOrWarned)
  BY DEF MislaidInv, ProfileInv, Remembered, Restorable, Holds, RestoredOrWarned
<1> QED
  BY <1>1, ProfileAlways, PTL
==============================================================================
