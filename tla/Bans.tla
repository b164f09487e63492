-------------------------------- MODULE Bans --------------------------------
(***************************************************************************)
(* Banning and unbanning one member (banUser and unbanUser in              *)
(* server/actions.go).                                                     *)
(*                                                                         *)
(* A ban touches three things one call at a time: the account, which it    *)
(* deactivates; the member's profile (username and name), which it         *)
(* replaces with a placeholder; and the ban record, which keeps what an    *)
(* unban needs to put the profile back.  No lock covers the calls, each of *)
(* them can fail, and some failures are rolled back.                       *)
(***************************************************************************)
EXTENDS Naturals

CONSTANTS
    Admins,      \* who bans and unbans, one request at a time each
    Rebans,      \* whether a member with a ban record may be banned again
    Outside,     \* whether the System Console changes account and profile
    Faulty,      \* the kinds of call that may fail
    MaxFaults,   \* bound: calls that fail
    NoBan,       \* no ban record
    NoIdentity   \* a record without the original profile

\* The member's own profile, one set in the System Console, and the two
\* placeholders that hideBannedIdentity tries.
Placeholders == {"short", "full"}
Profiles == {"original", "renamed"} \cup Placeholders

\* kvstore.Ban: Identity, Identity.PlaceholderUsername, PictureRemoved.
Ban == [identity : Profiles \cup {NoIdentity}, placeholder : Placeholders \cup {"none"},
        picture : BOOLEAN]

BanStages == {"deactivate", "record", "rollback", "picture", "recordPicture",
              "hide", "hideFull", "recordPlaceholder"}
UnbanStages == {"activate", "delete", "redeactivate", "restore", "update"}

\* Calls that change the account's status, that create or delete the record,
\* that add to a record already stored, or that read or change the profile.
Calls == {"account", "record", "addition", "profile"}

ASSUME ScenarioAssumption ==
    /\ Rebans \in BOOLEAN /\ Outside \in BOOLEAN
    /\ Faulty \subseteq Calls /\ MaxFaults \in Nat
ASSUME BanDistinctAssumption == NoBan \notin Ban /\ NoIdentity \notin Profiles

VARIABLES
    active,   \* whether the account is active
    profile,  \* the member's username and name
    ban,      \* the ban record in the store
    stage,    \* admin -> the next call of its request
    draft,    \* admin -> the record a ban is building or an unban has read
    removes,  \* admin -> removePicture
    warned,   \* whether an unban has warned since the plugin last put a
              \* profile back
    faults    \* calls that have failed

banVars == <<active, profile, ban, stage, draft, removes, warned, faults>>

BanTypeOK ==
    /\ active \in BOOLEAN
    /\ profile \in Profiles
    /\ ban \in Ban \cup {NoBan}
    /\ stage \in [Admins -> {"idle"} \cup BanStages \cup UnbanStages]
    /\ draft \in [Admins -> Ban \cup {NoBan}]
    /\ removes \in [Admins -> BOOLEAN]
    /\ warned \in BOOLEAN
    /\ faults \in 0..MaxFaults

BanInit ==
    /\ active = TRUE
    /\ profile = "original"
    /\ ban = NoBan
    /\ stage = [h \in Admins |-> "idle"]
    /\ draft = [h \in Admins |-> NoBan]
    /\ removes = [h \in Admins |-> FALSE]
    /\ warned = FALSE
    /\ faults = 0

------------------------------------------------------------------------------
(* Steps of a request.                                                     *)

Works == UNCHANGED faults
Fails(call) == call \in Faulty /\ faults < MaxFaults /\ faults' = faults + 1

Goto(h, s) ==
    /\ stage' = [stage EXCEPT ![h] = s]
    /\ UNCHANGED <<draft, removes>>

Leave(h) ==
    /\ stage' = [stage EXCEPT ![h] = "idle"]
    /\ draft' = [draft EXCEPT ![h] = NoBan]
    /\ removes' = [removes EXCEPT ![h] = FALSE]

\* The plugin changes the profile.
Show(new) ==
    /\ profile' = new
    /\ warned' = (warned /\ new \in Placeholders)

\* UpdateActive by the plugin.
SetActive(value) == active' = value

\* Slips: a failed write that is not rolled back, and an unban that expects the
\* short placeholder.
NoRollback(h) == Leave(h)
ExpectShort(h) == profile = "short"

\* The record a ban starts from; HideBannedIdentity decides whether it keeps
\* the profile that User.Get returned.
NewRecord(hide) ==
    [identity |-> IF hide THEN profile ELSE NoIdentity, placeholder |-> "none", picture |-> FALSE]

------------------------------------------------------------------------------
(* banUser.                                                                *)

BanStart(h) ==
    /\ stage[h] = "idle"
    /\ Rebans \/ ban = NoBan
    /\ stage' = [stage EXCEPT ![h] = "deactivate"]
    /\ \E hide \in BOOLEAN : draft' = [draft EXCEPT ![h] = NewRecord(hide)]
    /\ \E remove \in BOOLEAN : removes' = [removes EXCEPT ![h] = remove]
    /\ UNCHANGED <<active, profile, ban, warned, faults>>

Deactivate(h) ==
    /\ stage[h] = "deactivate"
    /\ \/ Works /\ SetActive(FALSE) /\ Goto(h, "record")
       \/ Fails("account") /\ UNCHANGED active /\ Leave(h)
    /\ UNCHANGED <<profile, ban, warned>>

\* What follows the first SetBan, and the attempt on the picture.
AfterPicture(h) ==
    IF draft[h].identity # NoIdentity THEN Goto(h, "hide") ELSE Leave(h)
AfterRecord(h) == IF removes[h] THEN Goto(h, "picture") ELSE AfterPicture(h)

\* A failed SetBan and a failed DeleteBan are followed by a roll back.
RollBackBan(h) == Goto(h, "rollback")
RollBackUnban(h) == Goto(h, "redeactivate")

RecordBan(h) ==
    /\ stage[h] = "record"
    /\ \/ Works /\ ban' = draft[h] /\ AfterRecord(h)
       \/ Fails("record") /\ UNCHANGED ban /\ RollBackBan(h)
    /\ UNCHANGED <<active, profile, warned>>

RollBack(h) ==
    /\ stage[h] = "rollback"
    /\ \/ Works /\ SetActive(TRUE)
       \/ Fails("account") /\ UNCHANGED active
    /\ Leave(h)
    /\ UNCHANGED <<profile, ban, warned>>

\* removeProfilePicture, and the SetBan that records it.
RemovePicture(h) ==
    /\ stage[h] = "picture"
    /\ \/ /\ Works
          /\ stage' = [stage EXCEPT ![h] = "recordPicture"]
          /\ draft' = [draft EXCEPT ![h].picture = TRUE]
          /\ UNCHANGED removes
       \/ Fails("profile") /\ AfterPicture(h)
    /\ UNCHANGED <<active, profile, ban, warned>>

RecordPicture(h) ==
    /\ stage[h] = "recordPicture"
    /\ \/ Works /\ ban' = draft[h]
       \/ Fails("addition") /\ UNCHANGED ban
    /\ AfterPicture(h)
    /\ UNCHANGED <<active, profile, warned>>

\* hideBannedIdentity: the short placeholder, else the full one.
HideProfile(h, from, to, otherwise) ==
    /\ stage[h] = from
    /\ \/ /\ Works
          /\ Show(to)
          /\ stage' = [stage EXCEPT ![h] = "recordPlaceholder"]
          /\ draft' = [draft EXCEPT ![h].placeholder = to]
          /\ UNCHANGED removes
       \/ Fails("profile") /\ UNCHANGED <<profile, warned>> /\ otherwise
    /\ UNCHANGED <<active, ban>>

\* Slip: the placeholder is left empty.
HideBlank(h) == HideProfile(h, "hide", "none", Goto(h, "hideFull"))

HideShort(h) == HideProfile(h, "hide", "short", Goto(h, "hideFull"))
HideFull(h) == HideProfile(h, "hideFull", "full", Leave(h))

RecordPlaceholder(h) ==
    /\ stage[h] = "recordPlaceholder"
    /\ \/ Works /\ ban' = draft[h]
       \/ Fails("addition") /\ UNCHANGED ban
    /\ Leave(h)
    /\ UNCHANGED <<active, profile, warned>>

------------------------------------------------------------------------------
(* unbanUser.                                                              *)

UnbanStart(h) ==
    /\ stage[h] = "idle"
    /\ ban # NoBan
    /\ stage' = [stage EXCEPT ![h] = "activate"]
    /\ draft' = [draft EXCEPT ![h] = ban]
    /\ UNCHANGED <<active, profile, ban, removes, warned, faults>>

Activate(h) ==
    /\ stage[h] = "activate"
    /\ \/ Works /\ SetActive(TRUE) /\ Goto(h, "delete")
       \/ Fails("account") /\ UNCHANGED active /\ Leave(h)
    /\ UNCHANGED <<profile, ban, warned>>

DeleteBan(h) ==
    /\ stage[h] = "delete"
    /\ \/ /\ Works
          /\ ban' = NoBan
          /\ IF draft[h].identity # NoIdentity /\ draft[h].placeholder # "none"
               THEN Goto(h, "restore") ELSE Leave(h)
       \/ /\ Fails("record")
          /\ RollBackUnban(h)
          /\ UNCHANGED ban
    /\ UNCHANGED <<active, profile, warned>>

Redeactivate(h) ==
    /\ stage[h] = "redeactivate"
    /\ \/ Works /\ SetActive(FALSE)
       \/ Fails("account") /\ UNCHANGED active
    /\ Leave(h)
    /\ UNCHANGED <<profile, ban, warned>>

\* restoreBannedIdentity: a profile changed since the ban is left alone.
Hidden(h) == profile = draft[h].placeholder

ReadProfile(h) ==
    /\ stage[h] = "restore"
    /\ \/ Works /\ UNCHANGED warned /\ IF Hidden(h) THEN Goto(h, "update") ELSE Leave(h)
       \/ Fails("profile") /\ warned' = TRUE /\ Leave(h)
    /\ UNCHANGED <<active, profile, ban>>

RestoreProfile(h) ==
    /\ stage[h] = "update"
    /\ \/ Works /\ Show(draft[h].identity)
       \/ Fails("profile") /\ warned' = TRUE /\ UNCHANGED profile
    /\ Leave(h)
    /\ UNCHANGED <<active, ban>>

------------------------------------------------------------------------------
(* The System Console.                                                     *)

ConsoleSetActive ==
    /\ Outside
    /\ active' = ~active
    /\ UNCHANGED <<profile, ban, stage, draft, removes, warned, faults>>

ConsoleRename ==
    /\ Outside
    /\ profile' = "renamed"
    /\ UNCHANGED <<active, ban, stage, draft, removes, warned, faults>>

BanStep(h) ==
    \/ BanStart(h)
    \/ Deactivate(h)
    \/ RecordBan(h)
    \/ RollBack(h)
    \/ RemovePicture(h)
    \/ RecordPicture(h)
    \/ HideShort(h)
    \/ HideFull(h)
    \/ RecordPlaceholder(h)

UnbanStep(h) ==
    \/ UnbanStart(h)
    \/ Activate(h)
    \/ DeleteBan(h)
    \/ Redeactivate(h)
    \/ ReadProfile(h)
    \/ RestoreProfile(h)

BanNext ==
    \/ \E h \in Admins : BanStep(h) \/ UnbanStep(h)
    \/ ConsoleSetActive
    \/ ConsoleRename

BanSpec == BanInit /\ [][BanNext]_banVars

------------------------------------------------------------------------------
(* What is expected of bans.                                               *)

\* A request carries a record exactly while it runs, and the steps on the
\* profile are reached only with a record that holds a profile.
NeedsIdentity == {"hide", "hideFull", "recordPlaceholder", "restore", "update"}
Carried ==
    \A h \in Admins :
        /\ stage[h] = "idle" <=> draft[h] = NoBan
        /\ stage[h] \in NeedsIdentity => draft[h].identity # NoIdentity

Quiescent == \A h \in Admins : stage[h] = "idle"

\* "Record the original profile before changing it, so an unban can always
\* restore it" (banUser): while the member shows a placeholder, the record, or
\* the unban that has read it, holds the member's own profile, or an unban has
\* warned that it could not put it back.
Holds(rec) == rec # NoBan /\ rec.identity \in {"original", "renamed"}
IdentityRecorded ==
    profile \in Placeholders =>
        \/ warned
        \/ Holds(ban)
        \/ \E h \in Admins : stage[h] \in UnbanStages /\ Holds(draft[h])

\* "Unbanning restores the original username and name" (README), and "the
\* returned warning is set when [they] couldn't be restored" (unbanUser):
\* between requests, a member without a ban record shows a placeholder only
\* if an unban has warned.
RestoredOrWarned == Quiescent /\ ban = NoBan /\ profile \in Placeholders => warned
==============================================================================
