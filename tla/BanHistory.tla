------------------------------ MODULE BanHistory ------------------------------
(***************************************************************************)
(* Bans with the history its properties need: whether something has        *)
(* happened from which the plugin does not recover the account, or the     *)
(* profile, since either was last as it should be.                         *)
(*                                                                         *)
(* These are all such events: two requests that overlap (no lock covers    *)
(* their calls), a second ban of a banned member (banUser does not look),  *)
(* a roll back that fails, a placeholder that could not be recorded, and   *)
(* the System Console changing the account.                                *)
(***************************************************************************)
EXTENDS Bans

VARIABLES
    drifted, \* account and record: an event since they last agreed between requests
    mislaid  \* the profile: an event since the member's own last showed between requests

historyVars == <<drifted, mislaid>>

\* The record says what the account is.
Agree == ban # NoBan <=> ~active

Overlap == ~Quiescent /\ \E h \in Admins : stage[h] = "idle" /\ stage'[h] # "idle"
LosesRollBack == \E h \in Admins : (RollBack(h) \/ Redeactivate(h)) /\ ~Works

\* A second ban: its record fails, and the roll back activates the account of a
\* member who was banned before; or it is stored, in place of the first one's.
LosesSecondBan == ban # NoBan /\ \E h \in Admins : RecordBan(h) /\ ~Works
ReplacesRecord == ban # NoBan /\ \E h \in Admins : RecordBan(h) /\ Works

LosesPlaceholder == \E h \in Admins : RecordPlaceholder(h) /\ ~Works

History ==
    /\ drifted' = (/\ ~(Quiescent /\ Agree)'
                   /\ drifted \/ Overlap \/ LosesRollBack \/ LosesSecondBan \/ ConsoleSetActive)
    /\ mislaid' = (/\ ~(Quiescent' /\ profile' \notin Placeholders)
                   /\ mislaid \/ Overlap \/ ReplacesRecord \/ LosesPlaceholder)

HistoryInit == BanInit /\ drifted = FALSE /\ mislaid = FALSE
HistoryNext == BanNext /\ History
HistorySpec == HistoryInit /\ [][HistoryNext]_<<banVars, historyVars>>

------------------------------------------------------------------------------
(* What is expected of bans.                                               *)

\* "Keep account state and ban record consistent" (banUser, unbanUser): between
\* requests a member has a ban record exactly when the account is inactive.
\* Whatever calls fail in whichever request, only an overlap, a roll back that
\* fails as well, the lost record of a second ban or the System Console can
\* leave them apart.
Consistent == Quiescent /\ ~drifted => Agree

\* "Record the original profile before changing it, so an unban can always
\* restore it" (banUser): while the member shows a placeholder, the record, or
\* the unban that has read it, holds the member's own profile with this very
\* placeholder, or a ban is about to add that, or an unban has warned that it
\* could not put the profile back.  Only an overlap, a second ban or a
\* placeholder that could not be recorded can lose it.
Restorable(rec) == Holds(rec) /\ rec.placeholder = profile
IdentityKept ==
    profile \in Placeholders /\ ~warned /\ ~mislaid =>
        \/ Restorable(ban)
        \/ \E h \in Admins :
               stage[h] \in UnbanStages \cup {"recordPlaceholder"} /\ Restorable(draft[h])
==============================================================================
