------------------------------ MODULE Sanctioning ------------------------------
(***************************************************************************)
(* What the server does to a member, in one specification: mutes and       *)
(* timeouts with the hooks that enforce them, bans and unbans, and the     *)
(* scan that hides a banned member's messages.                             *)
(*                                                                         *)
(* Where one of them needs another, it takes what the other may do as      *)
(* given: a hook may find the member banned at any moment (Banned), and a  *)
(* scan starts over any channel and may be overtaken by an unban.  Hooks   *)
(* and message boxes change nothing that another reads.  So a behaviour is *)
(* one of the restrictions with a hook, or with a message box, one of the  *)
(* bans or one of a scan: interleaving them would show nothing else.       *)
(***************************************************************************)
EXTENDS Enforcement, BanHistory, HideMessages

VARIABLE part  \* what this behaviour is about

banning == <<banVars, historyVars>>
sanctionVars == <<enforcementVars, banning, scanVars, part>>

\* The parts that the behaviour is not about have nothing to do.
SanctionInit ==
    /\ part \in {"hook", "box", "bans", "scan"}
    /\ EnforcementInit /\ HistoryInit /\ ScanInit
    /\ part \notin {"hook", "box"} => record = [m \in Members |-> NoRecord] /\ others = {}
    /\ part # "scan" =>
         written = {} /\ last = 0 /\ muted = FALSE /\ scan.mode = "placeholder"

SanctionNext ==
    /\ \/ part = "hook" /\ EnforcementNext /\ UNCHANGED <<box, banning, scanVars>>
       \/ part = "box" /\ EnforcementNext /\ UNCHANGED <<hook, banning, scanVars>>
       \/ part = "bans" /\ HistoryNext /\ UNCHANGED <<enforcementVars, scanVars>>
       \/ part = "scan" /\ ScanNext /\ UNCHANGED <<enforcementVars, banning>>
    /\ UNCHANGED part

SanctionSpec == SanctionInit /\ [][SanctionNext]_sanctionVars
==============================================================================
