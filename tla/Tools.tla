--------------------------------- MODULE Tools ---------------------------------
(***************************************************************************)
(* The moderation tools: which of them the web app offers a viewer on a    *)
(* member, a message or a report (webapp/src: index.tsx and components),   *)
(* and which of them the server permits (server/permissions.go and the     *)
(* checks at the head of each action).                                     *)
(*                                                                         *)
(* The two sides are written apart and share no code.  The server decides; *)
(* the web app offers from the status and the list it received last.       *)
(***************************************************************************)
EXTENDS Naturals

Tiers == {"member", "moderator", "admin"}
Level(tier) == CASE tier = "member" -> 0 [] tier = "moderator" -> 1 [] tier = "admin" -> 2

Ops == {"report_message", "report_user", "mute", "timeout", "warn", "delete_post",
        "escalate", "dismiss", "lift", "remove", "ban", "unban",
        "make_moderator", "remove_moderator"}

\* Who an action is about, as the viewer meets them: their role in the channel,
\* whether they are the viewer, another bot or the plugin's own, a member of the
\* channel, muted or timed out, and banned, by a ban that the viewer may lift or
\* by one of another team.
People == [tier : Tiers, self : BOOLEAN, kind : {"human", "bot", "moderation_bot"},
           here : BOOLEAN, restricted : BOOLEAN, banned : {"no", "here", "elsewhere"}]

------------------------------------------------------------------------------
(* The server: what a caller of this tier may do.                          *)

CanActOn(caller, p) ==
    /\ ~p.self
    /\ p.kind # "moderation_bot"
    /\ Level(caller) >= Level("moderator")
    /\ Level(p.tier) < Level(caller)

CanModerateMember(caller, p) == CanActOn(caller, p) /\ p.here

CanReport(p) ==
    {op \in {"report_message", "report_user"} : ~p.self /\ (op = "report_user" => p.here)}

\* deletePostAsModerator, handleEscalate, handleDismissReport, liftRestrictions
\* and the actions that ask checkCanModerateMember.
CanAsModerator(caller, p) ==
    {op \in {"mute", "timeout", "warn", "delete_post", "escalate", "dismiss", "lift"} :
        /\ Level(caller) >= Level("moderator")
        /\ op \in {"mute", "timeout", "warn"} => CanModerateMember(caller, p)
        /\ op = "delete_post" => p.self \/ CanActOn(caller, p)
        /\ op = "lift" => p.restricted}

\* removeFromChannel, banUser, unbanUser with canUnban, and setModerator.
CanAsAdmin(caller, p) ==
    {op \in {"remove", "ban", "unban", "make_moderator", "remove_moderator"} :
        /\ Level(caller) = Level("admin")
        /\ op \in {"remove", "ban"} => CanModerateMember(caller, p)
        /\ op # "remove" /\ op # "unban" => p.kind = "human"
        /\ op = "unban" => p.banned = "here"
        /\ op = "make_moderator" => p.here}

Permits(caller, p) == CanReport(p) \cup CanAsModerator(caller, p) \cup CanAsAdmin(caller, p)

------------------------------------------------------------------------------
(* The web app: what it offers a viewer whose status shows this tier.      *)

Offer(cond, ops) == IF cond THEN ops ELSE {}

is_moderator(shown) == shown # "member"
is_admin(shown) == shown = "admin"

\* Slip: a menu that offers every moderator what is an admin's.
BoldPostMenu(shown, p) ==
    Offer(~p.self,
          {"report_message", "report_user"}
          \cup Offer(is_moderator(shown),
                     {"mute", "timeout", "warn", "delete_post", "escalate", "ban"}))

\* The dropdown menu of a message that p wrote; a system message or a deleted
\* one has none of it.
PostMenu(shown, p) ==
    Offer(~p.self,
          {"report_message", "report_user"}
          \cup Offer(is_moderator(shown), {"mute", "timeout", "warn", "delete_post"})
          \cup Offer(is_moderator(shown) /\ ~is_admin(shown), {"escalate"})
          \cup Offer(is_admin(shown), {"ban"}))

PopoverUserActions(shown, p) ==
    Offer(~p.self /\ p.kind = "human",
          {"report_user"}
          \cup Offer(is_moderator(shown), {"mute", "timeout", "warn"})
          \cup Offer(is_moderator(shown) /\ ~is_admin(shown), {"escalate"})
          \cup Offer(is_admin(shown), {"remove", "ban"}))

\* The card of a report about p.
ReportCard(shown, p, report) ==
    Offer(report # "resolved",
          {"timeout", "mute", "dismiss"}
          \cup Offer(is_admin(shown), {"ban"})
          \cup Offer(~is_admin(shown) /\ report = "open", {"escalate"}))

\* listMembers leaves bots out; it lists and finds members of the channel.
Listed(p) == p.kind = "human" /\ p.here

\* The menu of p's row in the members tab.
MemberRow(p) ==
    Offer(Listed(p) /\ ~p.self /\ ~is_admin(p.tier),
          {"timeout", "remove"}
          \cup {IF is_moderator(p.tier) THEN "remove_moderator" ELSE "make_moderator"}
          \cup Offer(p.restricted, {"lift"})
          \cup {IF p.banned # "no" THEN "unban" ELSE "ban"})

\* The side panel: the report queue of moderators, and the members tab of admins.
RHSPanel(shown, p) ==
    Offer(is_moderator(shown),
          UNION {ReportCard(shown, p, report) : report \in {"open", "escalated", "resolved"}})
    \cup Offer(is_admin(shown), MemberRow(p))

Offered(shown, p) ==
    PostMenu(shown, p) \cup PopoverUserActions(shown, p) \cup RHSPanel(shown, p)

------------------------------------------------------------------------------
(* Where the two sides meet.                                               *)

\* Somebody a viewer of this tier may act on: a person of a lower role in the
\* channel, not banned by another team's admin, whose ban only that team lifts.
Subject(viewer, p) ==
    ~p.self /\ Listed(p) /\ Level(p.tier) < Level(viewer) /\ p.banned # "elsewhere"

\* What only somebody of a higher role may do to a member.
Sanctions == {"mute", "timeout", "warn", "remove", "ban"}
==============================================================================
