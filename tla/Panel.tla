-------------------------------- MODULE Panel --------------------------------
(***************************************************************************)
(* What a viewer's web app shows of one channel's moderation against what  *)
(* the server stores (webapp/src: actions.ts, reducer.ts, index.tsx, the   *)
(* side panel and the root component).                                     *)
(*                                                                         *)
(* The app fetches the viewer's status, the reports and the members.  A    *)
(* websocket event says only that something has changed and makes the app  *)
(* fetch again.  Every call has three moments: it is sent, the server      *)
(* answers from what it stores then, and the answer arrives.  Between the  *)
(* calls of a chain of awaits anything may happen.                         *)
(***************************************************************************)
EXTENDS Naturals, Sequences, SequencesExt

CONSTANTS
    MaxChanges, \* bound: changes to the channel
    MaxCalls,   \* bound: calls under way before another thing happens
    Faulty      \* what may go wrong: "loss" of the websocket connection,
                \* answers out of "order", "failure" of a call

ASSUME BoundsAssumption == MaxChanges \in Nat /\ MaxCalls \in Nat

VARIABLES
    server,    \* the viewer's role, the versions of the reports and of the members'
               \* roles and restrictions, the viewer's own included
    connected, \* whether the websocket is up
    events,    \* websocket events not yet delivered
    calls,     \* HTTP calls under way, in the order they were sent
    shown,     \* what was received last: statuses, reports and members
    loaded,    \* whether the members have been received at all
    viewing,   \* whether this is the current channel
    open,      \* whether the side panel is open
    tab        \* rhsTab

socket == <<connected, events>>
view == <<viewing, open, tab>>
vars == <<server, socket, calls, shown, loaded, view>>

Lists == {"status", "reports", "members"}
Tiers == {"member", "moderator", "admin"}
Contents == [tier : Tiers, queue : 0..MaxChanges, members : 0..MaxChanges]

\* emptyStatus, and nothing received.
Blank == [tier |-> "member", queue |-> 0, members |-> 0]

\* was is the role that refreshModerationData found before its first fetch, and
\* "member" for a call outside of it, after which nothing follows either.
Calls == [kind : Lists \cup {"act"}, was : Tiers, stage : {"sent", "answered", "failed"},
          answer : Contents]

TypeOK ==
    /\ server \in Contents
    /\ connected \in BOOLEAN
    /\ events \in 0..MaxChanges
    /\ ~connected => events = 0
    /\ calls \in Seq(Calls) /\ Len(calls) <= 2 * MaxCalls + 2
    /\ shown \in [Lists -> Contents]
    /\ loaded \in BOOLEAN
    /\ viewing \in BOOLEAN /\ open \in BOOLEAN /\ tab \in {"reports", "members"}

IsModerator(s) == s.tier # "member"
IsAdmin(s) == s.tier = "admin"
Age(s) == s.queue + s.members

Call(k, was) == [kind |-> k, was |-> was, stage |-> "sent", answer |-> Blank]
Fetch(k) == Call(k, "member")

\* refreshModerationData, up to its first await.
Refresh == Call("status", shown["status"].tier)

\* The app starts in the channel; the root component fetches the status.
Init ==
    /\ server \in {[Blank EXCEPT !.tier = t] : t \in Tiers}
    /\ connected = TRUE /\ events = 0
    /\ calls = <<Fetch("status")>>
    /\ shown = [k \in Lists |-> Blank]
    /\ loaded = FALSE
    /\ viewing = TRUE /\ open = FALSE /\ tab = "reports"

Room == Len(calls) < MaxCalls

------------------------------------------------------------------------------
(* The server.                                                             *)

\* A report is filed or handled; a role or a restriction changes, which may be
\* the viewer's role.  Whoever administers the channel does so throughout.
Changes ==
    LET roster == [server EXCEPT !.members = @ + 1]
    IN  {[server EXCEPT !.queue = @ + 1], roster}
        \cup (IF IsAdmin(server) THEN {} ELSE
                {[roster EXCEPT !.tier = IF @ = "member" THEN "moderator" ELSE "member"]})

\* publishReportsChanged and publishMembersChanged come after the save.
Change ==
    /\ Age(server) < MaxChanges
    /\ server' \in Changes
    /\ events' = IF connected THEN events + 1 ELSE events
    /\ UNCHANGED connected

ChangeElsewhere ==
    /\ Change
    /\ UNCHANGED <<calls, shown, loaded, view>>

\* The part of the contents that a fetch returns, and to whom: handleStatus,
\* handleListReports, handleListMembers.
View(k) ==
    CASE k = "status"  -> server
      [] k = "reports" -> [Blank EXCEPT !.queue = server.queue]
      [] k = "members" -> [Blank EXCEPT !.members = server.members]
Allowed(k) ==
    CASE k = "status"  -> TRUE
      [] k = "reports" -> IsModerator(server)
      [] k = "members" -> IsAdmin(server)

Respond(i, stage, answer) ==
    /\ i \in DOMAIN calls /\ calls[i].stage = "sent"
    /\ calls' = [calls EXCEPT ![i].stage = stage, ![i].answer = answer]
    /\ UNCHANGED <<shown, loaded, view>>

AnswerFetch(i) ==
    /\ calls[i].kind # "act" /\ Allowed(calls[i].kind)
    /\ Respond(i, "answered", View(calls[i].kind))
    /\ UNCHANGED <<server, socket>>

\* The viewer's own action is carried out like anybody's.
AnswerAct(i) ==
    /\ calls[i].kind = "act"
    /\ Respond(i, "answered", Blank)
    /\ Change
    /\ server'.tier = server.tier

\* A call is refused, or fails on the way.
RefuseCall(i) ==
    /\ Respond(i, "failed", Blank)
    /\ \/ calls[i].kind = "act"
       \/ calls[i].kind # "act" /\ ~Allowed(calls[i].kind)
       \/ "failure" \in Faulty
    /\ UNCHANGED <<server, socket>>

------------------------------------------------------------------------------
(* The app.                                                                *)

\* The side panel's effects: each fetches when what it depends on changes to
\* a state in which it has something to show.
WantsReports == open /\ viewing /\ IsModerator(shown["status"])
WantsMembers == open /\ viewing /\ IsAdmin(shown["status"]) /\ tab = "members"

\* Slip: effects without dependencies run on every render.
EveryRender ==
    (IF WantsReports' THEN <<Fetch("reports")>> ELSE <<>>)
    \o (IF WantsMembers' THEN <<Fetch("members")>> ELSE <<>>)
Effects ==
    (IF WantsReports' /\ ~WantsReports THEN <<Fetch("reports")>> ELSE <<>>)
    \o (IF WantsMembers' /\ ~WantsMembers THEN <<Fetch("members")>> ELSE <<>>)

\* The viewer opens or closes the panel, chooses a tab, leaves the channel or
\* comes back (the root component fetches the status then).
TogglePanel ==
    /\ Room
    /\ open' = ~open
    /\ UNCHANGED <<server, socket, shown, loaded, viewing, tab>>
    /\ calls' = calls \o Effects

ChooseTab(t) ==
    /\ Room /\ WantsReports /\ tab # t
    /\ t = "members" => IsAdmin(shown["status"])
    /\ tab' = t
    /\ UNCHANGED <<server, socket, shown, loaded, viewing, open>>
    /\ calls' = calls \o Effects

SwitchChannel ==
    /\ Room
    /\ viewing' = ~viewing
    /\ UNCHANGED <<server, socket, shown, loaded, open, tab>>
    /\ calls' = calls \o (IF viewing' THEN <<Fetch("status")>> ELSE <<>>) \o Effects

\* The viewer reports, mutes, dismisses, ...
Act ==
    /\ Room
    /\ calls' = Append(calls, Fetch("act"))
    /\ UNCHANGED <<server, socket, shown, loaded, view>>

\* Slip: a refresh fetches the status alone.
StopAfterStatus(c) ==
    CASE c.kind = "act" /\ c.stage = "answered" -> <<Refresh>>
      [] OTHER -> <<>>

\* What follows a call: refreshModerationData goes on to the reports for a
\* moderator and to the members for an admin who has loaded them, whatever
\* became of the call before; an action that succeeded is followed by a refresh.
Then(c) ==
    CASE c.kind = "act" /\ c.stage = "answered" -> <<Refresh>>
      [] c.kind = "status" /\ c.was # "member" -> <<Call("reports", c.was)>>
      [] c.kind = "reports" /\ c.was = "admin" /\ loaded' -> <<Call("members", c.was)>>
      [] OTHER -> <<>>

\* No older answer to the same fetch is still on its way.
InOrder(i) ==
    \A j \in DOMAIN calls :
        calls[j].kind = calls[i].kind /\ calls[j].stage = "answered"
            => Age(calls[j].answer) >= Age(calls[i].answer)

\* An answer arrives: the reducer replaces what was shown.  A failed fetch
\* leaves it in place.
Arrive(i) ==
    LET c == calls[i]
    IN  /\ i \in DOMAIN calls /\ c.stage # "sent"
        /\ c.stage = "answered" => "order" \in Faulty \/ InOrder(i)
        /\ IF c.stage = "answered" /\ c.kind \in Lists
             THEN /\ shown' = [shown EXCEPT ![c.kind] = c.answer]
                  /\ loaded' = (loaded \/ c.kind = "members")
             ELSE UNCHANGED <<shown, loaded>>
        /\ UNCHANGED <<server, socket, view>>
        /\ calls' = RemoveAt(calls, i) \o Then(c) \o Effects

\* Both websocket handlers refresh, whichever channel is current.
Deliver ==
    /\ events > 0 /\ Room
    /\ events' = events - 1
    /\ calls' = Append(calls, Refresh)
    /\ UNCHANGED <<server, connected, shown, loaded, view>>

Disconnect ==
    /\ "loss" \in Faulty /\ connected
    /\ connected' = FALSE /\ events' = 0
    /\ UNCHANGED <<server, calls, shown, loaded, view>>

\* Slip: nobody listens to the reconnection.
NoFetch == <<>>

\* registerReconnectHandler: the status of the current channel.
OnReconnect == IF viewing THEN <<Fetch("status")>> ELSE <<>>

Reconnect ==
    /\ ~connected /\ Room
    /\ connected' = TRUE
    /\ calls' = calls \o OnReconnect
    /\ UNCHANGED <<server, events, shown, loaded, view>>

------------------------------------------------------------------------------

\* Somebody does something; the rest follows from it.
Somebody ==
    \/ ChangeElsewhere
    \/ TogglePanel
    \/ \E t \in {"reports", "members"} : ChooseTab(t)
    \/ SwitchChannel
    \/ Act
    \/ Disconnect

Answer == \E i \in DOMAIN calls : AnswerFetch(i) \/ AnswerAct(i) \/ RefuseCall(i)
Receive == \E i \in DOMAIN calls : Arrive(i)

Next == Somebody \/ Answer \/ Receive \/ Deliver \/ Reconnect

Spec == Init /\ [][Next]_vars

\* Calls are answered, answers and events arrive, and the app reconnects.
FairSpec ==
    /\ Spec
    /\ WF_vars(Answer) /\ WF_vars(Receive) /\ WF_vars(Deliver) /\ WF_vars(Reconnect)

------------------------------------------------------------------------------
(* What is expected of the panel.                                          *)

\* There comes a time after which nobody does anything.
Rests == <>[][~Somebody]_vars

InSync(k) == shown[k] = View(k)

\* The status of the channel in view, on which the tools offered and the check
\* of the message box rest, becomes and stays what the server stores, events
\* lost on the way notwithstanding (registerReconnectHandler, ModerationRoot).
StatusRecovers == Rests => <>[](viewing => InSync("status"))

\* "Websocket events keep every open moderation panel in sync" (README): unless
\* the connection is lost, an open panel comes to show the stored reports.
QueueFollows == []connected /\ Rests => <>[](WantsReports => InSync("reports"))

\* "... so the queue and the members tab stay current after actions and
\* websocket events" (refreshModerationData): the same of the members tab.
MembersFollow == []connected /\ Rests => <>[](WantsMembers => InSync("members"))
==============================================================================
