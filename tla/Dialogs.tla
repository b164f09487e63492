-------------------------------- MODULE Dialogs --------------------------------
(***************************************************************************)
(* What a viewer does with the tools: the dialogs of the web app, the      *)
(* calls they send and the toast that tells how a call ended (actions.ts,  *)
(* reducer.ts, components/modals).                                         *)
(*                                                                         *)
(* A report or a timeout is chosen in a dialog, which waits for its own    *)
(* call with the button turned off and closes when it succeeds.  Deleting, *)
(* banning and removing are confirmed in a dialog that closes before its   *)
(* call is sent.  The other tools send a call at once.  The viewer may     *)
(* cancel a dialog that waits; the call goes on, and its success closes    *)
(* whichever dialog of its kind is open by then.  The page behind a dialog *)
(* stays within reach of the keyboard, so another dialog may be opened on  *)
(* top of it, or the same one for somebody else.                           *)
(***************************************************************************)
EXTENDS Tools

CONSTANTS
    Persons,    \* whom the viewer meets
    Menu,       \* the tools the viewer makes use of
    Slots,      \* bound: calls under way at once
    MaxChanges, \* bound: changes of the viewer's role
    NoDialog,   \* nothing in this slice of the state
    NoCall      \* a slot without a call

ASSUME PersonsAssumption == Persons \subseteq People
ASSUME MenuAssumption == Menu \subseteq Ops
ASSUME ChangesAssumption == MaxChanges \in Nat

\* reportModal, timeoutModal and confirmModal.
Kinds == {"report", "timeout", "confirm"}
KindOf(op) ==
    CASE op \in {"report_message", "report_user"} -> "report"
      [] op = "timeout" -> "timeout"
      [] op \in {"delete_post", "ban", "remove"} -> "confirm"
      [] OTHER -> "none"

\* The dialogs that wait for their call.
Waiting == {"report", "timeout"}

\* A dialog is chosen once it has a reason or a duration, and busy while it
\* submits.
OpenDialogs == [op : Menu, about : Persons, chosen : BOOLEAN, busy : BOOLEAN]

\* live says that the dialog that sent the call has been open ever since.
Calls == [op : Menu, about : Persons, live : BOOLEAN,
          stage : {"sent", "accepted", "refused", "failed"}]

ASSUME DistinctAssumption == NoDialog \notin OpenDialogs /\ NoCall \notin Calls

VARIABLES
    role,    \* the viewer's role in the channel
    changes, \* how often it has changed
    shown,   \* the role in the status received last
    dialog,  \* kind -> the dialog that is open
    call,    \* slot -> the call under way
    toast,   \* the toast
    timers   \* timers set to hide it, not yet fired or cleared

vars == <<role, changes, shown, dialog, call, toast, timers>>
standing == <<role, changes, shown>>
notice == <<toast, timers>>

TypeOK ==
    /\ role \in Tiers /\ shown \in Tiers
    /\ changes \in 0..MaxChanges
    /\ dialog \in [Kinds -> OpenDialogs \cup {NoDialog}]
    /\ call \in [Slots -> Calls \cup {NoCall}]
    /\ toast \in {"none", "done", "error"}
    /\ timers \in Nat

Init ==
    /\ role \in Tiers /\ shown = "member"
    /\ changes = 0
    /\ dialog = [k \in Kinds |-> NoDialog]
    /\ call = [s \in Slots |-> NoCall]
    /\ toast = "none" /\ timers = 0

IsOpen(k) == dialog[k] # NoDialog
UsedTools(p) == Menu \cap Offered(shown, p)

------------------------------------------------------------------------------
(* The viewer.                                                             *)

\* Slip: a dialog that is closed and opened again takes an old call for its own.
ForgetClosing(calls, kinds) == calls

\* The calls once the dialogs of these kinds are gone.
Orphaned(calls, kinds) ==
    [s \in Slots |->
        IF calls[s] # NoCall /\ KindOf(calls[s].op) \in kinds
        THEN [calls[s] EXCEPT !.live = FALSE] ELSE calls[s]]

NewDialog(op, p) == [op |-> op, about |-> p, chosen |-> FALSE, busy |-> FALSE]

\* openReportModal, openTimeoutModal, openConfirmModal: a dialog that is open
\* already keeps what has been chosen in it and goes on waiting.
OpenDialog(op, p) ==
    LET k == KindOf(op)
    IN  /\ op \in UsedTools(p) /\ k \in Kinds
        /\ dialog' = [dialog EXCEPT ![k] =
                        IF IsOpen(k) THEN [@ EXCEPT !.op = op, !.about = p]
                        ELSE NewDialog(op, p)]
        /\ UNCHANGED <<standing, call, notice>>

Choose(k) ==
    /\ IsOpen(k) /\ k \in Waiting /\ ~dialog[k].chosen
    /\ dialog' = [dialog EXCEPT ![k].chosen = TRUE]
    /\ UNCHANGED <<standing, call, notice>>

\* Cancelling, or a click beside the dialog, closes one; Escape closes all of
\* them (useEscape).  Nothing keeps a busy dialog from being closed.
Close(kinds) ==
    /\ \A k \in kinds : IsOpen(k)
    /\ dialog' = [k \in Kinds |-> IF k \in kinds THEN NoDialog ELSE dialog[k]]
    /\ call' = Orphaned(call, kinds)
    /\ UNCHANGED <<standing, notice>>
Cancel(k) == Close({k})
Escape == (\E k \in Kinds : IsOpen(k)) /\ Close({k \in Kinds : IsOpen(k)})

NewCall(op, p, live) == [op |-> op, about |-> p, live |-> live, stage |-> "sent"]
Send(s, op, p, live) ==
    /\ call[s] = NoCall
    /\ call' = [call EXCEPT ![s] = NewCall(op, p, live)]

CanSubmit(k) == IsOpen(k) /\ k \in Waiting /\ dialog[k].chosen /\ ~dialog[k].busy

\* submit of the report and timeout dialogs.
Submit(k, s) ==
    /\ CanSubmit(k)
    /\ Send(s, dialog[k].op, dialog[k].about, TRUE)
    /\ dialog' = [dialog EXCEPT ![k].busy = TRUE]
    /\ UNCHANGED <<standing, notice>>

\* confirm and runConfirmAction, up to the first await.
Confirm(s) ==
    /\ IsOpen("confirm")
    /\ Send(s, dialog["confirm"].op, dialog["confirm"].about, FALSE)
    /\ dialog' = [dialog EXCEPT !["confirm"] = NoDialog]
    /\ UNCHANGED <<standing, notice>>

\* muteUser, warnUser, escalateUser, dismissReport, ...
Act(s, op, p) ==
    /\ op \in UsedTools(p) /\ KindOf(op) \notin Kinds
    /\ Send(s, op, p, FALSE)
    /\ UNCHANGED <<standing, dialog, notice>>

------------------------------------------------------------------------------
(* The server and the answers.                                             *)

\* A role is given or taken; the status follows (Panel says how).
ChangeRole ==
    /\ changes < MaxChanges
    /\ role' \in Tiers \ {role}
    /\ changes' = changes + 1
    /\ UNCHANGED <<shown, dialog, call, notice>>

ReceiveStatus ==
    /\ shown # role
    /\ shown' = role
    /\ UNCHANGED <<role, changes, dialog, call, notice>>

\* A call that is permitted may fail all the same: a report twice or one too
\* many, nothing left to lift, the connection.
Outcomes(c) ==
    IF c.op \in Permits(role, c.about) THEN {"accepted", "failed"} ELSE {"refused", "failed"}

Answer(s) ==
    /\ call[s] # NoCall /\ call[s].stage = "sent"
    /\ \E outcome \in Outcomes(call[s]) : call' = [call EXCEPT ![s].stage = outcome]
    /\ UNCHANGED <<standing, dialog, notice>>

\* showToast clears the last toast's timer and sets its own.
ShowToast(t) == toast' = t /\ timers' = 1

HideToast ==
    /\ timers > 0
    /\ toast' = "none" /\ timers' = timers - 1
    /\ UNCHANGED <<standing, dialog, call>>

\* Slip: a failed call leaves its dialog waiting.
KeepWaiting(c) == dialog

\* setSubmitting(false), which reaches nobody once the dialog is gone.
Released(c) ==
    IF c.live THEN [dialog EXCEPT ![KindOf(c.op)].busy = FALSE] ELSE dialog

Done(s) == [call EXCEPT ![s] = NoCall]

\* The end of submitReport, submitTimeout, runConfirmAction, muteUser, ...
Succeed(s) ==
    LET k == KindOf(call[s].op)
    IN  /\ call[s] # NoCall /\ call[s].stage = "accepted"
        /\ dialog' = IF k \in Waiting THEN [dialog EXCEPT ![k] = NoDialog] ELSE dialog
        /\ call' = Orphaned(Done(s), {k} \cap Waiting)
        /\ ShowToast("done")
        /\ UNCHANGED standing

Fail(s) ==
    /\ call[s] # NoCall /\ call[s].stage \in {"refused", "failed"}
    /\ dialog' = Released(call[s])
    /\ call' = Done(s)
    /\ ShowToast("error")
    /\ UNCHANGED standing

Arrive(s) == Succeed(s) \/ Fail(s)

------------------------------------------------------------------------------

View ==
    \/ \E p \in Persons, op \in Menu : OpenDialog(op, p)
    \/ \E k \in Kinds : Choose(k) \/ Cancel(k)
    \/ Escape
    \/ \E s \in Slots :
        \/ \E k \in Kinds : Submit(k, s)
        \/ Confirm(s)
        \/ \E p \in Persons, op \in Menu : Act(s, op, p)

Next ==
    \/ View
    \/ ChangeRole
    \/ ReceiveStatus
    \/ \E s \in Slots : Answer(s) \/ Arrive(s)
    \/ HideToast

Spec == Init /\ [][Next]_vars

\* Calls are answered or given up, and answers arrive.
Fairness == \A s \in Slots : WF_vars(Answer(s)) /\ WF_vars(Arrive(s))
FairSpec == Spec /\ Fairness

------------------------------------------------------------------------------
(* What is expected of the dialogs.                                        *)

\* The call is that of the dialog that is open.
Owns(s, k) == call[s] # NoCall /\ call[s].live /\ KindOf(call[s].op) = k

\* A dialog waits exactly while a call of its own is under way, however often
\* dialogs of its kind are closed and opened again around it, and it never has
\* two: what the viewer chose is not submitted twice at once, and no dialog is
\* left with its button off for good.
BusyIff ==
    /\ \A k \in Waiting : (\E s \in Slots : Owns(s, k)) <=> (IsOpen(k) /\ dialog[k].busy)
    /\ \A s, t \in Slots, k \in Waiting : Owns(s, k) /\ Owns(t, k) => s = t
    /\ \A s \in Slots : call[s] # NoCall /\ call[s].live => KindOf(call[s].op) \in Waiting

\* A dialog holds a tool that is chosen in it.
KindsMatch == \A k \in Kinds : IsOpen(k) => KindOf(dialog[k].op) = k

\* A toast has one timer to hide it, its own, and no timer outlives its toast:
\* a newer toast is not taken down by the timer of an older one.
ToastTimed == timers = IF toast = "none" THEN 0 ELSE 1

DialogInv == TypeOK /\ KindsMatch /\ BusyIff /\ ToastTimed

\* As long as the viewer's role has not changed, the server refuses no tool that
\* the web app offered on somebody of a lower role in the channel, a status not
\* yet received notwithstanding: the menus and the checks of the server, written
\* apart, agree.
OfferedIsPermitted ==
    changes = 0 => \A s \in Slots :
        call[s] # NoCall /\ Subject(role, call[s].about) => call[s].stage # "refused"

\* Every submission ends: its dialog is usable again, or gone.
SubmitEnds ==
    \A k \in Waiting :
        (IsOpen(k) /\ dialog[k].busy) ~> ~(IsOpen(k) /\ dialog[k].busy)
==============================================================================
