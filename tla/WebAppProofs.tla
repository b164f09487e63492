----------------------------- MODULE WebAppProofs -----------------------------
(***************************************************************************)
(* Proofs about the web app: what its menus offer against what the server  *)
(* permits, for every viewer and everybody they may meet; the invariant of *)
(* its dialogs, calls and toast; that the server refuses nothing offered   *)
(* while roles rest; and that the search box shows what was asked for.     *)
(***************************************************************************)
EXTENDS WebApp, FiniteSetTheorems, TLAPS

------------------------------------------------------------------------------
(* Tools.                                                                  *)

LEMMA Levels ==
    /\ Level("member") = 0 /\ Level("moderator") = 1 /\ Level("admin") = 2
    /\ \A t \in Tiers : Level(t) \in 0..2
BY DEF Level, Tiers

\* "moderators can act on regular members, admins can also act on moderators, and
\* nobody can act on admins or themselves" (checkCanActOn): no tool that bears on
\* a member is permitted on oneself, or on somebody of the same or a higher role,
\* or on somebody outside the channel.
THEOREM SanctionsNeedRank ==
    ASSUME NEW caller \in Tiers, NEW p \in People,
           p.self \/ ~p.here \/ Level(caller) <= Level(p.tier)
    PROVE  Permits(caller, p) \cap Sanctions = {}
<1>1. p.tier \in Tiers
  BY DEF People
<1>2. Level(caller) \in 0..2 /\ Level(p.tier) \in 0..2
  BY <1>1, Levels
<1>3. ~CanModerateMember(caller, p)
  BY <1>2 DEF CanModerateMember, CanActOn
<1>4. CanReport(p) \cap Sanctions = {}
  BY DEF CanReport, Sanctions
<1>5. CanAsModerator(caller, p) \cap Sanctions = {}
  BY <1>3 DEF CanAsModerator, Sanctions
<1>6. CanAsAdmin(caller, p) \cap Sanctions = {}
  BY <1>3 DEF CanAsAdmin, Sanctions
<1> QED
  BY <1>4, <1>5, <1>6 DEF Permits

\* A higher role is permitted all that a lower one is: a tool offered by a status
\* from before a promotion is still permitted after it.
THEOREM PromotionKeepsTools ==
    ASSUME NEW lower \in Tiers, NEW higher \in Tiers, Level(lower) <= Level(higher),
           NEW p \in People
    PROVE  Permits(lower, p) \subseteq Permits(higher, p)
<1>1. p.tier \in Tiers
  BY DEF People
<1>2. Level(lower) \in 0..2 /\ Level(higher) \in 0..2 /\ Level(p.tier) \in 0..2
  BY <1>1, Levels
<1>3. CanModerateMember(lower, p) => CanModerateMember(higher, p)
  BY <1>2, Levels DEF CanModerateMember, CanActOn
<1>4. CanActOn(lower, p) => CanActOn(higher, p)
  BY <1>2, Levels DEF CanActOn
<1>5. CanAsModerator(lower, p) \subseteq CanAsModerator(higher, p)
  BY <1>2, <1>3, <1>4, Levels DEF CanAsModerator
<1>6. CanAsAdmin(lower, p) \subseteq CanAsAdmin(higher, p)
  BY <1>2, <1>3, Levels DEF CanAsAdmin
<1> QED
  BY <1>5, <1>6 DEF Permits

\* Every menu, popover, card and row offers on such a person only what the server
\* permits a viewer of the role shown.
THEOREM OfferedPermitted ==
    ASSUME NEW viewer \in Tiers, NEW p \in People, Subject(viewer, p)
    PROVE  Offered(viewer, p) \subseteq Permits(viewer, p)
<1>1. p.tier \in Tiers /\ Level(p.tier) \in 0..2 /\ Level(viewer) \in 0..2
  BY Levels DEF People
<1>2. /\ ~p.self /\ p.kind = "human" /\ p.here /\ p.banned # "elsewhere"
      /\ Level(p.tier) < Level(viewer)
  BY DEF Subject, Listed
<1>3. viewer # "member" /\ Level(viewer) >= Level("moderator")
  BY <1>1, <1>2, Levels DEF Tiers
<1>4. CanModerateMember(viewer, p) /\ CanActOn(viewer, p)
  BY <1>2, <1>3 DEF CanModerateMember, CanActOn
<1>5. {"report_message", "report_user", "mute", "timeout", "warn", "delete_post",
       "escalate", "dismiss"} \subseteq Permits(viewer, p)
  BY <1>2, <1>3, <1>4 DEF Permits, CanReport, CanAsModerator
<1>6. ASSUME is_admin(viewer)
      PROVE  {"remove", "ban", "make_moderator", "remove_moderator"} \subseteq Permits(viewer, p)
  BY <1>2, <1>4, <1>6, Levels DEF is_admin, Permits, CanAsAdmin
<1>7. PostMenu(viewer, p) \subseteq Permits(viewer, p)
  BY <1>5, <1>6 DEF PostMenu, Offer
<1>8. PopoverUserActions(viewer, p) \subseteq Permits(viewer, p)
  BY <1>5, <1>6 DEF PopoverUserActions, Offer
<1>9. \A report : ReportCard(viewer, p, report) \subseteq Permits(viewer, p)
  BY <1>5, <1>6 DEF ReportCard, Offer
<1>10. is_admin(viewer) => MemberRow(p) \subseteq Permits(viewer, p)
  <2>1. p.restricted => "lift" \in Permits(viewer, p)
    BY <1>3 DEF Permits, CanAsModerator
  <2>2. is_admin(viewer) /\ p.banned # "no" => "unban" \in Permits(viewer, p)
    <3>1. p.banned \in {"no", "here", "elsewhere"}
      BY DEF People
    <3> QED
      BY <1>2, <3>1, Levels DEF is_admin, Permits, CanAsAdmin
  <2> QED
    BY <1>5, <1>6, <2>1, <2>2 DEF MemberRow, Offer
<1>11. RHSPanel(viewer, p) \subseteq Permits(viewer, p)
  BY <1>9, <1>10 DEF RHSPanel, Offer
<1> QED
  BY <1>7, <1>8, <1>11 DEF Offered

\* Whoever has received no status yet is offered reporting only, which is permitted
\* on everybody else in the channel.
LEMMA StrangersReport ==
    ASSUME NEW viewer \in Tiers, NEW p \in People, ~p.self, p.here
    PROVE  Offered("member", p) \subseteq Permits(viewer, p)
<1>1. Offered("member", p) \subseteq {"report_message", "report_user"}
  BY DEF Offered, PostMenu, PopoverUserActions, RHSPanel, Offer,
         is_moderator, is_admin
<1> QED
  BY <1>1 DEF Permits, CanReport

------------------------------------------------------------------------------
(* Dialogs.                                                                *)

LEMMA KindsOfTools ==
    /\ Waiting \subseteq Kinds /\ "confirm" \in Kinds /\ "confirm" \notin Waiting
    /\ \A op : KindOf(op) \in Kinds \cup {"none"}
    /\ "none" \notin Kinds
BY DEF Waiting, Kinds, KindOf

------------------------------------------------------------------------------
(* Types.                                                                  *)

LEMMA OrphanedType ==
    ASSUME NEW calls \in [Slots -> Calls \cup {NoCall}], NEW kinds
    PROVE  Orphaned(calls, kinds) \in [Slots -> Calls \cup {NoCall}]
<1>1. \A c \in Calls : [c EXCEPT !.live = FALSE] \in Calls
  BY DEF Calls
<1> QED
  BY <1>1 DEF Orphaned

LEMMA TypeInit == Init => TypeOK
BY ChangesAssumption DEF Init, TypeOK, Tiers

\* Typing needs BusyIff: a failing call releases the dialog it belongs to, which
\* has to be there.
LEMMA TypeStep == TypeOK /\ BusyIff /\ [Next]_vars => TypeOK'
<1> SUFFICES ASSUME TypeOK, BusyIff, [Next]_vars PROVE TypeOK'
  OBVIOUS
<1> USE ChangesAssumption
<1>0. /\ \A k \in Kinds : IsOpen(k) => dialog[k] \in OpenDialogs
      /\ \A s \in Slots : call[s] # NoCall => call[s] \in Calls
  BY DEF TypeOK, IsOpen
<1>1. ASSUME NEW p \in Persons, NEW op \in Menu, OpenDialog(op, p) PROVE TypeOK'
  <2>1. NewDialog(op, p) \in OpenDialogs
    BY DEF NewDialog, OpenDialogs
  <2>2. \A d \in OpenDialogs : [d EXCEPT !.op = op, !.about = p] \in OpenDialogs
    BY DEF OpenDialogs
  <2>3. dialog' \in [Kinds -> OpenDialogs \cup {NoDialog}]
    BY <1>0, <1>1, <2>1, <2>2 DEF OpenDialog, TypeOK
  <2> QED
    BY <1>1, <2>3 DEF OpenDialog, TypeOK, standing, notice
<1>2. ASSUME NEW k \in Kinds, Choose(k) PROVE TypeOK'
  <2>1. [dialog[k] EXCEPT !.chosen = TRUE] \in OpenDialogs
    BY <1>0, <1>2 DEF Choose, OpenDialogs
  <2> QED
    BY <1>2, <2>1 DEF Choose, TypeOK, standing, notice
<1>3. ASSUME NEW kinds \in SUBSET Kinds, Close(kinds) PROVE TypeOK'
  BY <1>3, OrphanedType DEF Close, TypeOK, standing, notice
<1>4. ASSUME NEW k \in Kinds, Cancel(k) PROVE TypeOK'
  BY <1>3, <1>4 DEF Cancel
<1>5. ASSUME Escape PROVE TypeOK'
  BY <1>3, <1>5 DEF Escape
<1>6. ASSUME NEW s \in Slots, NEW k \in Kinds, Submit(k, s) PROVE TypeOK'
  <2>1. dialog[k] \in OpenDialogs
    BY <1>0, <1>6 DEF Submit, CanSubmit
  <2>2. [dialog[k] EXCEPT !.busy = TRUE] \in OpenDialogs
    BY <2>1 DEF OpenDialogs
  <2>3. NewCall(dialog[k].op, dialog[k].about, TRUE) \in Calls
    BY <2>1 DEF OpenDialogs, NewCall, Calls
  <2> QED
    BY <1>6, <2>2, <2>3 DEF Submit, Send, TypeOK, standing, notice
<1>7. ASSUME NEW s \in Slots, Confirm(s) PROVE TypeOK'
  <2>1. dialog["confirm"] \in OpenDialogs
    BY <1>0, <1>7, KindsOfTools DEF Confirm
  <2>2. NewCall(dialog["confirm"].op, dialog["confirm"].about, FALSE) \in Calls
    BY <2>1 DEF OpenDialogs, NewCall, Calls
  <2> QED
    BY <1>7, <2>2 DEF Confirm, Send, TypeOK, standing, notice
<1>8. ASSUME NEW s \in Slots, NEW p \in Persons, NEW op \in Menu, Act(s, op, p) PROVE TypeOK'
  <2>1. NewCall(op, p, FALSE) \in Calls
    BY DEF NewCall, Calls
  <2> QED
    BY <1>8, <2>1 DEF Act, Send, TypeOK, standing, notice
<1>9. CASE ChangeRole
  BY <1>9 DEF ChangeRole, TypeOK, notice
<1>10. CASE ReceiveStatus
  BY <1>10 DEF ReceiveStatus, TypeOK, notice
<1>11. ASSUME NEW s \in Slots, Answer(s) PROVE TypeOK'
  <2>1. PICK outcome \in {"accepted", "refused", "failed"} :
          call' = [call EXCEPT ![s].stage = outcome]
    BY <1>11 DEF Answer, Outcomes
  <2>2. [call[s] EXCEPT !.stage = outcome] \in Calls
    BY <1>0, <1>11 DEF Answer, Calls
  <2> QED
    BY <1>11, <2>1, <2>2 DEF Answer, TypeOK, standing, notice
<1>12. ASSUME NEW s \in Slots, Succeed(s) PROVE TypeOK'
  <2>1. Done(s) \in [Slots -> Calls \cup {NoCall}]
    BY DEF Done, TypeOK
  <2>2. call' \in [Slots -> Calls \cup {NoCall}]
    BY <1>12, <2>1, OrphanedType DEF Succeed
  <2>3. dialog' \in [Kinds -> OpenDialogs \cup {NoDialog}]
    BY <1>12 DEF Succeed, TypeOK
  <2> QED
    BY <1>12, <2>2, <2>3 DEF Succeed, ShowToast, TypeOK, standing
<1>13. ASSUME NEW s \in Slots, Fail(s) PROVE TypeOK'
  <2>1. call' \in [Slots -> Calls \cup {NoCall}]
    BY <1>13 DEF Fail, Done, TypeOK
  <2>2. dialog' \in [Kinds -> OpenDialogs \cup {NoDialog}]
    <3> DEFINE k == KindOf(call[s].op)
    <3>1. CASE call[s].live
      <4>1. Owns(s, k) /\ k \in Waiting
        BY <1>13, <3>1 DEF Fail, Owns, BusyIff
      <4>2. k \in Kinds /\ IsOpen(k)
        BY <4>1, KindsOfTools DEF BusyIff
      <4>3. [dialog[k] EXCEPT !.busy = FALSE] \in OpenDialogs
        BY <1>0, <4>2 DEF OpenDialogs
      <4> QED
        BY <1>13, <3>1, <4>2, <4>3 DEF Fail, Released, TypeOK
    <3>2. CASE ~call[s].live
      BY <1>13, <3>2 DEF Fail, Released, TypeOK
    <3> QED
      BY <3>1, <3>2
  <2> QED
    BY <1>13, <2>1, <2>2 DEF Fail, ShowToast, TypeOK, standing
<1>14. CASE HideToast
  BY <1>14 DEF HideToast, TypeOK, standing
<1>15. CASE UNCHANGED vars
  BY <1>15 DEF vars, TypeOK
<1> QED
  BY <1>1, <1>2, <1>4, <1>5, <1>6, <1>7, <1>8, <1>9, <1>10, <1>11, <1>12, <1>13, <1>14, <1>15
     DEF Next, View, Arrive

------------------------------------------------------------------------------
(* Dialogs wait exactly for a call of their own.                           *)

LEMMA BusyInit == Init => BusyIff
BY KindsOfTools DEF Init, BusyIff, Owns, IsOpen

\* Once the dialogs of these kinds are gone, they own nothing, and other calls
\* belong to whom they did.
LEMMA Disowned ==
    ASSUME TypeOK, NEW kinds, call' = Orphaned(call, kinds)
    PROVE  /\ \A s \in Slots, k \in Kinds : Owns(s, k)' <=> Owns(s, k) /\ k \notin kinds
           /\ \A s \in Slots : call'[s] # NoCall /\ call'[s].live =>
                call[s] # NoCall /\ call[s].live /\ KindOf(call'[s].op) = KindOf(call[s].op)
<1> SUFFICES ASSUME NEW s \in Slots
             PROVE  /\ \A k \in Kinds : Owns(s, k)' <=> Owns(s, k) /\ k \notin kinds
                    /\ call'[s] # NoCall /\ call'[s].live =>
                         call[s] # NoCall /\ call[s].live /\ KindOf(call'[s].op) = KindOf(call[s].op)
  OBVIOUS
<1>1. CASE call[s] = NoCall
  BY <1>1 DEF Orphaned, Owns
<1>2. CASE call[s] # NoCall /\ KindOf(call[s].op) \notin kinds
  BY <1>2 DEF Orphaned, Owns
<1>3. CASE call[s] # NoCall /\ KindOf(call[s].op) \in kinds
  <2>1. call[s] \in Calls
    BY <1>3 DEF TypeOK
  <2>2. call'[s] = [call[s] EXCEPT !.live = FALSE]
    BY <1>3 DEF Orphaned
  <2>3. call'[s].live = FALSE /\ call'[s].op = call[s].op
    BY <2>1, <2>2 DEF Calls
  <2> QED
    BY <1>3, <2>3 DEF Owns
<1> QED
  BY <1>1, <1>2, <1>3

\* A slot that gets a call which belongs to no dialog.
LEMMA SentAway ==
    ASSUME TypeOK, BusyIff, NEW s \in Slots, NEW op \in Menu, NEW p, Send(s, op, p, FALSE),
           \A k \in Waiting : IsOpen(k)' /\ dialog'[k].busy <=> IsOpen(k) /\ dialog[k].busy
    PROVE  BusyIff'
<1>1. call[s] = NoCall /\ call'[s] = NewCall(op, p, FALSE)
  BY DEF Send, TypeOK
<1>2. \A k : ~Owns(s, k) /\ ~Owns(s, k)'
  BY <1>1 DEF Owns, NewCall
<1>3. \A t \in Slots : \A k : Owns(t, k)' <=> Owns(t, k)
  BY <1>2 DEF Send, TypeOK, Owns
<1>4. \A t \in Slots : call'[t] # NoCall /\ call'[t].live => KindOf(call'[t].op) \in Waiting
  BY <1>1 DEF Send, TypeOK, NewCall, BusyIff
<1> QED
  BY <1>3, <1>4 DEF BusyIff

\* A dialog that stays open keeps a tool of its kind.
LEMMA KindStep == TypeOK /\ BusyIff /\ KindsMatch /\ [Next]_vars => KindsMatch'
<1> SUFFICES ASSUME TypeOK, BusyIff, KindsMatch, [Next]_vars PROVE KindsMatch'
  OBVIOUS
<1> USE KindsOfTools, DistinctAssumption
<1>0. \A k \in Kinds : IsOpen(k) => dialog[k] \in OpenDialogs
  BY DEF TypeOK, IsOpen
<1>1. ASSUME \A k \in Kinds : IsOpen(k)' => IsOpen(k) /\ dialog'[k].op = dialog[k].op
      PROVE  KindsMatch'
  BY <1>1 DEF KindsMatch
<1>2. ASSUME dialog' = dialog PROVE KindsMatch'
  BY <1>2 DEF KindsMatch, IsOpen
<1>3. ASSUME NEW p \in Persons, NEW op \in Menu, OpenDialog(op, p) PROVE KindsMatch'
  <2> DEFINE k == KindOf(op)
  <2>1. /\ k \in Kinds
        /\ dialog'[k] = IF IsOpen(k) THEN [dialog[k] EXCEPT !.op = op, !.about = p]
                        ELSE NewDialog(op, p)
        /\ \A j \in Kinds \ {k} : dialog'[j] = dialog[j]
    BY <1>3 DEF OpenDialog, TypeOK
  <2>2. dialog'[k].op = op
    BY <1>0, <2>1 DEF NewDialog, OpenDialogs
  <2> QED
    BY <2>1, <2>2 DEF KindsMatch, IsOpen
<1>4. ASSUME NEW k \in Kinds, Choose(k) PROVE KindsMatch'
  <2>1. /\ dialog'[k] = [dialog[k] EXCEPT !.chosen = TRUE] /\ IsOpen(k)
        /\ \A j \in Kinds \ {k} : dialog'[j] = dialog[j]
    BY <1>4 DEF Choose, TypeOK
  <2>2. dialog'[k].op = dialog[k].op
    BY <1>0, <2>1 DEF OpenDialogs
  <2> QED
    BY <1>1, <2>1, <2>2 DEF IsOpen
<1>5. ASSUME NEW kinds \in SUBSET Kinds, Close(kinds) PROVE KindsMatch'
  BY <1>1, <1>5 DEF Close, IsOpen
<1>6. ASSUME NEW s \in Slots, NEW k \in Kinds, Submit(k, s) PROVE KindsMatch'
  <2>1. /\ dialog'[k] = [dialog[k] EXCEPT !.busy = TRUE] /\ IsOpen(k)
        /\ \A j \in Kinds \ {k} : dialog'[j] = dialog[j]
    BY <1>6 DEF Submit, CanSubmit, TypeOK
  <2>2. dialog'[k].op = dialog[k].op
    BY <1>0, <2>1 DEF OpenDialogs
  <2> QED
    BY <1>1, <2>1, <2>2 DEF IsOpen
<1>7. ASSUME NEW s \in Slots, Confirm(s) PROVE KindsMatch'
  BY <1>1, <1>7 DEF Confirm, TypeOK, IsOpen
<1>8. ASSUME NEW s \in Slots, Succeed(s) PROVE KindsMatch'
  BY <1>1, <1>8 DEF Succeed, TypeOK, IsOpen
<1>9. ASSUME NEW s \in Slots, Fail(s) PROVE KindsMatch'
  <2> DEFINE k == KindOf(call[s].op)
  <2>1. CASE call[s].live
    <3>1. k \in Kinds /\ IsOpen(k)
      BY <1>9, <2>1 DEF Fail, Owns, BusyIff
    <3>2. /\ dialog'[k] = [dialog[k] EXCEPT !.busy = FALSE]
          /\ \A j \in Kinds \ {k} : dialog'[j] = dialog[j]
      BY <1>9, <2>1, <3>1 DEF Fail, Released, TypeOK
    <3>3. dialog'[k].op = dialog[k].op
      BY <1>0, <3>1, <3>2 DEF OpenDialogs
    <3> QED
      BY <1>1, <3>1, <3>2, <3>3 DEF IsOpen
  <2>2. CASE ~call[s].live
    BY <1>2, <1>9, <2>2 DEF Fail, Released
  <2> QED
    BY <2>1, <2>2
<1> QED
  BY <1>2, <1>3, <1>4, <1>5, <1>6, <1>7, <1>8, <1>9
     DEF Next, View, Arrive, Cancel, Escape, Act, ChangeRole, ReceiveStatus, Answer, HideToast,
         standing, vars

\* A call that ends, one way or the other.
LEMMA Settled ==
    ASSUME TypeOK, BusyIff, KindsMatch, NEW s \in Slots, Succeed(s) \/ Fail(s)
    PROVE  BusyIff'
<1> PICK k : k = KindOf(call[s].op)
  OBVIOUS
<1> USE KindsOfTools, DistinctAssumption
<1>1. call[s] # NoCall
  BY DEF Succeed, Fail
<1>2. CASE Succeed(s)
  <2>1. \A t \in Slots : call'[t] # NoCall /\ call'[t].live =>
            /\ t # s /\ call[t] # NoCall /\ call[t].live
            /\ call'[t] = call[t] /\ KindOf(call[t].op) \notin {k} \cap Waiting
    <3> SUFFICES ASSUME NEW t \in Slots, call'[t] # NoCall, call'[t].live
                 PROVE  /\ t # s /\ call[t] # NoCall /\ call[t].live
                        /\ call'[t] = call[t] /\ KindOf(call[t].op) \notin {k} \cap Waiting
      OBVIOUS
    <3>1. t # s /\ Done(s)[t] = call[t]
      BY <1>2 DEF Succeed, Done, Orphaned, TypeOK
    <3>2. call[t] # NoCall
      BY <1>2, <3>1 DEF Succeed, Orphaned
    <3>3. call[t] \in Calls
      BY <3>2 DEF TypeOK
    <3>4. [call[t] EXCEPT !.live = FALSE].live = FALSE
      BY <3>3 DEF Calls
    <3> QED
      BY <1>2, <3>1, <3>2, <3>4 DEF Succeed, Orphaned
  <2>2. \A t \in Slots, j \in Kinds : j \notin {k} \cap Waiting /\ t # s /\ Owns(t, j) => Owns(t, j)'
    BY <1>2 DEF Succeed, Orphaned, Done, Owns, TypeOK
  <2>3. \A t \in Slots, j \in Kinds : Owns(t, j)' => Owns(t, j) /\ t # s /\ j \notin {k} \cap Waiting
    BY <2>1 DEF Owns
  <2>4. \A j \in Kinds : /\ j \in {k} \cap Waiting => dialog'[j] = NoDialog
                         /\ j \notin {k} \cap Waiting => dialog'[j] = dialog[j]
    BY <1>2 DEF Succeed, TypeOK
  <2>5. \A j \in Waiting : j # k => ~Owns(s, j)
    BY DEF Owns
  <2>6. \A j \in Waiting : (\E t \in Slots : Owns(t, j)') <=> (IsOpen(j)' /\ dialog'[j].busy)
    <3> SUFFICES ASSUME NEW j \in Waiting
                 PROVE  (\E t \in Slots : Owns(t, j)') <=> (IsOpen(j)' /\ dialog'[j].busy)
      OBVIOUS
    <3>1. CASE j = k
      <4>1. ~IsOpen(j)'
        BY <2>4, <3>1 DEF IsOpen
      <4>2. ~\E t \in Slots : Owns(t, j)'
        BY <2>3, <3>1
      <4> QED
        BY <4>1, <4>2
    <3>2. CASE j # k
      <4>1. dialog'[j] = dialog[j]
        BY <2>4, <3>2
      <4>2. \A t \in Slots : Owns(t, j)' <=> Owns(t, j)
        BY <2>2, <2>3, <2>5, <3>2
      <4>3. (\E t \in Slots : Owns(t, j)) <=> (IsOpen(j) /\ dialog[j].busy)
        BY DEF BusyIff
      <4> QED
        BY <4>1, <4>2, <4>3, Zenon DEF IsOpen
    <3> QED
      BY <3>1, <3>2
  <2>7. \A t, u \in Slots, j \in Waiting : Owns(t, j)' /\ Owns(u, j)' => t = u
    BY <2>3 DEF BusyIff
  <2>8. \A t \in Slots : call'[t] # NoCall /\ call'[t].live => KindOf(call'[t].op) \in Waiting
    BY <2>1 DEF BusyIff
  <2> QED
    BY <2>6, <2>7, <2>8 DEF BusyIff
<1>3. CASE Fail(s)
  <2>1. call'[s] = NoCall /\ \A t \in Slots \ {s} : call'[t] = call[t]
    BY <1>3 DEF Fail, Done, TypeOK
  <2>2. \A t \in Slots : \A j : Owns(t, j)' <=> Owns(t, j) /\ t # s
    BY <2>1 DEF Owns
  <2>3. \A t \in Slots : call'[t] # NoCall /\ call'[t].live => KindOf(call'[t].op) \in Waiting
    BY <2>1 DEF BusyIff
  <2>4. \A t, u \in Slots, j \in Waiting : Owns(t, j)' /\ Owns(u, j)' => t = u
    BY <2>2 DEF BusyIff
  <2>5. \A j \in Waiting : (\E t \in Slots : Owns(t, j)') <=> (IsOpen(j)' /\ dialog'[j].busy)
    <3>1. CASE call[s].live
      <4>1. k \in Waiting /\ Owns(s, k)
        BY <1>1, <3>1 DEF BusyIff, Owns
      <4>2. IsOpen(k) /\ dialog[k] \in OpenDialogs
        BY <4>1 DEF BusyIff, TypeOK, IsOpen
      <4>3. /\ dialog'[k] = [dialog[k] EXCEPT !.busy = FALSE]
            /\ \A j \in Kinds \ {k} : dialog'[j] = dialog[j]
        BY <1>3, <3>1, <4>1 DEF Fail, Released, TypeOK
      <4>4. dialog'[k].busy = FALSE
        BY <4>2, <4>3 DEF OpenDialogs
      <4>5. \A t \in Slots : ~Owns(t, k)'
        BY <2>2, <4>1 DEF BusyIff
      <4>6. \A j \in Waiting \ {k} : (\E t \in Slots : Owns(t, j)') <=> (IsOpen(j)' /\ dialog'[j].busy)
        <5>1. \A j \in Waiting \ {k} : ~Owns(s, j)
          BY DEF Owns
        <5> SUFFICES ASSUME NEW j \in Waiting \ {k}
                     PROVE  (\E t \in Slots : Owns(t, j)') <=> (IsOpen(j)' /\ dialog'[j].busy)
          OBVIOUS
        <5>2. dialog'[j] = dialog[j]
          BY <4>3
        <5>3. \A t \in Slots : Owns(t, j)' <=> Owns(t, j)
          BY <2>2, <5>1
        <5>4. (\E t \in Slots : Owns(t, j)) <=> (IsOpen(j) /\ dialog[j].busy)
          BY DEF BusyIff
        <5> QED
          BY <5>2, <5>3, <5>4, Zenon DEF IsOpen
      <4>7. ~dialog'[k].busy
        BY <4>4
      <4> QED
        BY <4>5, <4>6, <4>7, Zenon
    <3>2. CASE ~call[s].live
      <4>1. dialog' = dialog
        BY <1>3, <3>2 DEF Fail, Released
      <4>2. \A j : ~Owns(s, j)
        BY <3>2 DEF Owns
      <4> QED
        BY <2>2, <4>1, <4>2 DEF IsOpen, BusyIff
    <3> QED
      BY <3>1, <3>2
  <2> QED
    BY <2>3, <2>4, <2>5 DEF BusyIff
<1> QED
  BY <1>2, <1>3

LEMMA BusyStep == TypeOK /\ BusyIff /\ KindsMatch /\ [Next]_vars => BusyIff'
<1> SUFFICES ASSUME TypeOK, BusyIff, KindsMatch, [Next]_vars PROVE BusyIff'
  OBVIOUS
<1> USE KindsOfTools, DistinctAssumption
<1>0. /\ \A k \in Kinds : IsOpen(k) => dialog[k] \in OpenDialogs
      /\ \A s \in Slots : call[s] # NoCall => call[s] \in Calls
  BY DEF TypeOK, IsOpen
<1>1. ASSUME UNCHANGED call,
             \A k \in Waiting : IsOpen(k)' /\ dialog'[k].busy <=> IsOpen(k) /\ dialog[k].busy
      PROVE  BusyIff'
  BY <1>1 DEF BusyIff, Owns
<1>2. ASSUME NEW p \in Persons, NEW op \in Menu, OpenDialog(op, p) PROVE BusyIff'
  <2> DEFINE k == KindOf(op)
  <2>1. NewDialog(op, p).busy = FALSE /\ NewDialog(op, p) \in OpenDialogs
    BY DEF NewDialog, OpenDialogs
  <2>2. CASE IsOpen(k)
    <3>1. /\ dialog'[k] = [dialog[k] EXCEPT !.op = op, !.about = p]
          /\ \A j \in Kinds \ {k} : dialog'[j] = dialog[j]
      BY <1>2, <2>2 DEF OpenDialog, TypeOK
    <3>2. \A d \in OpenDialogs : /\ [d EXCEPT !.op = op, !.about = p].busy = d.busy
                                /\ [d EXCEPT !.op = op, !.about = p] \in OpenDialogs
      BY DEF OpenDialogs
    <3>3. dialog'[k].busy = dialog[k].busy /\ dialog'[k] \in OpenDialogs
      BY <1>0, <1>2, <2>2, <3>1, <3>2 DEF OpenDialog
    <3> QED
      BY <1>1, <1>2, <2>2, <3>1, <3>3 DEF OpenDialog, IsOpen
  <2>3. CASE ~IsOpen(k)
    <3>1. /\ dialog'[k] = NewDialog(op, p)
          /\ \A j \in Kinds \ {k} : dialog'[j] = dialog[j]
      BY <1>2, <2>3 DEF OpenDialog, TypeOK
    <3> QED
      BY <1>1, <1>2, <2>1, <2>3, <3>1 DEF OpenDialog, IsOpen
  <2> QED
    BY <2>2, <2>3
<1>3. ASSUME NEW k \in Kinds, Choose(k) PROVE BusyIff'
  <2>1. /\ dialog'[k] = [dialog[k] EXCEPT !.chosen = TRUE]
        /\ \A j \in Kinds \ {k} : dialog'[j] = dialog[j]
        /\ IsOpen(k)
    BY <1>3 DEF Choose, TypeOK
  <2>2. dialog'[k].busy = dialog[k].busy /\ dialog'[k] \in OpenDialogs
    BY <1>0, <2>1 DEF OpenDialogs
  <2> QED
    BY <1>1, <1>3, <2>1, <2>2 DEF Choose, IsOpen
<1>4. ASSUME NEW kinds \in SUBSET Kinds, Close(kinds) PROVE BusyIff'
  <2>1. \A k \in Kinds : /\ k \in kinds => dialog'[k] = NoDialog
                         /\ k \notin kinds => dialog'[k] = dialog[k]
    BY <1>4 DEF Close
  <2> HIDE DistinctAssumption
  <2>2. /\ \A s \in Slots, k \in Kinds : Owns(s, k)' <=> Owns(s, k) /\ k \notin kinds
        /\ \A s \in Slots : call'[s] # NoCall /\ call'[s].live =>
             call[s] # NoCall /\ call[s].live /\ KindOf(call'[s].op) = KindOf(call[s].op)
    BY <1>4, Disowned DEF Close
  <2>3. \A k \in Waiting : (\E s \in Slots : Owns(s, k)') <=> (IsOpen(k)' /\ dialog'[k].busy)
    <3> SUFFICES ASSUME NEW k \in Waiting
                 PROVE  (\E s \in Slots : Owns(s, k)') <=> (IsOpen(k)' /\ dialog'[k].busy)
      OBVIOUS
    <3>1. CASE k \in kinds
      <4>1. ~IsOpen(k)' /\ ~\E s \in Slots : Owns(s, k)'
        BY <2>1, <2>2, <3>1 DEF IsOpen
      <4> QED
        BY <4>1
    <3>2. CASE k \notin kinds
      <4>1. dialog'[k] = dialog[k]
        BY <2>1, <3>2
      <4>2. \A s \in Slots : Owns(s, k)' <=> Owns(s, k)
        BY <2>2, <3>2
      <4>3. (\E s \in Slots : Owns(s, k)) <=> (IsOpen(k) /\ dialog[k].busy)
        BY DEF BusyIff
      <4> QED
        BY <4>1, <4>2, <4>3, Zenon DEF IsOpen
    <3> QED
      BY <3>1, <3>2
  <2>4. \A s, t \in Slots, k \in Waiting : Owns(s, k)' /\ Owns(t, k)' => s = t
    BY <2>2 DEF BusyIff
  <2>5. \A s \in Slots : call'[s] # NoCall /\ call'[s].live => KindOf(call'[s].op) \in Waiting
    BY <2>2 DEF BusyIff
  <2> QED
    BY <2>3, <2>4, <2>5 DEF BusyIff
<1>5. ASSUME NEW k \in Kinds, Cancel(k) PROVE BusyIff'
  BY <1>4, <1>5 DEF Cancel
<1>6. ASSUME Escape PROVE BusyIff'
  BY <1>4, <1>6 DEF Escape
<1>7. ASSUME NEW s \in Slots, NEW k \in Kinds, Submit(k, s) PROVE BusyIff'
  <2>1. k \in Waiting /\ IsOpen(k) /\ dialog[k] \in OpenDialogs /\ dialog[k].busy = FALSE
    BY <1>0, <1>7 DEF Submit, CanSubmit, OpenDialogs
  <2>2. KindOf(dialog[k].op) = k
    BY <2>1 DEF KindsMatch
  <2>3. /\ dialog'[k] = [dialog[k] EXCEPT !.busy = TRUE]
        /\ \A j \in Kinds \ {k} : dialog'[j] = dialog[j]
    BY <1>7 DEF Submit, TypeOK
  <2>4. dialog'[k].busy = TRUE /\ IsOpen(k)'
    BY <2>1, <2>3 DEF OpenDialogs, IsOpen
  <2>5. /\ call[s] = NoCall /\ call'[s] = NewCall(dialog[k].op, dialog[k].about, TRUE)
        /\ \A t \in Slots \ {s} : call'[t] = call[t]
    BY <1>7 DEF Submit, Send, TypeOK
  <2>6. call'[s] \in Calls /\ call'[s].live = TRUE /\ call'[s].op = dialog[k].op
    BY <2>1, <2>5 DEF NewCall, Calls, OpenDialogs
  <2>7. \A j \in Kinds : Owns(s, j)' <=> j = k
    BY <2>2, <2>6 DEF Owns
  <2>8. \A t \in Slots \ {s}, j \in Kinds : Owns(t, j)' <=> Owns(t, j)
    BY <2>5 DEF Owns
  <2>9. \A t \in Slots : ~Owns(t, k)
    BY <2>1 DEF BusyIff
  <2>10. \A j \in Waiting : (\E t \in Slots : Owns(t, j)') <=> (IsOpen(j)' /\ dialog'[j].busy)
    <3> SUFFICES ASSUME NEW j \in Waiting
                 PROVE  (\E t \in Slots : Owns(t, j)') <=> (IsOpen(j)' /\ dialog'[j].busy)
      OBVIOUS
    <3>1. CASE j = k
      BY <2>1, <2>4, <2>7, <3>1
    <3>2. CASE j # k
      <4>1. (\E t \in Slots : Owns(t, j)') <=> (\E t \in Slots : Owns(t, j))
        BY <2>5, <2>7, <2>8, <3>2 DEF Owns
      <4>2. (IsOpen(j)' /\ dialog'[j].busy) <=> (IsOpen(j) /\ dialog[j].busy)
        BY <2>3, <3>2 DEF IsOpen
      <4> QED
        BY <4>1, <4>2 DEF BusyIff
    <3> QED
      BY <3>1, <3>2
  <2>11. \A t, u \in Slots, j \in Waiting : Owns(t, j)' /\ Owns(u, j)' => t = u
    BY <2>7, <2>8, <2>9 DEF BusyIff
  <2>12. \A t \in Slots : call'[t] # NoCall /\ call'[t].live => KindOf(call'[t].op) \in Waiting
    BY <2>1, <2>2, <2>5, <2>6 DEF BusyIff
  <2> QED
    BY <2>10, <2>11, <2>12 DEF BusyIff
<1>8. ASSUME NEW s \in Slots, Confirm(s) PROVE BusyIff'
  <2>1. dialog["confirm"] \in OpenDialogs
    BY <1>0, <1>8 DEF Confirm
  <2>2. \A k \in Waiting : dialog'[k] = dialog[k]
    BY <1>8 DEF Confirm, TypeOK
  <2> QED
    BY <1>8, <2>1, <2>2, SentAway DEF Confirm, OpenDialogs, IsOpen
<1>9. ASSUME NEW s \in Slots, NEW p \in Persons, NEW op \in Menu, Act(s, op, p) PROVE BusyIff'
  BY <1>9, SentAway DEF Act, IsOpen
<1>10. ASSUME NEW s \in Slots, Answer(s) PROVE BusyIff'
  <2>1. PICK outcome \in {"accepted", "refused", "failed"} :
          call' = [call EXCEPT ![s].stage = outcome]
    BY <1>10 DEF Answer, Outcomes
  <2>2. call[s] \in Calls /\ call'[s] = [call[s] EXCEPT !.stage = outcome]
    BY <1>0, <1>10, <2>1 DEF Answer, TypeOK
  <2>3. call'[s] \in Calls /\ call'[s].live = call[s].live /\ call'[s].op = call[s].op
    BY <2>2 DEF Calls
  <2>4. \A t \in Slots : t = s \/ call'[t] = call[t]
    BY <2>1 DEF TypeOK
  <2>5. call[s] # NoCall /\ call'[s] # NoCall
    BY <2>2, <2>3
  <2>6. \A t \in Slots : \A k : Owns(t, k)' <=> Owns(t, k)
    BY <2>3, <2>4, <2>5 DEF Owns
  <2>7. \A t \in Slots : call'[t] # NoCall /\ call'[t].live => KindOf(call'[t].op) \in Waiting
    BY <2>3, <2>4, <2>5 DEF BusyIff
  <2>8. UNCHANGED dialog
    BY <1>10 DEF Answer
  <2> QED
    BY <2>6, <2>7, <2>8 DEF BusyIff, IsOpen
<1>11. ASSUME NEW s \in Slots, Succeed(s) PROVE BusyIff'
  BY <1>11, Settled DEF Succeed
<1>12. ASSUME NEW s \in Slots, Fail(s) PROVE BusyIff'
  BY <1>12, Settled DEF Fail
<1>13. CASE ChangeRole
  BY <1>1, <1>13 DEF ChangeRole, IsOpen
<1>14. CASE ReceiveStatus
  BY <1>1, <1>14 DEF ReceiveStatus, IsOpen
<1>15. CASE HideToast
  BY <1>1, <1>15 DEF HideToast, IsOpen
<1>16. CASE UNCHANGED vars
  BY <1>1, <1>16 DEF vars, IsOpen
<1> QED
  BY <1>2, <1>3, <1>5, <1>6, <1>7, <1>8, <1>9, <1>10, <1>11, <1>12, <1>13, <1>14, <1>15, <1>16
     DEF Next, View, Arrive

LEMMA ToastStep == TypeOK /\ ToastTimed /\ [Next]_vars => ToastTimed'
<1> SUFFICES ASSUME TypeOK, ToastTimed, [Next]_vars PROVE ToastTimed'
  OBVIOUS
<1>1. ASSUME UNCHANGED notice PROVE ToastTimed'
  BY <1>1 DEF ToastTimed, notice
<1>2. ASSUME NEW t \in {"done", "error"}, ShowToast(t) PROVE ToastTimed'
  BY <1>2 DEF ShowToast, ToastTimed
<1>3. CASE HideToast
  BY <1>3 DEF HideToast, ToastTimed, TypeOK
<1>4. ASSUME NEW s \in Slots, Arrive(s) PROVE ToastTimed'
  BY <1>2, <1>4 DEF Arrive, Succeed, Fail
<1> QED
  BY <1>1, <1>3, <1>4 DEF Next, View, OpenDialog, Choose, Cancel, Escape, Close, Submit, Confirm,
     Act, ChangeRole, ReceiveStatus, Answer, vars, notice

\* Whatever the viewer opens, cancels and opens again, and however late and in
\* whichever order the answers come, a dialog waits exactly while one call of its
\* own is under way, and a toast has the one timer that hides it (actions.ts and
\* the submit handlers of the dialogs).
THEOREM DialogsSound == Spec => []DialogInv
<1>1. Init => DialogInv
  BY TypeInit, BusyInit DEF DialogInv, Init, ToastTimed, KindsMatch, IsOpen
<1>2. DialogInv /\ [Next]_vars => DialogInv'
  BY TypeStep, KindStep, BusyStep, ToastStep DEF DialogInv
<1> QED
  BY <1>1, <1>2, PTL DEF Spec

------------------------------------------------------------------------------
(* The server refuses nothing that was offered.                            *)

\* The tool has been offered to the viewer: before the first status, or since.
WasOffered(op, p) == \E t \in {"member", role} : op \in Offered(t, p)

\* Strengthens OfferedIsPermitted: while the role rests, what is chosen in a
\* dialog and what a call asks for has been offered at the role the viewer has.
Promised ==
    changes = 0 =>
        /\ shown \in {"member", role}
        /\ \A k \in Kinds : IsOpen(k) => WasOffered(dialog[k].op, dialog[k].about)
        /\ \A s \in Slots : call[s] # NoCall => WasOffered(call[s].op, call[s].about)

\* Permitted to the viewer, if the member is one the viewer may act on.
LEMMA OfferKept ==
    ASSUME role \in Tiers, NEW p \in People, NEW op, WasOffered(op, p), Subject(role, p)
    PROVE  op \in Permits(role, p)
<1>1. CASE op \in Offered(role, p)
  BY <1>1, OfferedPermitted
<1>2. CASE op \in Offered("member", p)
  <2>1. ~p.self /\ p.here
    BY DEF Subject, Listed
  <2> QED
    BY <1>2, <2>1, StrangersReport
<1> QED
  BY <1>1, <1>2 DEF WasOffered

\* The role rests as long as it has not changed once.
LEMMA RoleRests ==
    ASSUME TypeOK, [Next]_vars, changes' = 0
    PROVE  changes = 0 /\ UNCHANGED role /\ (UNCHANGED shown \/ shown' = role)
<1>1. CASE UNCHANGED standing
  BY <1>1 DEF standing
<1>2. CASE ChangeRole
  BY <1>2, ChangesAssumption DEF ChangeRole, TypeOK
<1>3. CASE ReceiveStatus
  BY <1>3 DEF ReceiveStatus
<1> QED
  BY <1>1, <1>2, <1>3
     DEF Next, View, OpenDialog, Choose, Cancel, Escape, Close, Submit, Confirm, Act, Answer,
         Arrive, Succeed, Fail, HideToast, vars, standing

LEMMA PromisedStep == DialogInv /\ Promised /\ [Next]_vars => Promised'
<1> SUFFICES ASSUME DialogInv, Promised, [Next]_vars, changes' = 0
             PROVE  /\ shown' \in {"member", role'}
                    /\ \A k \in Kinds : IsOpen(k)' => WasOffered(dialog[k].op, dialog[k].about)'
                    /\ \A s \in Slots : call'[s] # NoCall =>
                         WasOffered(call[s].op, call[s].about)'
  BY DEF Promised
<1> USE KindsOfTools, DistinctAssumption
<1>1. TypeOK /\ BusyIff
  BY DEF DialogInv
<1>2. changes = 0 /\ UNCHANGED role /\ (UNCHANGED shown \/ shown' = role)
  BY <1>1, RoleRests
<1>3. /\ shown \in {"member", role}
      /\ \A k \in Kinds : IsOpen(k) => WasOffered(dialog[k].op, dialog[k].about)
      /\ \A s \in Slots : call[s] # NoCall => WasOffered(call[s].op, call[s].about)
  BY <1>2 DEF Promised
<1>4. \A op, p : WasOffered(op, p) => WasOffered(op, p)'
  BY <1>2 DEF WasOffered
<1>5. \A k \in Kinds : IsOpen(k)' =>
        \/ IsOpen(k) /\ dialog'[k].op = dialog[k].op /\ dialog'[k].about = dialog[k].about
        \/ WasOffered(dialog'[k].op, dialog'[k].about)
  <2>0. \A k \in Kinds : IsOpen(k) => dialog[k] \in OpenDialogs
    BY <1>1 DEF TypeOK, IsOpen
  <2> SUFFICES ASSUME NEW k \in Kinds, IsOpen(k)'
               PROVE  \/ IsOpen(k) /\ dialog'[k].op = dialog[k].op /\ dialog'[k].about = dialog[k].about
                      \/ WasOffered(dialog'[k].op, dialog'[k].about)
    OBVIOUS
  <2>1. ASSUME dialog'[k] = dialog[k]
        PROVE  IsOpen(k) /\ dialog'[k].op = dialog[k].op /\ dialog'[k].about = dialog[k].about
    BY <2>1 DEF IsOpen
  <2>2. ASSUME NEW p \in Persons, NEW op \in Menu, OpenDialog(op, p)
        PROVE  dialog'[k] = dialog[k] \/ WasOffered(dialog'[k].op, dialog'[k].about)
    <3>1. WasOffered(op, p)
      BY <1>3, <2>2 DEF OpenDialog, UsedTools, WasOffered
    <3>2. CASE k # KindOf(op)
      BY <1>1, <2>2, <3>2 DEF OpenDialog, TypeOK
    <3>3. CASE k = KindOf(op)
      <4>1. dialog'[k] = IF IsOpen(k) THEN [dialog[k] EXCEPT !.op = op, !.about = p]
                         ELSE NewDialog(op, p)
        BY <1>1, <2>2, <3>3 DEF OpenDialog, TypeOK
      <4>2. dialog'[k].op = op /\ dialog'[k].about = p
        BY <2>0, <4>1 DEF NewDialog, OpenDialogs
      <4> QED
        BY <3>1, <4>2
    <3> QED
      BY <3>2, <3>3
  <2>3. ASSUME NEW value, NEW j \in Kinds, IsOpen(j),
               \/ dialog' = [dialog EXCEPT ![j].chosen = value]
               \/ dialog' = [dialog EXCEPT ![j].busy = value]
        PROVE  IsOpen(k) /\ dialog'[k].op = dialog[k].op /\ dialog'[k].about = dialog[k].about
    <3>1. CASE j # k
      BY <1>1, <2>1, <2>3, <3>1 DEF TypeOK
    <3>2. CASE j = k
      <4>1. \/ dialog'[k] = [dialog[k] EXCEPT !.chosen = value]
            \/ dialog'[k] = [dialog[k] EXCEPT !.busy = value]
        BY <1>1, <2>3, <3>2 DEF TypeOK
      <4> QED
        BY <2>0, <2>3, <3>2, <4>1 DEF OpenDialogs
    <3> QED
      BY <3>1, <3>2
  <2>4. ASSUME NEW s \in Slots, Fail(s)
        PROVE  IsOpen(k) /\ dialog'[k].op = dialog[k].op /\ dialog'[k].about = dialog[k].about
    <3>1. CASE ~call[s].live
      BY <2>1, <2>4, <3>1 DEF Fail, Released
    <3>2. CASE call[s].live
      <4>1. KindOf(call[s].op) \in Kinds /\ IsOpen(KindOf(call[s].op))
        BY <1>1, <2>4, <3>2 DEF Fail, Owns, BusyIff
      <4> QED
        BY <2>3, <2>4, <3>2, <4>1 DEF Fail, Released
    <3> QED
      BY <3>1, <3>2
  <2>5. ASSUME NEW j \in Kinds, Choose(j)
        PROVE  IsOpen(k) /\ dialog'[k].op = dialog[k].op /\ dialog'[k].about = dialog[k].about
    BY <2>3, <2>5 DEF Choose
  <2>6. ASSUME NEW j \in Kinds, NEW s \in Slots, Submit(j, s)
        PROVE  IsOpen(k) /\ dialog'[k].op = dialog[k].op /\ dialog'[k].about = dialog[k].about
    BY <2>3, <2>6 DEF Submit, CanSubmit
  <2>7. ASSUME NEW kinds, Close(kinds) PROVE dialog'[k] = dialog[k]
    BY <2>7 DEF Close, IsOpen
  <2>8. ASSUME NEW s \in Slots, Confirm(s) \/ Succeed(s) PROVE dialog'[k] = dialog[k]
    BY <1>1, <2>8 DEF Confirm, Succeed, TypeOK, IsOpen
  <2> QED
    BY <2>1, <2>2, <2>4, <2>5, <2>6, <2>7, <2>8
       DEF Next, View, Cancel, Escape, Act, ChangeRole, ReceiveStatus, Answer, Arrive, HideToast,
           vars, standing
<1>6. \A s \in Slots : call'[s] # NoCall =>
        \/ call[s] # NoCall /\ call'[s].op = call[s].op /\ call'[s].about = call[s].about
        \/ WasOffered(call'[s].op, call'[s].about)
  <2>0. /\ \A k \in Kinds : IsOpen(k) => dialog[k] \in OpenDialogs
        /\ \A s \in Slots : call[s] # NoCall => call[s] \in Calls
    BY <1>1 DEF TypeOK, IsOpen
  <2> SUFFICES ASSUME NEW s \in Slots, call'[s] # NoCall
               PROVE  \/ call[s] # NoCall /\ call'[s].op = call[s].op /\ call'[s].about = call[s].about
                      \/ WasOffered(call'[s].op, call'[s].about)
    OBVIOUS
  <2>1. ASSUME call'[s] = call[s]
        PROVE  call[s] # NoCall /\ call'[s].op = call[s].op /\ call'[s].about = call[s].about
    BY <2>1
  <2>2. ASSUME NEW t \in Slots, NEW op, NEW p, NEW live, Send(t, op, p, live), WasOffered(op, p)
        PROVE  call'[s] = call[s] \/ WasOffered(call'[s].op, call'[s].about)
    BY <1>1, <2>2 DEF Send, NewCall, TypeOK
  <2>3. ASSUME NEW t \in Slots, NEW op \in Menu, NEW p \in Persons, Act(t, op, p)
        PROVE  call'[s] = call[s] \/ WasOffered(call'[s].op, call'[s].about)
    <3>1. WasOffered(op, p)
      BY <1>3, <2>3 DEF Act, UsedTools, WasOffered
    <3> QED
      BY <2>2, <2>3, <3>1 DEF Act
  <2>4. ASSUME NEW t \in Slots, Confirm(t) \/ \E k \in Kinds : Submit(k, t)
        PROVE  call'[s] = call[s] \/ WasOffered(call'[s].op, call'[s].about)
    BY <1>3, <2>2, <2>4 DEF Confirm, Submit, CanSubmit
  <2>5. ASSUME NEW t \in Slots, Answer(t)
        PROVE  call[s] # NoCall /\ call'[s].op = call[s].op /\ call'[s].about = call[s].about
    <3>1. CASE s # t
      BY <1>1, <2>1, <2>5, <3>1 DEF Answer, TypeOK
    <3>2. CASE s = t
      <4>1. PICK outcome : call'[s] = [call[s] EXCEPT !.stage = outcome]
        BY <1>1, <2>5, <3>2 DEF Answer, TypeOK
      <4> QED
        BY <2>0, <2>5, <3>2, <4>1 DEF Answer, Calls
    <3> QED
      BY <3>1, <3>2
  <2>6. ASSUME NEW calls \in [Slots -> Calls \cup {NoCall}], NEW kinds,
               call' = Orphaned(calls, kinds), calls[s] \in {call[s], NoCall}
        PROVE  call[s] # NoCall /\ call'[s].op = call[s].op /\ call'[s].about = call[s].about
    <3>1. calls[s] = call[s] /\ call[s] # NoCall /\ call[s] \in Calls
      BY <2>0, <2>6 DEF Orphaned
    <3>2. call'[s] \in {call[s], [call[s] EXCEPT !.live = FALSE]}
      BY <2>6, <3>1 DEF Orphaned
    <3> QED
      BY <3>1, <3>2 DEF Calls
  <2>7. ASSUME NEW kinds, Close(kinds)
        PROVE  call[s] # NoCall /\ call'[s].op = call[s].op /\ call'[s].about = call[s].about
    BY <1>1, <2>6, <2>7 DEF Close, TypeOK
  <2>8. ASSUME NEW t \in Slots, Succeed(t)
        PROVE  call[s] # NoCall /\ call'[s].op = call[s].op /\ call'[s].about = call[s].about
    <3>1. Done(t) \in [Slots -> Calls \cup {NoCall}] /\ Done(t)[s] \in {call[s], NoCall}
      BY <1>1 DEF Done, TypeOK
    <3> QED
      BY <2>6, <2>8, <3>1 DEF Succeed
  <2>9. ASSUME NEW t \in Slots, Fail(t) PROVE call'[s] = call[s]
    BY <1>1, <2>9 DEF Fail, Done, TypeOK
  <2> QED
    BY <2>1, <2>3, <2>4, <2>5, <2>7, <2>8, <2>9
       DEF Next, View, Cancel, Escape, OpenDialog, Choose, ChangeRole, ReceiveStatus, Arrive,
           HideToast, vars, standing
<1>7. shown' \in {"member", role'}
  BY <1>2, <1>3
<1>8. \A k \in Kinds : IsOpen(k)' => WasOffered(dialog[k].op, dialog[k].about)'
  BY <1>3, <1>5, <1>2 DEF WasOffered
<1>9. \A s \in Slots : call'[s] # NoCall => WasOffered(call[s].op, call[s].about)'
  BY <1>3, <1>6, <1>2 DEF WasOffered
<1> QED
  BY <1>7, <1>8, <1>9

LEMMA RefusalStep ==
    DialogInv /\ Promised /\ OfferedIsPermitted /\ [Next]_vars => OfferedIsPermitted'
<1> SUFFICES ASSUME DialogInv, Promised, OfferedIsPermitted, [Next]_vars, changes' = 0,
                    NEW s \in Slots, call'[s] # NoCall, Subject(role', call'[s].about)
             PROVE  call'[s].stage # "refused"
  BY DEF OfferedIsPermitted
<1> USE DistinctAssumption
<1>1. TypeOK /\ BusyIff /\ \A t \in Slots : call[t] # NoCall => call[t] \in Calls
  BY DEF DialogInv, TypeOK
<1>2. changes = 0 /\ UNCHANGED role
  BY <1>1, RoleRests
<1>3. ASSUME call[s] # NoCall, call'[s].about = call[s].about, call'[s].stage = call[s].stage
      PROVE  call'[s].stage # "refused"
  BY <1>2, <1>3 DEF OfferedIsPermitted
<1>4. ASSUME NEW t \in Slots, NEW op, NEW p, NEW live, Send(t, op, p, live)
      PROVE  call'[s].stage # "refused"
  BY <1>1, <1>3, <1>4 DEF Send, NewCall, TypeOK
<1>5. ASSUME NEW t \in Slots, Answer(t) PROVE call'[s].stage # "refused"
  <2>1. CASE s # t
    BY <1>1, <1>3, <1>5, <2>1 DEF Answer, TypeOK
  <2>2. CASE s = t
    <3>1. PICK outcome \in Outcomes(call[s]) : call' = [call EXCEPT ![s].stage = outcome]
      BY <1>5, <2>2 DEF Answer
    <3>2. call[s] # NoCall /\ call[s] \in Calls
      BY <1>1, <1>5, <2>2 DEF Answer
    <3>3. call'[s] = [call[s] EXCEPT !.stage = outcome]
      BY <1>1, <3>1 DEF TypeOK
    <3>4. call'[s].about = call[s].about /\ call'[s].stage = outcome
      BY <3>2, <3>3 DEF Calls
    <3>5. WasOffered(call[s].op, call[s].about)
      BY <1>2, <3>2 DEF Promised
    <3>6. call[s].about \in People /\ role \in Tiers
      BY <1>1, <3>2, PersonsAssumption DEF Calls, TypeOK
    <3>7. call[s].op \in Permits(role, call[s].about)
      BY <1>2, <3>4, <3>5, <3>6, OfferKept
    <3> QED
      BY <3>1, <3>4, <3>7 DEF Outcomes
  <2> QED
    BY <2>1, <2>2
<1>6. ASSUME NEW calls \in [Slots -> Calls \cup {NoCall}], NEW kinds,
             call' = Orphaned(calls, kinds), calls[s] \in {call[s], NoCall}
      PROVE  call'[s].stage # "refused"
  <2>1. calls[s] = call[s] /\ call[s] # NoCall /\ call[s] \in Calls
    BY <1>1, <1>6 DEF Orphaned
  <2>2. call'[s] \in {call[s], [call[s] EXCEPT !.live = FALSE]}
    BY <1>6, <2>1 DEF Orphaned
  <2> QED
    BY <1>3, <2>1, <2>2 DEF Calls
<1>7. ASSUME NEW kinds, Close(kinds) PROVE call'[s].stage # "refused"
  BY <1>1, <1>6, <1>7 DEF Close, TypeOK
<1>8. ASSUME NEW t \in Slots, Succeed(t) PROVE call'[s].stage # "refused"
  <2>1. Done(t) \in [Slots -> Calls \cup {NoCall}] /\ Done(t)[s] \in {call[s], NoCall}
    BY <1>1 DEF Done, TypeOK
  <2> QED
    BY <1>6, <1>8, <2>1 DEF Succeed
<1>9. ASSUME NEW t \in Slots, Fail(t) PROVE call'[s].stage # "refused"
  BY <1>1, <1>3, <1>9 DEF Fail, Done, TypeOK
<1>10. ASSUME UNCHANGED call PROVE call'[s].stage # "refused"
  BY <1>3, <1>10
<1> QED
  BY <1>4, <1>5, <1>7, <1>8, <1>9, <1>10
     DEF Next, View, OpenDialog, Choose, Cancel, Escape, Submit, Confirm, Act, ChangeRole,
         ReceiveStatus, Arrive, HideToast, vars, standing

\* For any viewer, members and tools: as long as the viewer's role rests, no tool
\* that a menu, a card or a row offered on somebody of a lower role is refused by
\* the server, even if the menu was drawn before the status arrived.
THEOREM NothingOfferedRefused == Spec => []OfferedIsPermitted
<1>1. Init => DialogInv /\ Promised /\ OfferedIsPermitted
  BY TypeInit, BusyInit
     DEF DialogInv, Init, ToastTimed, KindsMatch, IsOpen, Promised, OfferedIsPermitted
<1>2. DialogInv /\ Promised /\ OfferedIsPermitted /\ [Next]_vars
        => (DialogInv /\ Promised /\ OfferedIsPermitted)'
  BY TypeStep, KindStep, BusyStep, ToastStep, PromisedStep, RefusalStep DEF DialogInv
<1> QED
  BY <1>1, <1>2, PTL DEF Spec

------------------------------------------------------------------------------
(* The search box.                                                         *)

\* Strengthens ResultsMatchTerm: a lookup that counts asks for what is typed now,
\* in the channel in view; "Searching" is shown as long as it is under way.
SearchInv ==
    /\ SearchTypeOK
    /\ refetches <= version
    /\ timer => searching
    /\ searching => term # NoTerm
    /\ searching => timer \/ \E l \in lookups : l.own
    /\ \A l \in lookups : l.own => l.query = Query /\ searching /\ ~timer
    /\ \A l, k \in lookups : l.own /\ k.own => l = k
    /\ term # NoTerm /\ ~searching => Rows # NoResults /\ Rows.query = Query

LEMMA SearchInitial == SearchInit => SearchInv
<1> SUFFICES ASSUME SearchInit PROVE SearchInv
  OBVIOUS
<1>1. SearchTypeOK
  <2>1. /\ channel \in Channels /\ term \in Terms /\ results = NoResults /\ lookups = {}
        /\ searching \in BOOLEAN /\ timer \in BOOLEAN /\ lost \in BOOLEAN
    BY SearchAssumption, Zenon DEF SearchInit
  <2>2. version \in 0..MaxVersion /\ refetches \in 0..MaxVersion
    BY SearchAssumption DEF SearchInit
  <2> QED
    BY <2>1, <2>2 DEF SearchTypeOK
<1>2. ~timer /\ ~searching /\ lookups = {} /\ refetches = 0 /\ version = 0
  BY DEF SearchInit
<1>3. term = NoTerm
  BY DEF SearchInit
<1> QED
  BY <1>1, <1>2, <1>3 DEF SearchInv

\* The clean-up leaves no lookup that counts.
LEMMA CancelledFacts ==
    ASSUME SearchTypeOK
    PROVE  Cancelled \subseteq Lookups /\ \A l \in Cancelled : ~l.own
<1>1. \A l \in lookups : /\ [l EXCEPT !.own = FALSE] \in Lookups
                        /\ [l EXCEPT !.own = FALSE].own = FALSE
  BY DEF SearchTypeOK, Lookups
<1> QED
  BY <1>1 DEF Cancelled

LEMMA EffectStep ==
    ASSUME SearchInv, Effect, channel' \in Channels, term' \in Terms,
           version' = version, refetches' \in 0..version, lost' = lost
    PROVE  SearchInv'
<1>1. /\ lookups' \subseteq Lookups /\ \A l \in lookups' : ~l.own
  BY CancelledFacts DEF SearchInv, Effect
<1>2. /\ searching' = (term' # NoTerm) /\ timer' = (term' # NoTerm)
      /\ results' \in {NoResults, results}
  BY DEF Effect
<1>3. SearchTypeOK'
  BY <1>1, <1>2, SearchAssumption DEF SearchInv, SearchTypeOK
<1>4. term' # NoTerm => searching'
  BY <1>2
<1>5. refetches' <= version'
  BY SearchAssumption DEF SearchInv, SearchTypeOK
<1> QED
  BY <1>1, <1>2, <1>3, <1>4, <1>5 DEF SearchInv

LEMMA FireStep == SearchInv /\ Fire => SearchInv'
<1> SUFFICES ASSUME SearchInv, Fire PROVE SearchInv'
  OBVIOUS
<1> DEFINE new == [own |-> TRUE, query |-> Query, stage |-> "sent", version |-> 0]
<1>1. /\ timer /\ timer' = FALSE /\ searching /\ term # NoTerm /\ lookups' = lookups \cup {new}
      /\ UNCHANGED <<channel, term, results, searching, version, refetches, lost>>
  BY DEF Fire, SearchInv, net
<1>2. Query \in Queries /\ Query' = Query
  BY <1>1 DEF SearchInv, SearchTypeOK, Query, Queries
<1>3. new \in Lookups /\ new.own /\ new.query = Query
  BY <1>2, SearchAssumption DEF Lookups
<1> HIDE DEF new
<1>4. \A l \in lookups : ~l.own
  BY <1>1 DEF SearchInv
<1>5. SearchTypeOK'
  BY <1>1, <1>3 DEF SearchInv, SearchTypeOK
<1>6. searching'
  BY <1>1
<1> QED
  BY <1>1, <1>2, <1>3, <1>4, <1>5, <1>6 DEF SearchInv

\* A lookup that goes on counts, or not, as before.
LEMMA ReplaceStep ==
    ASSUME SearchInv, NEW l \in lookups, NEW k \in Lookups,
           k.own = l.own, k.query = l.query,
           lookups' = (lookups \ {l}) \cup {k}, UNCHANGED <<box, version, refetches>>,
           lost' \in BOOLEAN
    PROVE  SearchInv'
<1>1. UNCHANGED <<channel, term, results, searching, timer, version, refetches>>
  BY DEF box
<1>2. SearchTypeOK'
  BY <1>1 DEF SearchInv, SearchTypeOK
<1>3. Query' = Query /\ Rows' = Rows
  BY <1>1 DEF Query, Rows
<1>4. (\E j \in lookups : j.own) => \E j \in lookups' : j.own
  OBVIOUS
<1>5. \A j \in lookups' : j = k \/ (j \in lookups /\ j # l)
  OBVIOUS
<1>6. \A j, i \in lookups' : j.own /\ i.own => j = i
  BY <1>5 DEF SearchInv
<1>7. \A j \in lookups' : j.own => j.query = Query /\ searching /\ ~timer
  BY <1>5 DEF SearchInv
<1> QED
  BY <1>1, <1>2, <1>3, <1>4, <1>6, <1>7 DEF SearchInv

\* Only the lookup for what is typed now is shown.
LEMMA ArriveStep ==
    ASSUME SearchInv, NEW l \in lookups, ArriveLookup(l)
    PROVE  SearchInv'
<1>1. /\ lookups' = lookups \ {l} /\ l \in Lookups
      /\ UNCHANGED <<channel, term, timer, version, refetches, lost>>
  BY DEF ArriveLookup, SearchInv, SearchTypeOK, net
<1>2. Query' = Query
  BY <1>1 DEF Query
<1>3. CASE l.own
  <2>1. PICK complete \in BOOLEAN :
          results' = [query |-> l.query, complete |-> complete, version |-> l.version]
    BY <1>3 DEF ArriveLookup
  <2>2. searching' = FALSE /\ searching /\ ~timer /\ l.query = Query
    BY <1>3 DEF ArriveLookup, SearchInv
  <2>3. results' \in Results /\ results'.query = Query
    BY <1>1, <2>1, <2>2 DEF Lookups, Results
  <2>4. \A k \in lookups' : ~k.own
    BY <1>1, <1>3 DEF SearchInv
  <2>5. SearchTypeOK'
    BY <1>1, <2>2, <2>3 DEF SearchInv, SearchTypeOK
  <2> QED
    BY <1>1, <1>2, <2>2, <2>3, <2>4, <2>5, NoResultsAssumption DEF SearchInv, Rows
<1>4. CASE ~l.own
  <2>1. UNCHANGED <<results, searching>>
    BY <1>4 DEF ArriveLookup
  <2>2. SearchTypeOK'
    BY <1>1, <2>1 DEF SearchInv, SearchTypeOK
  <2>3. Rows' = Rows
    BY <1>1, <2>1 DEF Rows
  <2> QED
    BY <1>1, <1>2, <1>4, <2>1, <2>2, <2>3 DEF SearchInv
<1> QED
  BY <1>3, <1>4

LEMMA SearchStep == SearchInv /\ [SearchNext]_searchVars => SearchInv'
<1> SUFFICES ASSUME SearchInv, [SearchNext]_searchVars PROVE SearchInv'
  OBVIOUS
<1>0. /\ SearchTypeOK /\ version \in Nat /\ refetches \in Nat /\ refetches <= version
      /\ version <= MaxVersion /\ MaxVersion \in Nat
  BY SearchAssumption DEF SearchInv, SearchTypeOK
<1>1. ASSUME NEW t \in Terms, TypeTerm(t) PROVE SearchInv'
  BY <1>0, <1>1, EffectStep DEF TypeTerm, SearchTypeOK, net
<1>2. ASSUME NEW c \in Channels, SwitchTo(c) PROVE SearchInv'
  BY <1>0, <1>2, EffectStep DEF SwitchTo, SearchTypeOK, net
<1>3. CASE Remount
  <2>1. /\ UNCHANGED <<channel, version, refetches, lost>> /\ lookups' = Cancelled
        /\ term' = NoTerm /\ results' = NoResults /\ ~searching' /\ ~timer'
        /\ searching' = FALSE /\ timer' = FALSE
    BY <1>3 DEF Remount, net
  <2>2. lookups' \subseteq Lookups /\ \A l \in lookups' : ~l.own
    BY <1>0, <2>1, CancelledFacts
  <2>3. SearchTypeOK'
    BY <1>0, <2>1, <2>2, SearchAssumption DEF SearchTypeOK
  <2>4. term' = NoTerm
    BY <2>1
  <2> QED
    BY <1>0, <2>1, <2>2, <2>3, <2>4 DEF SearchInv
<1>4. CASE Fire
  BY <1>4, FireStep
<1>5. ASSUME NEW l \in lookups, AnswerLookup(l) PROVE SearchInv'
  <2> DEFINE k == [l EXCEPT !.stage = "answered", !.version = version]
  <2>1. l \in Lookups /\ version \in 0..MaxVersion
    BY <1>0 DEF SearchTypeOK
  <2>2. k \in Lookups /\ k.own = l.own /\ k.query = l.query
    BY <2>1 DEF Lookups
  <2>3. /\ lookups' = (lookups \ {l}) \cup {k} /\ UNCHANGED <<box, version, refetches>>
        /\ lost' \in BOOLEAN
    BY <1>0, <1>5 DEF AnswerLookup, SearchTypeOK, net
  <2> HIDE DEF k
  <2> QED
    BY <2>2, <2>3, ReplaceStep
<1>6. ASSUME NEW l \in lookups, LoseLookup(l) PROVE SearchInv'
  <2> DEFINE k == [l EXCEPT !.stage = "lost"]
  <2>1. l \in Lookups
    BY <1>0 DEF SearchTypeOK
  <2>2. k \in Lookups /\ k.own = l.own /\ k.query = l.query
    BY <2>1 DEF Lookups
  <2>3. /\ lookups' = (lookups \ {l}) \cup {k} /\ UNCHANGED <<box, version, refetches>>
        /\ lost' \in BOOLEAN
    BY <1>6 DEF LoseLookup
  <2> HIDE DEF k
  <2> QED
    BY <2>2, <2>3, ReplaceStep
<1>7. ASSUME NEW l \in lookups, ArriveLookup(l) PROVE SearchInv'
  BY <1>7, ArriveStep
<1>8. CASE ChangeMembers \/ LoseRefetch
  <2>1. /\ UNCHANGED <<channel, term, results, searching, timer, lookups>>
        /\ version' \in 0..MaxVersion /\ refetches' \in 0..MaxVersion
        /\ refetches' <= version' /\ lost' \in BOOLEAN
    <3>1. CASE ChangeMembers
      BY <1>0, <3>1 DEF ChangeMembers, SearchTypeOK, box
    <3>2. CASE LoseRefetch
      BY <1>0, <3>2 DEF LoseRefetch, SearchTypeOK, box
    <3> QED
      BY <1>8, <3>1, <3>2
  <2>2. SearchTypeOK'
    BY <1>0, <2>1 DEF SearchTypeOK
  <2>3. Query' = Query /\ Rows' = Rows
    BY <2>1 DEF Query, Rows
  <2> QED
    BY <2>1, <2>2, <2>3 DEF SearchInv
<1>9. CASE ArriveRefetch
  BY <1>0, <1>9, EffectStep DEF ArriveRefetch, SearchTypeOK
<1>10. CASE UNCHANGED searchVars
  BY <1>10 DEF SearchInv, SearchTypeOK, Query, Rows, searchVars, box, net
<1> QED
  BY <1>1, <1>2, <1>3, <1>4, <1>5, <1>6, <1>7, <1>8, <1>9, <1>10
     DEF SearchNext, Searcher, Lose

LEMMA SearchMatches == SearchInv => ResultsMatchTerm
<1> SUFFICES ASSUME SearchInv PROVE ResultsMatchTerm
  OBVIOUS
<1> DEFINE own == {l \in lookups : l.own}
<1>1. Cardinality(own) <= 1
  <2>1. CASE own = {}
    BY <2>1, FS_EmptySet
  <2>2. CASE own # {}
    <3>1. PICK l \in own : own = {l}
      BY <2>2 DEF SearchInv
    <3> QED
      BY <3>1, FS_Singleton
  <2> QED
    BY <2>1, <2>2
<1> QED
  BY <1>1 DEF SearchInv, ResultsMatchTerm

\* However fast the viewer types, changes channels and comes back, and in whichever
\* order the lookups are answered: "Searching" is shown exactly while the one
\* lookup that counts is to be sent or under way; rows of an earlier term or channel
\* stay under it, but once it is gone the rows are those of the term and the channel
\* in view (the effect and the rendering in members_tab.tsx).
THEOREM SearchSound == WebSpec => []ResultsMatchTerm
<1>1. WebInit => SearchInv
  BY SearchInitial DEF WebInit
<1>2. SearchInv /\ [WebNext]_webVars => SearchInv'
  BY SearchStep DEF WebNext, webVars
<1> QED
  BY <1>1, <1>2, SearchMatches, PTL DEF WebSpec
==============================================================================
