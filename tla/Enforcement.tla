------------------------------ MODULE Enforcement ------------------------------
(***************************************************************************)
(* What mutes and timeouts do to a member's messages and reactions         *)
(* (server/enforcement.go), and what the message box of the web app says   *)
(* before anything is sent (server/api.go, webapp/src/selectors.ts).       *)
(*                                                                         *)
(* A hook asks the index, then the store, then the clock, with requests    *)
(* and the job at work in between.  The message box asks nobody: it judges *)
(* by the status received last and by its own clock.                       *)
(*                                                                         *)
(* The index of the hook's node may miss a record (ModerationIndex says    *)
(* when it does), and a call may fail: the member then posts in spite of   *)
(* the record, and the hook carries that excuse.                           *)
(***************************************************************************)
EXTENDS Restrictions

CONSTANTS
    NoHook,  \* no hook at work
    Unsure   \* a message box with no status, or one that a change has overtaken

VARIABLES
    hook,  \* the hook at work
    box    \* member -> the status that the member's message box goes by

enforcementVars == <<vars, hook, box>>

\* read is what the store answered, excuse what let the member past the hook
\* without a look at their record; always says whether one and the same record has
\* restricted the member at every moment of the hook so far, ever whether some
\* record has at some moment.
Hooks == [stage : {"asked", "read", "passed", "stopped"}, member : Members,
          read : Stored, excuse : {"none", "missed", "failed"},
          always : BOOLEAN, ever : BOOLEAN]
Statuses == [muted : BOOLEAN, until : 0..Latest]

ASSUME UnsureAssumption == NoHook \notin Hooks /\ Unsure \notin Statuses

EnforcementTypeOK ==
    /\ TypeOK
    /\ hook \in Hooks \cup {NoHook}
    /\ box \in [Members -> Statuses \cup {Unsure}]

EnforcementInit == Init /\ hook = NoHook /\ box = [m \in Members |-> Unsure]

------------------------------------------------------------------------------
(* The server.                                                             *)

\* Slips: a hook that lets muted members post, and one that stops whoever has a
\* record, expired or not.
TimeoutOnly(rec, t) == TimedOutNow(rec, t)
AnyRecord(rec, t) == rec # NoRecord

\* postingBlockedReason, once it has the record.
Blocks(rec, t) == Muted(rec) \/ TimedOutNow(rec, t)

\* A message or an edit reaches the server, from any client, or a reaction has
\* been added.  Bots, system messages and edits that change no content are let
\* through before anything is asked.
Reach(m) ==
    /\ hook = NoHook
    /\ hook' = [stage |-> "asked", member |-> m, read |-> NoRecord, excuse |-> "none",
                always |-> InForce(record[m], now), ever |-> InForce(record[m], now)]
    /\ UNCHANGED <<vars, box>>

\* The hook is done, and one of the two ghosts with it.
Passed(excuse) ==
    [hook EXCEPT !.stage = "passed", !.read = NoRecord, !.excuse = excuse, !.ever = FALSE]
Stopped == [hook EXCEPT !.stage = "stopped", !.read = NoRecord, !.always = FALSE]

\* postingBlockedReason finds a ban (Bans): the member is stopped for that.
Banned ==
    /\ hook # NoHook /\ hook.stage = "asked"
    /\ hook' = NoHook
    /\ UNCHANGED <<vars, box>>

\* The index knows of no restriction, whether or not there is one.
NotIndexed ==
    /\ hook # NoHook /\ hook.stage = "asked"
    /\ hook' = Passed(IF record[hook.member] = NoRecord THEN "none" ELSE "missed")
    /\ UNCHANGED <<vars, box>>

\* The store is asked; a failing read lets the member post.
Ask ==
    /\ hook # NoHook /\ hook.stage = "asked"
    /\ \/ hook' = [hook EXCEPT !.stage = "read", !.read = record[hook.member]]
       \/ Failures /\ hook' = Passed("failed")
    /\ UNCHANGED <<vars, box>>

\* The clock decides.  A reaction is there already, and removing it may fail.
Decide ==
    /\ hook # NoHook /\ hook.stage = "read"
    /\ \/ hook' = IF Blocks(hook.read, now) THEN Stopped ELSE Passed("none")
       \/ Failures /\ Blocks(hook.read, now) /\ hook' = Passed("failed")
    /\ UNCHANGED <<vars, box>>

Return ==
    /\ hook # NoHook /\ hook.stage \in {"passed", "stopped"}
    /\ hook' = NoHook
    /\ UNCHANGED <<vars, box>>

------------------------------------------------------------------------------
(* The message box.                                                        *)

\* Slip: a status that forgets a timeout.
BareStatus(rec, t) == [muted |-> Muted(rec), until |-> 0]

\* handleStatus, about the caller's own restriction.
StatusOf(rec, t) ==
    [muted |-> Muted(rec), until |-> IF TimedOutNow(rec, t) THEN rec.until ELSE 0]

\* getPostingBlockedReason of the web app.
BoxBlocks(status, t) == status.muted \/ status.until > t

\* fetchStatus; if the read fails, the answer says nothing about the member.
FetchStatus(m) ==
    /\ \/ box' = [box EXCEPT ![m] = StatusOf(record[m], now)]
       \/ Failures /\ box' = [box EXCEPT ![m] = Unsure]
    /\ UNCHANGED <<vars, hook>>

------------------------------------------------------------------------------

\* While the requests, the job and the clock go on: what they make of the member
\* of the hook, and of what message boxes have been told.
Watch ==
    /\ hook' = IF hook # NoHook /\ hook.stage \in {"asked", "read"}
               THEN LET m == hook.member
                        active == InForce(record'[m], now')
                    IN  [hook EXCEPT !.always = @ /\ active /\ record'[m] = record[m],
                                     !.ever = @ \/ active]
               ELSE hook
    /\ box' = [m \in Members |-> IF record'[m] = record[m] THEN box[m] ELSE Unsure]

HookStep ==
    \/ \E m \in Members : Reach(m)
    \/ Banned
    \/ NotIndexed
    \/ Ask
    \/ Decide
    \/ Return

EnforcementNext ==
    \/ Next /\ Watch
    \/ HookStep
    \/ \E m \in Members : FetchStatus(m)

EnforcementSpec == EnforcementInit /\ [][EnforcementNext]_enforcementVars

------------------------------------------------------------------------------
(* What is expected of the hooks and of the message box.                   *)

\* Muted and timed-out members cannot post or react: however requests, the job
\* and the clock interleave with a hook, a member whom one record restricts from
\* its beginning to its end gets past it only when the node's index misses the
\* record, the read fails, or a reaction cannot be removed.  (A timeout that is
\* renewed or followed by a mute between the read and the look at the clock lets
\* one message through besides.)
StopsMessages ==
    hook # NoHook /\ hook.stage = "passed" /\ hook.always => hook.excuse # "none"

\* And nobody is stopped who was never restricted while the hook was at work.
StopsOnlyRestricted ==
    hook # NoHook /\ hook.stage = "stopped" => hook.ever

\* "matching the server's enforcement" (getPostingBlockedReason): the message box
\* goes on saying what the hooks would, at every moment until the record changes,
\* by an answer that may have been given long before a timeout ran out.
BoxAgrees ==
    \A m \in Members :
        box[m] # Unsure => (BoxBlocks(box[m], now) <=> InForce(record[m], now))
==============================================================================
