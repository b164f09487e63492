----------------------------- MODULE HideMessages -----------------------------
(***************************************************************************)
(* Hiding a banned member's recent messages (hideMessagesFromUser in       *)
(* server/actions.go) beside the hook that the server calls for every      *)
(* edit, the plugin's own updates included (MessageWillBeUpdated in        *)
(* server/enforcement.go).                                                 *)
(*                                                                         *)
(* The scan pages through the channel by offset, newest message first,     *)
(* while messages arrive, are edited and are deleted, by the scan itself   *)
(* as well.  The specification begins when banUser starts the scan, over   *)
(* any channel, and follows the channel until the scan is over.            *)
(***************************************************************************)
EXTENDS KVPaging, FiniteSetsExt

CONSTANTS
    MaxPosts,  \* bound: messages the channel ever has
    PageSize,  \* perPage
    ScanLimit, \* tombstoneScanLimit
    MaxShifts, \* bound: messages that come or go during the scan, after which
               \* only the scan removes any
    ScanFailures   \* whether a call on the channel may fail

ASSUME ScanBoundsAssumption ==
    /\ MaxPosts \in Nat /\ PageSize \in Nat \ {0} /\ ScanLimit \in Nat \ {0}
    /\ MaxShifts \in Nat /\ ScanFailures \in BOOLEAN

\* Messages are numbered as they arrive.
Posts == 1..MaxPosts
NewestFirst == [s \in Posts |-> MaxPosts - s]

VARIABLES
    written,  \* messages the member wrote; the others are by somebody else or
              \* by the system
    last,     \* the newest message
    shown,    \* message -> what the channel shows of it
    banned,   \* whether the member has a ban record
    muted,    \* whether the member is muted in the channel
    editing,  \* messages with an edit past the hook, not yet stored
    scan,     \* hideMessagesFromUser: its stage, mode, page and page's messages
    window,   \* the messages the scan is about
    shifts,   \* messages that came or went since the scan began
    excused   \* messages whose hiding failed, or was edited over

channel == <<written, last, shown>>
member == <<banned, muted, editing>>
history == <<window, shifts, excused>>
scanVars == <<channel, member, scan, history>>

Scans == [stage : {"list", "posts", "done", "failed"}, mode : {"placeholder", "remove"},
          page : Nat, todo : SUBSET Posts, full : BOOLEAN]

ScanTypeOK ==
    /\ written \subseteq Posts
    /\ last \in 0..MaxPosts
    /\ shown \in [Posts -> {"text", "tombstone", "nothing"}]
    /\ banned \in BOOLEAN /\ muted \in BOOLEAN
    /\ editing \subseteq written
    /\ scan \in Scans
    /\ window \subseteq written /\ excused \subseteq Posts
    /\ shifts \in Nat

\* What GetPostsForChannel lists, in which order, and what is on a page of it:
\* messages that are not deleted, newest first.
Listed == {s \in Posts : shown[s] # "nothing"}
Before(s) == Rank(Listed, NewestFirst, s)
OnPage(i) == KeysOnPage(Listed, NewestFirst, PageSize, i)

\* A ban record is stored and the goroutine starts.  Edits of the member may
\* have passed the hook before.  The recent messages are the member's among the
\* newest ScanLimit.
ScanInit ==
    /\ written \in SUBSET Posts
    /\ last \in 0..MaxPosts
    /\ shown = [s \in Posts |-> IF s <= last THEN "text" ELSE "nothing"]
    /\ banned = TRUE /\ muted \in BOOLEAN
    /\ editing \in SUBSET (written \cap Listed)
    /\ scan \in [stage : {"list"}, mode : {"placeholder", "remove"}, page : {0},
                 todo : {{}}, full : {FALSE}]
    /\ window = {s \in written \cap Listed : Before(s) < ScanLimit}
    /\ shifts = 0 /\ excused = {}

Scanning == scan.stage \in {"list", "posts"}

------------------------------------------------------------------------------
(* The channel and the member.                                             *)

Shift == shifts' = shifts + 1

\* A message arrives.  Only a message of the member's that passed
\* MessageWillBePosted before the ban still does.
Post ==
    /\ Scanning /\ last < MaxPosts /\ shifts < MaxShifts
    /\ last' = last + 1
    /\ shown' = [shown EXCEPT ![last + 1] = "text"]
    /\ Shift
    /\ UNCHANGED <<written, member, scan, window, excused>>

\* deletePostAsModerator, or an author deletes a message.
DeletePost(s) ==
    /\ Scanning /\ s \in Listed /\ shifts < MaxShifts
    /\ shown' = [shown EXCEPT ![s] = "nothing"]
    /\ Shift
    /\ UNCHANGED <<written, last, member, scan, window, excused>>

\* postingBlockedReason.
Blocked == banned \/ muted

\* Slip: an edit of anybody's message is taken for the member's.
EditAny(s) ==
    /\ Scanning /\ s \in Listed
    /\ ~Blocked
    /\ editing' = editing \cup {s}
    /\ UNCHANGED <<channel, banned, muted, scan, history>>

\* The member edits: MessageWillBeUpdated lets the edit pass ...
SendEdit(s) ==
    /\ Scanning /\ s \in written \cap Listed
    /\ ~Blocked
    /\ editing' = editing \cup {s}
    /\ UNCHANGED <<channel, banned, muted, scan, history>>

\* ... and the server stores it, unless the message is gone.
StoreEdit(s) ==
    /\ Scanning /\ s \in editing
    /\ editing' = editing \ {s}
    /\ IF s \in Listed
         THEN /\ shown' = [shown EXCEPT ![s] = "text"]
              /\ excused' = excused \cup {s}
         ELSE UNCHANGED <<shown, excused>>
    /\ UNCHANGED <<written, last, banned, muted, scan, window, shifts>>

\* unbanUser deletes the record.
Unban ==
    /\ Scanning /\ banned
    /\ banned' = FALSE
    /\ UNCHANGED <<channel, muted, editing, scan, history>>

------------------------------------------------------------------------------
(* The scan.                                                               *)

\* Slip: the limit is taken for that of the page after the next.
IsLastButOne(full, page) == ~full \/ (page + 1) * PageSize >= ScanLimit

\* isBanTombstone: an update of the scan's, while the ban stands.
isBanTombstone(s) == banned

\* MessageWillBeUpdated lets such an update pass; it has no session.
UpdatePasses(s) == isBanTombstone(s) \/ ~Blocked

\* The loop ends after a page that is not full, or at the limit.
IsLast(full, page) == ~full \/ page * PageSize >= ScanLimit

\* One page; the member's messages on it are to be hidden.
ListPage ==
    LET keys == OnPage(scan.page)
    IN  /\ scan.stage = "list"
        /\ scan' = [scan EXCEPT !.stage = "posts", !.page = @ + 1,
                      !.todo = keys \cap written, !.full = Cardinality(keys) = PageSize]
        /\ UNCHANGED <<channel, member, history>>

ListFails ==
    /\ ScanFailures
    /\ scan.stage = "list"
    /\ scan' = [scan EXCEPT !.stage = "failed"]
    /\ UNCHANGED <<channel, member, history>>

\* The messages of a page in their order, newest first.
Current == Max(scan.todo)
NextPost ==
    /\ scan.stage = "posts" /\ scan.todo # {}
    /\ scan' = [scan EXCEPT !.todo = @ \ {Current}]
    /\ UNCHANGED <<written, last, member, window>>

\* UpdatePost with the placeholder, or DeletePost.
HidePost ==
    /\ NextPost
    /\ Current \in Listed
    /\ IF scan.mode = "remove"
         THEN shown' = [shown EXCEPT ![Current] = "nothing"] /\ Shift
         ELSE /\ UpdatePasses(Current)
              /\ shown' = [shown EXCEPT ![Current] = "tombstone"]
              /\ UNCHANGED shifts
    /\ UNCHANGED excused

\* The plugin's own hook turns the update down.
HideRejected ==
    /\ NextPost
    /\ Current \in Listed
    /\ scan.mode = "placeholder" /\ ~UpdatePasses(Current)
    /\ excused' = excused \cup {Current}
    /\ UNCHANGED <<shown, shifts>>

\* The message is gone, or the server fails.  The scan goes on either way.
HideFails ==
    /\ NextPost
    /\ ScanFailures \/ Current \notin Listed
    /\ excused' = excused \cup {Current}
    /\ UNCHANGED <<shown, shifts>>

EndPage ==
    /\ scan.stage = "posts" /\ scan.todo = {}
    /\ scan' = [scan EXCEPT !.stage = IF IsLast(scan.full, scan.page) THEN "done" ELSE "list"]
    /\ UNCHANGED <<channel, member, history>>

ScanNext ==
    \/ Post
    \/ \E s \in Posts : DeletePost(s)
    \/ \E s \in Posts : SendEdit(s)
    \/ \E s \in Posts : StoreEdit(s)
    \/ Unban
    \/ ListPage
    \/ ListFails
    \/ HidePost
    \/ HideRejected
    \/ HideFails
    \/ EndPage

ScanSpec == ScanInit /\ [][ScanNext]_scanVars

------------------------------------------------------------------------------
(* What is expected of the scan.                                           *)

\* "When a member is banned, hide their recent messages" (README): a finished
\* scan has missed at most one recent message for each message that came or
\* went meanwhile and shifted the pages, not counting messages whose own update
\* failed or was edited over.
Missed == {s \in window : shown[s] = "text"} \ excused
MissesOnlyShifted == scan.stage = "done" => Cardinality(Missed) <= shifts

\* The same without the allowance: with nobody else at work, the scan misses
\* nothing ("... or remove the messages entirely", README).
MissesNothing == scan.stage = "done" => Missed = {}
==============================================================================
