# A verification development for the moderation plugin

TLA+ models of the Mattermost moderation plugin, TLC configurations that check
them on small instances, and TLAPS proofs of their central theorems. Paths and
line numbers refer to `src/`.

## The system

Channel moderators mute members, time them out, act on reports and delete
messages; system admins ban members from the server. A Go plugin on every server
node (`server/`) keeps all durable state in the plugin's KV store and enforces
restrictions from the server's post and reaction hooks. A web app (`webapp/`)
shows reports and members in a side panel.

| component | state it keeps | operations | interacts with |
|---|---|---|---|
| Moderation index (`server/index.go`) | per node, in memory: `banned`, `restricted`, `ready`, `rebuilding`, `pending` | `add`, `rebuildIndex` (page, recheck, install), `OnPluginClusterEvent` | reads the KV store, is told by mute/timeout/ban, told by other nodes through cluster events, asked by the hooks |
| Restrictions (`server/actions.go` 40-115) | a record per member and channel: muted, timeout end | `muteUser`, `timeoutUser`, `liftRestrictions` | adds to the index first, resolves reports afterwards |
| Cleanup job (`server/job.go`) | none between runs | `runJob`, hourly, on one node | reads and deletes restriction records |
| Report queue (`server/reports.go`, `server/api.go`) | a list of reports per channel; submission stamps per member | create, dismiss, resolve by member/message/report, escalate | a cluster mutex per channel (`server/plugin.go` 109-125) |
| Bans (`server/actions.go` 157-340, `server/picture.go`) | a ban record per member; the account's status and profile on the server | `banUser`, `unbanUser` | account and profile calls, the index |
| Enforcement hooks (`server/enforcement.go`) | none | `MessageWillBePosted`, `MessageWillBeUpdated`, `ReactionHasBeenAdded` | the index, then the KV store |
| Hiding messages (`server/actions.go` 406-449) | none | `hideMessagesFromUser` | pages through a channel while deleting from it |
| Permissions and moderators (`server/permissions.go`, `server/actions.go` 360-404) | a list of moderators per channel | `isModerator`, `tier`, `checkCanActOn`, `setModerator` | the channel mutex; every handler |
| Member list (`server/actions.go` 451-559) | none | `listMembers` | reads members, restrictions, bans |
| Notifications (`server/reports.go` 327-433) | none | direct messages, websocket events | the web app |
| KV store client (`server/store/kvstore/`) | the keys `ban_`, `mods_`, `reports_`, `restrict_`, stamps | get, set, delete, list by page | everything above |
| Lifecycle and configuration (`server/plugin.go`, `server/configuration.go`) | the active configuration | `OnActivate`, `OnDeactivate`, `OnConfigurationChange` | starts the index and the job |
| Web app state (`webapp/src/`) | what has been fetched: status, reports, members | fetch, websocket events, reconnect, the check of the message box | the HTTP API |
| Dialogs and tools (`webapp/src/components/`) | three dialogs, a toast and its timer | open, choose, submit, confirm, cancel, Escape; answers that come late | the HTTP API; the status decides what is offered |
| Search of the members tab (`members_tab.tsx`) | term, results, a timer, lookups under way | type, clear, switch channel, look up | the HTTP API, the list of members |

### What is hard here

The plugin runs on several nodes over one store that offers atomic single-key
calls and nothing more. So: (1) every multi-call operation interleaves with every
other; only the report queue and the moderator list take a lock; (2) the store is
listed by offset while it changes, so keys shift between pages; (3) the index is
a cache whose invalidation messages can be lost, and a miss in it switches
enforcement off; (4) any call can fail between two others, and bans try to roll
back; (5) a node can stop anywhere; (6) time passes between a read and the write
that rests on it; (7) the web app offers tools by a status that may be old, and its
answers arrive when the viewer has gone on. `PROJECT.json` lists these hazards at the lines where they
bite.

### What makes each component correct

* Index: it never drops an entry whose record stayed in the store during a
  rebuild or that was added meanwhile, and in quiet times it comes to agree with the store on every node.
* Restrictions: a mute or a timeout goes away only by an operation that says so;
  nobody is timed out for longer than the longest duration on offer.
* Cleanup job: it deletes all records that have expired and no others.
* Report queue: no lost write, no duplicate, statuses move forward, a full queue
  drops resolved reports first, oldest first, the rate limit holds, every request
  returns.
* Bans: record and account agree between requests, a hidden profile is always on
  record, and an unban puts it back or warns.
* Hooks: whoever a record restricts throughout a hook gets nothing past it, nobody
  else is stopped, and the message box says the same beforehand.
* Hiding messages: a scan misses no more messages than came or went meanwhile.
* Permissions: nobody sanctions themselves or a member of their own rank or above,
  and what the web app offers the server permits.
* Dialogs: one is busy exactly while its own call is under way, every submission
  ends, a toast is never hidden by another's timer.
* Search: once it has stopped searching, the rows belong to the term and the channel
  in view, and they follow changes.
* Panel: after changes stop it shows what the server stores.

The code does not keep all of this. Where it does not, either a run shows the
violation, or a property names every way in which it goes wrong and says that there
is no other ("Runs" below).

## Modules

| module | models | state and actions |
|---|---|---|
| `KVPaging` | the store's listing by page | `KeysOnPage`: a page is cut by offset from the keys present at the call |
| `ModerationIndex` | `server/index.go` on all nodes, with the writers and deleters of records reduced to their effect on the set of keys | `index`, `ready`, `pending` are the struct's fields; `phase`, `page`, `found`, `todo` the locals of `rebuildIndex`; `storing` a request between `addToIndex` and its last write; `events` the undelivered cluster events |
| `ModerationIndexHistory` | the same, with history variables | `absent`: entries whose record was missing at some moment of the rebuild that runs; `added`: entries added since it began |
| `Restrictions` | `muteUser`, `timeoutUser`, `liftRestrictions`, `runJob`, the plugin's other keys | a request is two steps, read and write; the job one step per store call |
| `JobHistory` | `Restrictions` with history variables about the job's run | `due`: expired records it ought to find; `shifts`: keys that others stored or deleted while it listed; `renewed`: records written since it took them for expired |
| `Enforcement` | the hooks of `server/enforcement.go`, `handleStatus` and the web app's message box, over `Restrictions` | a hook asks the index, reads the record, looks at the clock, in three steps; `box` is the status a message box goes by |
| `ReportOps` | what the operations of `server/reports.go` compute | `capReports`, `hasDuplicateReport`, the edits |
| `ReportQueue` | what the report queues promise | reports are filed and changed one at a time, as a whole |
| `Reports` | `server/reports.go` and the report handlers; implements `ReportQueue` | a request waits, locks and reads, reads and writes stamps, writes, returns |
| `Bans` | `banUser`, `unbanUser` and what they call, by several admins at once | one step per server or store call, each of which may fail |
| `BanHistory` | `Bans` with history variables | `drifted`, `mislaid`: whether one of the events from which the plugin does not recover the account, or the profile, has happened |
| `HideMessages` | `hideMessagesFromUser` over the messages of a channel, `MessageWillBeUpdated` | one step per page read and per message hidden, beside messages that arrive, are edited or deleted |
| `Sanctioning` | `Enforcement`, `BanHistory` and `HideMessages` side by side | `part` says what a behaviour is about: the restrictions with a hook, or with a message box, bans, or a scan |
| `Panel` | the web app's fetches, events, reconnects and effects for one channel and one viewer | `calls` are HTTP calls under way, each sent, answered and received; `shown` is the reducer's slice |
| `Tools` | who is offered which tool (menus, popover, report card, member row) and what the server permits whom (`server/permissions.go` and the heads of the actions) | operators only |
| `Dialogs` | the dialogs, calls and toasts of the web app, with the viewer's role changing | `dialog` is the reducer's three slices with the components' own state, `call` the HTTP calls under way |
| `MembersSearch` | the search of the members tab | `Effect` is the React effect with its clean-up |
| `WebApp` | `Dialogs` and `MembersSearch` side by side | `part` says which of the two a behaviour is about |
| `MCIndex`, `MCIndexHistory`, `MCRestrictions`, `MCSanctioning`, `MCReports`, `MCWebApp` | instances for TLC | key orders, targets, persons, symmetry |
| `ModerationIndexProofs`, `RestrictionsProofs`, `ReportsProofs`, `BansProofs`, `HideMessagesProofs`, `PanelProofs`, `WebAppProofs` | theorems and proofs; `RestrictionsProofs` has those of `JobHistory` and `Enforcement` too, `BansProofs` those of `BanHistory`, `WebAppProofs` those of `Tools`, `Dialogs` and `MembersSearch` | |
| `KVPagingProofs` | lemmas about ranks and pages, cited by three of them: the ranks of `n` keys are 0 to `n - 1`, a key that comes or goes shifts those behind it by one, a short page is the last | |

`ModerationIndex`, `Restrictions` and `HideMessages` extend `KVPaging`;
`ModerationIndexHistory` extends `ModerationIndex`; `JobHistory` and `Enforcement`
extend `Restrictions`, whose steps they watch; `BanHistory` extends `Bans`; `Dialogs`
extends `Tools`. The components share the store but touch different keys of it, so
each module carries the keys it is about, and `ModerationIndex` and `Restrictions`,
which list all of them, treat the others as `OtherKeys` that come and go.
`Sanctioning` and `WebApp` let one run ask the questions of several modules whose
steps do not depend on each other; where one does depend on another, it takes what
the other may do as given (below). `HideMessages`, `BanHistory` and `Panel` are
checked directly as well, without an MC module.

### Correspondence, and what is abstracted

* **Index.** A key of the store is a model value; its position in the listing is
  `KeyPos`, any injective map, because only the order matters. The struct's
  mutex makes `add`, `beginRebuild`, `entries` and `endRebuild` atomic; each is
  one action or part of one. `entries()` is called right after the last page,
  so it is in the action of that page. `DeleteRecord` may delete any key at any
  moment: this stands for lifts, unbans, the job, and the keys of cluster
  mutexes. A lost event is an event never put into `events`.
* **Restrictions.** The clock is an integer in the unit of the durations. The end
  of a timeout is computed from the time at some moment between the request's
  read and its write. `JobList` cuts its page from all keys of the plugin that are in
  the store and keeps the restrictions, as `ListRestrictionKeys` does; whether there
  is another page depends on the unfiltered page. `OtherKey` stores or deletes a key of
  another kind at any moment. `InForce` and `Expired` say what a record is meant to
  mean and are written apart from the code's `Active`, `Collects` and `Blocks`, which
  they judge. Permission checks come before the read and change nothing; notices and
  the resolving of reports come after the write (the latter is a request of `Reports`).
* **Reports.** Reports carry what the queue's logic reads: ID, reporter, subject,
  status, and the stamp counted for it. Names, excerpts, reasons are left out.
  The save of reports and the deferred unlock are one step, since nothing happens
  in between. `limit` is the configured `ReportRateLimit`, which does not change
  during a behaviour. A node that stops with the mutex is `CutOff`, which frees it, as the
  cluster mutex does when it is no longer refreshed.
* **The queue and its promise.** `ReportQueue` has neither handlers nor a mutex:
  `File` and `Change` read and write a queue in one step. `Reports` maps to it by
  `queue <- reports, filed <- nextId`; every step of a handler but its save is a
  stutter. Both take what an operation computes from `ReportOps`.
* **Enforcement.** A hook is one at a time: hooks only read, so two do not meet. The
  index of the hook's node may know of no record whether or not there is one
  (`NotIndexed`): `IndexWriterRace` shows that it may miss one, `IndexHistory` that in
  quiet times it does not. A hook so misled, one whose read fails and one that cannot
  remove a reaction let the member past with an `excuse` ("missed", "failed"). A hook
  that finds a ban first stops the member for that and ends (`Banned`). `always` and
  `ever` are history: whether one record has restricted the member at every moment of
  the hook, and whether any has at some moment. Renewing a timeout replaces the record:
  a timeout renewed, or followed by a mute, between the hook's read and its look at
  the clock lets one message through, which `StopsMessages` leaves out. A message
  box whose record has changed since its status was sent is `Unsure`; `Panel` says
  when a new status comes. Both clocks are taken to agree.
* **Tools.** A person is described by what the two sides look at: role, whether they
  are the viewer or a bot, whether they are in the channel, restricted, banned and
  by which team. `Offered` is the union over the places a tool is offered in.
* **Dialogs.** A dialog's texts and choices are one bit, `chosen`; the checkbox of
  the ban dialog is a payload. `live` says that the dialog that sent a call has
  been open since, which is what decides whether `setSubmitting` reaches it. The
  viewer's status follows their role at any moment (`Panel` has the calls). A call
  permitted by the server may still fail; one that is not is refused. Opening a
  dialog of a kind that is open replaces whom it is about and keeps the component.
* **Search.** The trimmed term is one of a small set; a found list is the query it
  answers and the version of the members it shows. Each change of term, channel or
  list runs the effect's clean-up, then the effect, in the same step as the change:
  React renders once in between, for an instant, with the old `searching`. `Rows` are
  what is rendered below the box: those of the last lookup stay there under
  "Searching…" (`members_tab.tsx` 117-124), for another term or channel too.
  `ResultsMatchTerm` is about the rows once "Searching…" is gone.
* **Bans.** A profile is one of four: the member's own, one set in the System
  Console, and the two placeholders `hideBannedIdentity` tries. `warned` says whether
  an unban has reported since a profile was last put back that it could not restore
  one; it influences no step. Which admins may ban or unban whom is in `Tools`. The
  System Console is external.
* **What bans do not recover from.** `drifted` is set by an overlap of two requests, a
  roll back that fails, the lost record of a second ban, or the System Console
  changing the account, and cleared when account and record agree between requests;
  `mislaid` by an overlap, a second ban or a placeholder that could not be recorded,
  and cleared when the member's own profile shows between requests. Each is needed:
  without any one of them TLC finds a violation of `Consistent` or `IdentityKept`.
* **Hiding messages.** A behaviour begins when `banUser` has stored the record and
  starts the goroutine, over any channel, and ends with the scan. The listing holds
  the messages that are not deleted, newest first, as `GetPostsForChannel` does
  (external). Messages by others and system messages are alike: the scan skips
  both. Only the member's own edits are followed. `window`, `shifts` and `excused`
  are history: the messages the scan is about, how many came or went, and whose
  hiding failed or was edited over.
* **Panel.** Reports, and members' roles and restrictions, are version numbers: what
  matters is whether a copy is current. The status depends on all of them and on
  the viewer's role. An event's payload is the channel alone, so events are
  counted. React effects run with the step whose render causes them. Events sent
  while the websocket is down are lost; HTTP calls still work. Administrators of
  the channel stay so: their role changes outside the plugin, with no event.

## Runs

`tlc -config <run>.cfg <module>`, with the module that `PROJECT.json` gives. All
passing runs explore their state space to the end. Deadlock is not checked in
`Sanctioning`, where a scan ends, and in the `Panel` runs, whose changes run out.

| run | question | answer |
|---|---|---|
| `IndexHistory` | Two nodes: can a rebuild drop an entry it must keep, with failing stores, lost events, restarts and keys shifting under the scan? Does every index come to agree with the store? | No, nor one added while the rebuild ran (`LoadedIndexDropsOnlyAbsent`; the invariant used in the proof, `RebuildInv`, holds); yes (`Converges`) |
| `IndexWriterRace` | "It must never miss an active one" (`server/index.go` 32-33)? | Violated: an addition before a rebuild whose record is written after the recheck is dropped |
| `RestrictionsJob` | Does the job, over pages of all keys and beside a moderator, remove the expired records and only those, when runs of it may be cut off between any two calls? | A run misses no more of them than keys came or went while it listed (`JobMissesOnlyShifted`); it deletes one that restricts only if that was written after the run took it for expired (`JobDeletesOnlyExpired`); expired records do go once writers rest, the keys fit and runs are not cut off (`ExpiredRemoved`) |
| `Sanctioning`, restrictions | Overlapping mutes, timeouts and lifts, the clock, the job: what can end a mute or a timeout, how long can one be? What do a hook and a message box make of them? | `MuteKept`, `TimeoutKept`: a request that says so, a write resting on an outdated read, or the job's delete of a renewed record; `TimeoutBounded`; `StopsMessages`, `StopsOnlyRestricted`, `BoxAgrees` |
| `Sanctioning`, bans | Two admins, second bans, two failing calls of any kind, System Console changes: what parts account and record, or hides a profile for good? | `Consistent`, `IdentityKept`: only the events named in `BanHistory` |
| `Sanctioning`, scan | Both modes, with other messages coming and going and calls failing: what can a scan miss? | `MissesOnlyShifted` |
| `ReportsQueue` | Two overlapping requests of every kind, with failures and a clock, limit on and off: is the queue kept, in which order do reports leave it, is the mutex given back? | `MutexInv`, `NoDuplicateOpen`, `QueueForward`, `RequestsReturn`; and it changes as `ReportQueue` does (`ChangesAtOnce`, the refinement) |
| `ReportsRates` | Are "reports ... rate limited per member" (`README.md` 11, 58)? | Violated: two submissions in two channels read the same stamps, and both pass |
| `HideMessagesRemove` | "remove the messages entirely" (`README.md` 57), nobody else at work | Violated: each deletion shifts an older message onto a page already read |
| `Panel` | Overlapping fetches, lost connections, answers in order: what does a panel come to show? | The stored status always (`StatusRecovers`), the stored reports unless events were lost (`QueueFollows`) |
| `PanelMembers` | Does "the members tab stay current after ... websocket events" (`actions.ts` 74-76)? | Violated without any fault: an event during the first fetch of the members does not fetch them again |
| `WebApp` | Dialogs opened, submitted, cancelled and reopened while calls are answered late and the viewer's role changes; a search while channels, terms and members change | `DialogInv`, `SubmitEnds`, and until the role changes `OfferedIsPermitted`; `ResultsMatchTerm`, `SearchFollows` |
| `BansRebanIdentity` | Is the original profile on record after a second ban of a banned member? | Violated: the second ban records the placeholder |
| `BansLostPlaceholder` | Does an unban restore the profile or warn (`actions.go` 243-244), for one admin and one failing write? | Violated: when the write of the placeholder's name fails, the unban restores nothing and says nothing |

### Bounds, and why they are enough

* `IndexHistory`: two nodes, one writer with a restriction, one other key that
  sorts before it, pages of one key. Each key is on a page of its own, so each
  deletion shifts. The other node's additions reach a node's rebuild as events,
  which may be lost.
* `RestrictionsJob`: one moderator (`Handlers`), two members, and two other keys that
  sort before both, so that every one of them that comes or goes shifts the members'
  records; two pages (`JobPages`) of one key, so that the other keys can use up the
  pages of a run. Two shifts while a run lists (`MaxShifts`). Calls fail in
  `Sanctioning`, and in the proofs.
* `Sanctioning`, restrictions: one member, since requests on different records do not
  meet; two requests, durations 1 and 2, times up to 2: timeouts end before, during and
  after the run; one hook, which meets both requests and the job. Bans: one member, two
  requests at once, any number of requests one after another, two failing calls
  (`MaxFaults`): a call and its roll back, or one in each of two requests. Scan: four
  messages (`MaxPosts`) by any authors on pages of two, a scan of two pages, one arrival
  or deletion (`MaxShifts`), a bound that does not stop the scan's own deletions.
* `ReportsQueue`: two requests, one channel, one reporter, a message, its author and
  another member as subjects, three reports through a queue of two, so that the queue
  overflows with resolved reports in it and with none, and once more than
  one is resolved their order shows. With a limit the window is 0: a stamp counts
  at its own time and no longer at the next.
* `ReportsRates`: two channels, a limit of 1.
* `Panel`: two changes (`MaxChanges`), so that one can fall between the answers of two
  fetches; nothing new starts while two calls are under way (`MaxCalls`), but a
  step may send up to three, so that up to six could be under way (`PanelProofs`).
  `Faulty` is loss only.
* `WebApp`: one person, a plain member, two calls under way at once (`Slots`), one change
  of role (`MaxChanges`), and a tool of each kind: one with a dialog that waits for
  its call, two such, one that is confirmed, one without a dialog. Two calls are
  enough for a cancelled dialog's call to meet the next one's. The search has one
  term, two channels, one change of the members, two lookups. What other persons
  and tools are offered is proved, not enumerated (`WebAppProofs`).
* `BansRebanIdentity`, `BansLostPlaceholder`: one admin, no System Console, no failing
  call or only those of kind "addition", the later writes of a stored record.

With other constants the same modules show more: `NeverMisses`
fails on a first load with `Handlers = {}`, because there is no old index to recheck;
`StatusRecovers` and `QueueFollows` fail when answers may overtake each other, and
`QueueFollows` without its condition on the connection, since a reconnect fetches the
status only; `ExpiredRemoved` fails when the keys outnumber `JobPages * JobPageSize`.

### What goes wrong, and is named

Some of what the code says of itself fails in ways that no lock or check prevents. The
six violation runs show six of them. These show in the exceptions of properties, which
also say that there are no others:

* A mute or a timeout is undone by a request that read the record before it
  (`OutdatedWrite` in `MuteKept`, `TimeoutKept`): two requests for one member overlap.
* The job deletes a mute or a timeout that replaced an expired one between its two
  passes (`RenewedDelete`, `renewed`; `job.go` 30).
* A restricted member's message passes while the index misses the record (`excuse`), and
  when a timeout is renewed or followed by a mute between a hook's read and its look at
  the clock (`always` is about one record).
* Account and record part, or a profile is lost, by the events of `BanHistory`.

### Fairness

* `ModerationIndex!Fairness`: `rebuildIndex` makes progress, because `maintainIndex` runs
  it at start and at every tick of a ticker in a goroutine of its own
  (`index.go` 172-185); accepted cluster events are delivered. Nothing is
  assumed of writers, deleters or lost events, and `Converges` is conditional on
  restarts and read failures ending (`Settled`) and the store coming to rest
  (`Quiet`).
* `Restrictions!Fairness`: the clock runs and the scheduled job runs
  (`plugin.go` 77-87). Moderators need not act. A run may be cut off for ever;
  `ExpiredRemoved` is conditional on that ending, on moderators and the other keys
  resting (the job also finishes beside them, but may miss what they shift), and on
  all keys fitting into the pages of a run (100 of 100 in the code).
* `Reports!FairSpec`: a request that can take its next step takes it, and one that
  waits polls the mutex. Weak fairness suffices since `RequestsReturn` is
  conditional on requests ceasing to come; the assumption is about requests that
  exist and never makes one arrive.
* `Dialogs!Fairness`, `MembersSearch!SearchFairness`: calls are answered or given up,
  answers arrive, the browser's timer fires. Nothing is assumed of the viewer;
  `SearchFollows` is conditional on their rest and on no lost call.
* `Panel!FairSpec`: calls are answered, answers and events arrive, the websocket
  reconnects. Nothing is assumed of the viewer or the server's other users, and the
  properties are conditional on their rest (`Rests`).

## Proofs

Checked by `tlapm` for all values of the constants that satisfy the named
assumptions.

| theorem | statement | how |
|---|---|---|
| `ModerationIndexProofs!TypeCorrect` | `Spec => []TypeOK` | inductive as it stands |
| `ModerationIndexProofs!HistoryTypeCorrect`, `RebuildAccounts` | `HistorySpec => []HistoryTypeOK`, `HistorySpec => []RebuildInv` | induction, an action at a time |
| `ModerationIndexProofs!LoadedIndexKeepsRecords` | `HistorySpec => LoadedIndexDropsOnlyAbsent` | from `RebuildInv`: when the rebuild ends nothing is left to recheck, so an entry of the old index is in the new one or was seen missing, and what was added is in `pending` |
| `RestrictionsProofs!TimeoutsBounded` | `Spec => [](TypeOK /\ TimeoutBounded)` | strengthened by the same bound for the records that requests have read and will write back |
| `RestrictionsProofs!MutesKept`, `TimeoutsKept` | `Spec => MuteKept`, `Spec => TimeoutKept` | from that invariant, and that the job's run began in the past (`JobBegan`): a write that takes a mute or a timeout away writes back what its request read, and the job does so only to a record it would not collect now |
| `RestrictionsProofs!JobDeletesExpired` | `HistorySpec => JobDeletesOnlyExpired` | by `Found`: what the job has collected is still what it would collect, unless a request has written it since (`renewed`); and what has expired stays so |
| `RestrictionsProofs!JobRunMissesOnlyShifted` | `HistorySpec => []JobMissesOnlyShifted` | by `LostInv`: the expired records that lie behind the page to be read next and have not been taken up are at most as many as the shifts; each key that comes or goes moves one record across the edge (`ShiftLosesOne`), and by `ShortPageIsLast` a short page leaves nothing behind it |
| `RestrictionsProofs!EnforcementTypeCorrect`, `HooksStop`, `HooksStopNobodyElse` | `EnforcementSpec => []EnforcementTypeOK`, `[]StopsMessages`, `[]StopsOnlyRestricted` | strengthened by what the hook has read: while `always` holds it is the stored record, and if it restricts now, `ever` holds; a hook that has passed without an excuse has found no record or one that does not restrict |
| `RestrictionsProofs!BoxAgreesWithHooks` | `EnforcementSpec => []BoxAgrees` | strengthened by: a status is that of the stored record, at a time not after now |
| `ReportsProofs!NoLostUpdate` | `Spec => []MutexInv` | inductive with the type of the request variables |
| `ReportsProofs!QueueImplemented` | `Spec => ChangesAtOnce`, that is `Queue!Spec` | from `MutexInv`, a save writes a change of what is stored; strengthened by what requests carry (`RequestsInv`): a report past the duplicate check is none of what was read |
| `ReportsProofs!TypeCorrect` | `Spec => []TypeOK` | from `MutexInv` and what `capReports` returns (below) |
| `ReportsProofs!DuplicatesRefused` | `Spec => []NoDuplicateOpen` | `QueueInv`: no duplicates in what is stored; each change of `ReportQueue` keeps it |
| `ReportsProofs!ReportsMoveForward` | `Spec => QueueForward` | each change, then the cap: IDs are distinct and not reused (`IdsInv`), an edit keeps content and moves forward, the cap keeps the order and drops a first part of `DropOrder` |
| `ReportsProofs!RateLimited` | `Spec /\ []SubmissionsApart => []RateRespected` | `RatesInv`: every stored stamp counted for a report, or for a submission under way, stands in its window; what a submission has read is what is stored, so a stamp is only added where there is room |
| `HideMessagesProofs!TypeCorrect` | `ScanSpec => []ScanTypeOK` | inductive as it stands |
| `HideMessagesProofs!ScanMissesOnlyShifted` | `ScanSpec => []MissesOnlyShifted` | strengthened for a scan under way: the messages of the window behind it and not hidden are at most as many as came or went; each shift moves one message across the edge of a page (`RankAdd`, `RankRemove`) |
| `PanelProofs!TypeCorrect` | `Spec => []TypeOK`, with at most `2 * MaxCalls + 2` calls under way | strengthened by a measure of the calls (`Cost`) and by the roles their chains are for |
| `WebAppProofs!SanctionsNeedRank`, `PromotionKeepsTools`, `OfferedPermitted` | about `Permits` and `Offered`, for all tiers and persons | by the order of the tiers and the cases of the menus |
| `WebAppProofs!DialogsSound` | `Spec => []DialogInv` | inductive as it stands: `KindsMatch` is the part that ties a dialog to its calls |
| `WebAppProofs!NothingOfferedRefused` | `Spec => []OfferedIsPermitted` | strengthened: while the role has not changed, each open dialog and each call about such a person is one that is permitted, by `OfferedPermitted` |
| `WebAppProofs!SearchSound` | `WebSpec => []ResultsMatchTerm` | strengthened by: the one lookup that counts asks for the term and the channel in view, so its answer puts their rows in place of the old ones |
| `BansProofs!TypeCorrect` | `HistorySpec => []BanTypeOK` | strengthened by `Carried`: a request carries a record exactly while it runs, and reaches the profile only with one that holds a profile |
| `BansProofs!AccountMatchesRecord` | `HistorySpec => []Consistent` | by `DriftInv`: unless one of the events has happened, requests are one at a time and `AccountInv` says, for each stage of the one that runs, what is stored and what the account is |
| `BansProofs!ProfileKept`, `UnbanRestoresOrWarns` | `HistorySpec => []IdentityKept`, `[](~mislaid => RestoredOrWarned)` | by `MislaidInv`, in the same way: `ProfileInv` says which record holds the member's own profile, and with which placeholder, at each stage |

### Why the invariants are needed

`RebuildInv` is needed because `LoadedIndexDropsOnlyAbsent` is about one step, the
end of a rebuild, and the reason it holds was established over all the earlier
ones: each entry of the old index is in `found`, in `pending`, still in `todo`,
or was missing at some moment. `MutexInv` relates each request's copy of the
reports to the stored ones; without it nothing is known of what a save overwrites.

`OfferedIsPermitted` needs more than itself: a call comes from a dialog that may
have been opened long before, so what an open dialog holds must be permitted too.
`QueueImplemented` is the strongest statement about the queue: it says that
concurrency, failures and crashes show nowhere in what is stored. What one change
does to a queue is then a question about `ReportOps` alone, and `DuplicatesRefused`
and `ReportsMoveForward` answer it: `capReports` and `pruneStamps` keep the entries
at some positions of a list in their order (`AtPositions`), and which positions, by
how many come before each in `DropOrder`, takes counting, not induction over lists.

The two paging proofs go the same way. The rank of a key is how many keys come
before it, pages are intervals of ranks, and `KVPagingProofs` says how ranks change.
The job deletes nothing while it lists, but others do, and `hideMessagesFromUser`
deletes itself: what either can miss is bounded by how often the ranks shifted.

Each answer that arrives at the panel may send two or three calls, so a bound on the
number of calls is not inductive. `Cost` counts a call twice if what follows it may
itself be followed: what an answer sends then never costs more than the call it
answered. That rests on who the viewer is: the chain of fetches of an admin
(`refreshModerationData`) began with the effects already run, and a moderator's status
never makes the side panel fetch the members (`Good`, `StateInv`).

The strengthened invariants were model-checked first, on the instances of the runs
or slightly larger ones.

### The hypotheses, and why they are there

The theorems hold of every behaviour of their specification, for all constants that
satisfy the assumptions in the modules. What is supposed beyond that:

* `RateLimited` supposes `SubmissionsApart`: that no member has two submissions that
  have read the stamps and not yet been stored at once. The stamps are per member, the
  mutex per channel (`reports.go` 166-184), so the code does not see to it, as
  `ReportsRates` shows; the theorem says that nothing else breaks the limit.
* `UnbanRestoresOrWarns` speaks of the states that are not `mislaid`;
  `BansLostPlaceholder` shows one that is.
* `HandlersAssumption` (`Reports`): requests are finitely many at a time.

### Only model-checked

Everything under fairness (`Converges`, `ExpiredRemoved`, `RequestsReturn`,
`StatusRecovers`, `QueueFollows`, `SubmitEnds`, `SearchFollows`), which is beyond the
prover.

## Not modelled

* Presentation (`avatar.tsx`, `icons.tsx`, `styles.ts`, the badge of
  `channel_header_button.tsx`), message texts, labels and excerpts, the placeholder
  picture: no state.
* Notifications: direct messages are outputs that no state depends on.
* `listMembers`' bounded scan and its order, and the list of moderators: the scan only
  reads, and `setModerator` is one read and one write under the mutex `Reports` has.
  (Removing the role of a channel admin removes nothing from the list, and the web
  app says that it has.)
* The configuration's validation and swap (one assignment under a lock), build tools.

`PROJECT.json` gives the reason per component.

## Plan

Done, in this order: `KVPaging`, `ModerationIndex` with its history,
`Restrictions`, `Reports`, `Bans`, `HideMessages`, `Panel`, `Tools`, `Dialogs`,
`MembersSearch`, `Enforcement`, `ReportQueue` with its refinement, `JobHistory`,
`BanHistory`, `Sanctioning`. A missed
restriction or a lost report is what the plugin exists to prevent, so these came
first.

Worth doing next: `Moderators` (the list under the channel mutex, with `Panel`'s role
changes); an abstract index that may lag, for `ModerationIndex` to implement and
`Enforcement` to use in place of an index that may miss anything at any moment; a
profile that the System Console changes between an unban's read and its update
(`actions.go` 317).
