# A verification project for Emby Apex

Emby Apex is a FastAPI controller beside one or more Emby media servers: it keeps a
row per Emby account, sells and withdraws playback through redeem codes and expiry
dates, deletes accounts that were never activated or not renewed, records what is
played, and takes media requests. Users reach it through a portal, administrators
through a console; both are single-page applications in Vue. This directory holds TLA+
modules of the server's core and of the two front ends, the TLC runs that check them and
proofs for every size of the system.

`app/services.py` is the heart of the server, `frontend/src/` holds the pages; paths
below are relative to `src/`.

## 1. Inventory

The server runs in one process on one asyncio event loop. A handler (an HTTP request, a
scheduler job or a chat command) runs uninterrupted from one `await` to the next, and
any other handler may run at an `await`: a call to Emby, a database statement, a lock.
State lives in three places that no transaction spans: SQLite, Emby, and module
globals that a restart empties.

| Component | State | Operations | Hard part | What makes it correct |
|---|---|---|---|---|
| Account lifecycle (`services.py`, `emby.py`, `scheduler.py`) | `managed_users`, Emby's Policy, `_user_mutation_lock` | redeem, expire, revoke, purge (two kinds), enable, disable, lock, protect, claim, refresh, sync, delete a server | stale rows across Emby calls, two-request Policy writes, faults half way | a row goes only after its Emby account; revocation and deletion follow from what the handler read; an expiry date moves by order only; a used code stays used; the activation lock is lifted by an administrator only |
| Activation and bill codes (`services.py`, `api/admin.py`, `wecom_commands.py`) | `redeem_codes`, `bill_code_usages`, `bill_code_daily_usages`, failure counter, deletion dialogs | submit, issue, redeem, generate, delete on the page, delete by chat | overlapping submissions, roll-back of a spent quota, cascades, midnight | one code per bill code, quota never exceeded, no failure lost, codes redeemed by their owner |
| Playback (`services.py`, `scheduler.py`) | `_playback_cache`, `_playback_generations`, tombstones, `live_cache`, `playback_records`, totals | poll, flush, publish, deletion, shutdown | a result published after its lock was released, one failed write in a batch, a restart | deleted accounts leave no trace, seconds counted once, the dashboard catches up, ended sessions are written |
| User sync and account creation (`services.py`) | `managed_users`, Emby's accounts, claim attempts | sync, register, create, claim | the account exists in Emby before its row | no account managed twice, none deleted while it is created |
| Media requests (`services.py`, `moviepilot.py`, `tmdb.py`, `api/portal_requests.py`) | `media_requests`, summaries, poster files, MoviePilot subscriptions | request, add season, confirm, reject, purge | an external call between two writes | a group is decided once; a confirmed one is subscribed |
| Chat channel (`wecom.py`, `wecom_commands.py`, `routes.py`) | dialogs, seen messages, access token | menus, dialogs, background commands | retried callbacks, stale dialogs, token refresh | a message acts once, on what was listed |
| Notifications (`notify.py`) | sent marks in memory and in the ledger | push per channel | lost or repeated delivery | an activation is announced once |
| Request page of the portal (`RequestApp.vue`, `MediaDetailView.vue`) | lists, selection, ticked seasons, six busy flags | load, search, select, submit, add a season, sign out | details that arrive for an earlier selection, a list replaced under an answer | the screen describes one work and writes to its row; busy exactly while a write is under way |
| Account page (`AccountApp.vue`) | account, codes, cooldown in `localStorage`, object URL of the scan image | load, change section, refresh, redeem, bill code, settings | chains of requests, two loads of the image, a code that comes by two ways | no code twice, no dead image, refreshes ten seconds apart |
| Login page (`AuthApp.vue`) | token, loading | sign in, register | a lost answer | the form is freed |
| Admin console: dashboard (`AdminApp.vue`) | number of the newest load, chosen day, data | poll, refresh, choose a day, stop a session | answers that overtake each other | the newest load's answer, for the chosen day |
| Admin console: users and requests (`AdminApp.vue`) | list, open dialog, its form | open, edit, save, delete, decide | details and verdicts that come back to another dialog | a form is written to the user it came from |
| Admin console: settings (`AdminApp.vue`, `settings_store.py`) | form, channel dialog, preview URL | save, clear a channel, test, upload, clear the image | saves from two places, a reload under a half-typed field | a blank never erases a secret, no revoked preview |
| Fetch helpers (`shared/api.ts`) | none | get, post, patch, delete | no answer, a 401, an error envelope | every handler is resumed once |
| Statistics, logging, database upgrades, HTTP plumbing, widgets | see `PROJECT.json` | | | |

How they interact: the scheduler starts the jobs (`max_instances=1` each, and once more
at start-up under other job names); deletion of an account reaches into the codes, the
quota, the playback tables and both playback caches; a sync lifts tombstones and
deletes rows; the sync and every deletion share `_user_mutation_lock`, which the registration and the
creation by an administrator do not take; polls, flushes and the local part of a deletion share `_playback_lock`. A page runs on
one JavaScript thread: a click runs up to its `await` of a request, and the rest runs when
that request is answered or lost. Requests in flight are served and answered in any
order, and loading another page ends the waiting but not what has reached the server.

## 2. Plan

1. `AccountLifecycle`: the account once its row exists, with its proofs. **Done.**
2. `ActivationCodes`: codes, ledger, quota, failures, with its proofs. **Done.**
3. `Playback`: poll, cache, history, dashboard, with the proofs of its invariants. **Done.**
4. `Browser`, `MediaRequests`, `RequestPage`, `AccountPage`, `AuthPage`, composed by
   `Portal`: the user's browser and the server's part of the media requests, with its
   proofs. **Done**, but for posters and the release of MoviePilot subscriptions.
5. `AdminShell`, `AdminDashboard`, `AdminDesk`, `AdminSettings`, composed by `Admin`: the
   console. The abstract `LatestView` says what the dashboard promises, as a PROPERTY of the
   run and as a theorem (`AdminProofs`). **Done.**
6. `UserSync`: registration, claim, creation and the insertion and deletion of rows by a
   sync; claim limiter. Next.
7. `WecomDialog`: dialogs, duplicated callbacks, token cache, single notice.
8. What overlapping handlers of `AccountLifecycle` keep of the promises to an account's
   holder (`AccountOverlapProofs`), and, as runs that fail, what they do not. **Done.**
9. Proofs: every safety property of a passing run is now a theorem (section 6). Next: the
   invariants of `UserSync`.
10. Operators checked against references: `_lifecycle_interval`, `_normalize_season_numbers`.

No module that is to be proved about declares a RECURSIVE operator, every parameter is a
CONSTANT with a named assumption, and each operation of the code is one action, or one
action per stretch between two awaits.

## 3. Modules

### AccountLifecycle

Variables: `row` (`managed_users`), `emby` (the Policy Emby holds), `codes`
(`used_by_user_id`), `task` (the handler suspended in each slot), `mutex`
(`_user_mutation_lock`), `server` (it is still registered), `now`; `grants` and `dated` are
history, `calls` a budget.

A handler starts with an action named after its function (`RedeemCode`,
`ProcessExpirations`, `PurgeExpired`, ...) that evaluates the function's guards on the
committed row and notes the Emby calls to come. `PatchGet`, `PatchPost`, `ReadUser`,
`DeleteAtEmby`, `AcquireForDelete` and `SyncSelect` are its awaits; `RedeemCommit`,
`ExpireCommit`, ... are its last stretch up to the commit. `EmbyFault` refuses a call,
times it out, or loses the answer of one that Emby applied. `Restart` drops everything
in memory.

What a commit writes is `Merge`: sessions are created with `expire_on_commit=False`, so a
handler decides on the row it loaded, and SQLAlchemy writes only the columns that differ
from the loaded values. A row deleted meanwhile makes the UPDATE fail (`CommitStale`).

Abstractions. `is_admin` and `is_friend` accounts and disabled servers are left out (the
jobs skip them). Reminders (`expiry_notified_at`), `disabled_by_controller` (it only
gates a message), `policy_json`, names, passwords and the stopping of sessions do not
appear; nor does `apply_self_password_policy` (`services.py:1291`), which nothing in the
repository calls. Of the Policy only `IsDisabled` and `EnableMediaPlayback` matter. A sync is
modelled for one account at a time, and the renewal check of `purge_expired_users` at the
moment its deletion gets the lock, on the row selected before it as in the code.
`DeleteServer` is the cascade of `api/admin.py:407`: it takes the rows of all accounts and
leaves the accounts in Emby, which is why `NoUnmanagedAccount` is about a server that is
still registered. Accounts exist from the start, in the shapes that the creation paths
leave: found by a sync, registered, or created by an administrator with any date ahead or
none and with playback open or closed.

### ActivationCodes

`Submit`, `LookupBill` and `IssueCode` or `IssueRefused` follow
`create_redeem_code_from_bill`; everything from the upsert of the quota to the commit is
one step because SQLite admits one writer and a roll-back leaves nothing.
`LookupDuplicate` is what the refused request does next: it looks for the row that stood in
its way, which costs a failure, or an error without one when the row is gone again. `bought`
is a history: who bought a code, on which day, also after the code is deleted. A code of an
administrator may have expired when it is redeemed; one that a bill code bought never does.
`RecordActivationFailure` is one UPDATE and a step of its own. `RedeemCode` and
`RedeemCommit` carry the owner check and the reset of the counter. `DeleteCode` (page)
and `ChatCodeDelete` (dialog) share `DeleteCommit`, which like the foreign keys takes
the ledger row along. A code text is never drawn twice; a malformed bill code behaves
like one with a wrong date and is not modelled apart. All accounts are ordinary portal
accounts. The notice that follows an issue cannot change these tables and is left out.

### Playback

`PollStart` selects the enabled servers, `PollLock` takes the lock, `PollServer` is one
server's answer up to the commit of its ended sessions, `PollEnd` the last commit, and
`Publish` is `replace_live_sessions`, after the lock is released. `Insertable` states the
two constraints a flush can break: the foreign key to the server and the unique
`(server_id, session_key)`. `Flushes`, `Found` and `Dirty` say when the session's first
statement writes the servers whose `last_ok_at` or `last_error` the poll has changed, which
raises if one of them was deleted meanwhile. Deletion and shutdown need the lock; a deletion of a server
does not. `SyncFinds` and `SyncInserts` are the two ends of a sync's insertion. There is
one poll at a time: the extra one at start-up precedes the first regular one.
`process_webhook_event` is not modelled: no route calls it. (`README.md:82` and
`README.md:180` of the repository still describe that push model and say that polling was
removed; the code polls, `scheduler.py:165-171`.)

### Browser

What both front ends run on. `net` has one slot per request in flight: its operation, its
argument, whose it is (`owner`: the page on the screen, or `"gone"`), and how far it got
(`status`). `Arrived` is the guard of a server action, `Answer` its end; a server handler
that awaits MoviePilot is two actions with `Hold` between them. `Denied` (401), the
server's own refusals and `Lost` are what a handler's `catch` sees; `Lost` covers a request
that never arrives, an answer that is lost, and a connection that breaks while the server
goes on. `Ready` is the guard of a continuation, `Settle` ends its request and `Follow`
sends the next one of the same handler. `Abandoned` is what a page load leaves: requests on
their way are carried out, nobody waits for them. Sessions are one flag; that a request of
a page that is gone still counts as signed in is the case worth keeping.

### Portal: MediaRequests, RequestPage, AccountPage, AuthPage

`MediaRequests` is the server's side for one user: `rows` (`media_requests`) and `library`
(works that are known to be in the library). `create_media_request` and
`add_media_request_season` check, await MoviePilot and write, hence `CreateBegin` /
`CreateEnd` and `AddSeasonBegin` / `AddSeasonEnd`; `InsertAllowed` is the partial unique
index. `Confirm` and `Reject` are the administrator's group operations, possible whenever
somebody asks for the work, this user or another one whose rows are not modelled; `Purge` is
the daily retention, which removes decided rows and keeps a summary of the work, and
`LibraryMayLose` what a later summary does to it. `OtherDevice` is the same user elsewhere.
`ServeRow` is the answer about a row or, under its negative number, a summary. What happens
to a MoviePilot subscription is not part of the state. A removed row keeps its place in
`rows`, so an id is not used again; SQLite may reuse the id of the newest row if retention
removes that one, which takes its whole retention period. Rows carry their show's list of
seasons. An entry of the library is the user's own row where there is one.

`RequestPage`: the record `req` holds the component's refs. Objects that Vue shares by
reference are values; the one place where identity matters, the details of a list entry
that are also written into the entry, is the flag `live` of the request, which a reload of
the lists clears. The detail view is not modal: tabs, search and cards stay in reach while
it is open. `picked` are the ticks of the detail view (gone when it closes),
`chosen` the page's own fallback choice. A continuation is `Deliver...`; the reload of the
lists that follows a write carries the mark `"submit"`, since it keeps the page busy.

`AccountPage`: `acc` is the component, `own` what the server holds for the user, `cooldown`
the value in `localStorage`, `rested` a clock for the property about it. Object URLs are
numbers; `alive` are those not revoked, `tracked` the one the code will revoke next.
`DeliverCodes` and `DeliverActivation` know whether they belong to a redemption, which
stays busy until the last of them. `NextUrl` is any number that is not in use, which is all
the code may expect of a new object URL. How the server issues and redeems is `ActivationCodes`;
here it only holds codes and a daily quota. The mark of a friend is what decides about the
sections in `load`.

`AuthPage`: token, then one sign-in at a time, and the session endpoints.

`Portal` puts them together: `Mount` is a page load with the page's first requests, `Visit`
a link, a reload or the back button. It needs the network because `sw.js` keeps no page
and no answer of the API.

### Admin: LatestView, AdminShell, AdminDashboard, AdminDesk, AdminSettings

`AdminApp.vue` is one component with a dozen busy flags. `AdminShell` keeps those that are
up in `ui.on`, and every request carries the flags that its handler takes down again. It
has what the pages share: `load`, `loadResource`, `refresh` with its cooldown, `run`,
signing out. `Manage` stands for the buttons whose effect on the server belongs to other
modules, `ReloadResource` for the filters of the requests and the log.

`AdminDashboard`: a load takes the number `dash.asked + 1` (`dashboardRequestId`), and its
answer is used only if it is still the newest (`Newest`). The poll timer, the refresh, the
choice of a day and the stop of a session all load. `LatestView` is the abstract
specification: questions are numbered, and the screen only ever moves to the answer of the
newest, for the day wished for in it.

`AdminDesk`: `dialog` is the user page (list, open dialog, form), `detail` the request
page, `people` and `works` what the server holds, `verdicts` the history of the decisions.
The dialogs are not modal: the cards behind them open other users and works at any time
(`AdminApp.vue:909`, `919`), so handlers of `openUserDetails` and `openRequestDetails`
overlap, and a save that ends selects its user again (`Reselected`, `AdminApp.vue:399`),
whoever's form is on the screen by then. `crossed` marks a form that was filled while a save
of another user was under way. Of a user's fields only `is_friend` is
told apart, because the dialog loads it a second time; the rest is represented by the user
the form was filled from. `works` is the set of the statuses of a group's rows.

`AdminSettings`: `conf` is the page, `cfg` what the server holds. Two channels stand for
the three: `"telegram"`, whose credential is a secret, and `"wecom"`, which has an integer
among its fields. An upload may start at any time: its file input is never disabled. `Saved` is the part of `settings_store.save` that keeps what is not among
the values; the settings in detail, encryption and the cache are left out.

### MC modules

`MCAccount`, `MCActivation`, `MCPlayback`, `MCPortal` and `MCAdmin` extend the modules and
name the model values, the sets of enabled operations (`Ops`), the maps and, for codes, the
symmetry.
Operators marked "Mutant" replace the definition they precede by a plausible bug; the
table in `PROJECT.json` says which property each one breaks. `Spec` does not use them.

## 4. Runs

| Run | Shows | Bounds |
|---|---|---|
| `AccountConcurrent` | two handlers suspended at any await, with faults, external changes, restarts and the deletion of a server: no unmanaged account, undated accounts kept, the lock exclusive and sticky, dates moved by order only, used codes used for good, revocations and purges true to what their handlers read | 1 account, 1 code, clock to 1, 2 calls |
| `AccountLiveness` | expired accounts are eventually blocked, locked ones disabled, inactive ones deleted | as above, under `FairSpec` |
| `ActivationCodes` | ledger, quota, failures and ownership under overlapping requests, chat deletions, a midnight and restarts | 2 accounts, 2 codes, 2 bill codes, 2 slots, 2 days, 2 administrator calls |
| `Playback` | no trace of deleted accounts, no second counted twice, the dashboard catches up | 2 servers, 2 accounts, 2 items, 2 seconds, 3 calls |
| `Portal` | no work mixed with another, one open request, no code twice, no revoked image, refreshes spaced, busy flags and spinners never stuck | 1 film, 2 shows of one season each, 3 rows, 2 codes, 2 requests in flight, 4 events, cooldown of 2 ticks |
| `Admin` | the dashboard implements `LatestView` and shows the chosen day; a form is written to its user, no verdict is shown that nobody gave; one handler per flag; blanks keep secrets; no revoked preview | 2 days, 2 users, 2 groups, 2 requests in flight, 4 events |
| `CodeRedeemedTwice` | violation: one code credits two accounts | 2 accounts, 2 slots |
| `RevokedAfterRenewal` | violation: playback of a renewed account is taken away, in its row and in Emby | 1 account |
| `RenewalLost` | violation: an account spends two codes and gets the time of one | 1 account, 2 codes, 2 slots |
| `PermanentPurged` | violation: an account whose date was removed is purged | 1 account, one handler at a time |
| `BillCodeReused` | violation: a chat deletion makes a bill code usable again | 1 account, 1 bill code |
| `PlaybackLost` | violation: the second item of an Emby session is never written | 1 session, 2 items |

Why the bounds are enough. Handlers of different accounts meet only in the mutation lock
and in a shared code; two suspended handlers already exercise every pair of operations,
and the single slot of each job is kept besides the request slots. One clock tick makes
a code, a grace period or a retention period run out (in `AccountConcurrent` retention is 0,
so that a purge can follow a revocation), and a clock to 1 has a renewal before and after
expiry and the purge after it. `MaxCalls` bounds what has no natural
limit (administrator calls, external changes, faults, restarts): two suffice for "a
fault, and something else goes wrong". For codes
two of each are needed for one to be lost to the other, and a limit of one makes every
second submission meet the full quota. For playback three changes let one session end,
collide and end again. `MaxInFlight` limits suspended handlers, not the code.
For the front ends two requests in flight are what an answer needs to overtake another,
or to find that its page, dialog or selection has changed. `MaxEvents` counts the clicks
that send a request and everything that happens outside the page; clicks that send nothing,
the server's steps, deliveries, losses and cooldowns are free. Four are enough for a
first action, a second that overlaps it, an outside event and one action after that: every
mutant of these properties is found within them. `Portal` starts with a user who has asked
for a film and has a show in the library, so that a decided and a pending row are on the
screen from the start; MoviePilot has the film (`MoviePilotHas`). There are two shows, so that a late answer about
one of them can meet the other on the screen. `MaxRows` bounds what other devices submit. The console starts on each of its pages.
Deadlock is not checked: with the budgets spent and nobody playing the system may rest.

`AccountConcurrent` and the violation runs of that module draw one line from its two sides.
`SpentForGood`, `StampedOnlyWhenExpired` and `PurgedOnlyIfDue` say what the handlers do
guarantee however they overlap, in terms of what they had read; `OneCodeOneUse`,
`PlaybackTakenOnlyWhenExpired` and `RenewalKeepsTime` say what the repository promises, and
fail. A renewal during the wait of a purge is lost in the same way (section 7).

The passing runs have about 2.7 million distinct states (`AccountConcurrent`), 3.4
(`ActivationCodes`), 0.3 (`Playback`), 5.7 (`Portal`) and 3.0 (`Admin`).

## 5. Fairness

`FairSpec` of `AccountLifecycle`: time passes; a suspended handler whose next step is
possible takes it (the event loop resumes it, every Emby call has a time-out);
`asyncio.Lock` serves waiters in order, hence strong fairness of `AcquireForDelete`,
since the lock is free only now and then; and the scheduler keeps firing its jobs, strong
because the model's `MaxInFlight` may disable a job that the scheduler would start.
Faults and outside changes are not fair, they are bounded by `MaxCalls`: the liveness
properties say what happens once they cease. `FairSpec` of `Playback`: the poll job is
started at every interval and a started poll goes on. No liveness is claimed of requests.

`PortalSpec` and `AdminSpec` state no fairness: `fetch` has no time-out in the pages, so
nothing guarantees that an answer ever comes. That a page cannot hang by its own fault is
therefore a safety property (and a theorem, section 6): whenever a spinner turns or a flag is up, the request whose
continuation will take it down is still on its way (`NoDeadSpinner`, `BusyWhileWriting`,
`AccountBusy`, `OneHandler`, `NoStuckSpinner`).

## 6. Proofs

`AccountLifecycleProofs` proves, for any accounts, codes, slots, delays and bounds that
satisfy `NoneAssumption` and `BoundsAssumption`:

- `TypeCorrect`: `Spec => []TypeOK`
- `MutationExclusiveSafe`: `Spec => []MutationExclusive`
- `NoUnmanagedAccountSafe`: `Spec => []NoUnmanagedAccount`
- `PermanentAccountSafe`: `Spec => []PermanentAccountKept`
- `LockSafe`: `Spec => LockReleasedByEnableOnly`

None of these is inductive alone. `IInv` adds what suspended handlers carry: the shape of
`todo` for each operation (a deletion that no longer waits for the lock has only the
Emby call left), that a deletion or a sync about to remove a row has seen the account
gone in Emby (`SeenGone`), and that a row a handler loaded with a date or a revocation
stamp belongs to an account that really had a date (`Entitled`, `DatedInv`), because it
may write that row back. `Invariance` shows `Init => IInv` and `IInv /\ [Next]_vars =>
IInv'` with one lemma per action; `LockSafe` follows from `IInv` action by action: a
`Merge` can clear the lock only where the handler's own change clears it. TLC checked
`IInv` before it was proved.

`AccountOverlapProofs` proves, from the same assumptions and for any number of overlapping
handlers:

- `SpentForGoodSafe`: `Spec => SpentForGood`
- `DateMovedByOrderSafe`: `Spec => DateMovedByOrder`
- `StampedOnlyWhenExpiredSafe`: `Spec => StampedOnlyWhenExpired`
- `PurgedOnlyIfDueSafe`: `Spec => PurgedOnlyIfDue`

`DecidedInv` says of every suspended handler that what it decided on was so in the row it
loaded when it decided: an expiry job's account had expired, a purge's was not activated, and
once it holds the lock neither protected nor renewed. Time only makes this more so
(`PastLater`); what others wrote since is not in it, and that is what the properties except
by name (`Moved`, `r.activated = t.was.activated`, ...). A used code is safe because a
redemption begins only on an unused one (`StartDecided`, `SpentKept`). For the dates,
`SavedRow` reads off `Merge` that a commit writes a date only where the handler assigned one,
which only a redemption does (`CommitKeepsDates`), and its sum is at least its own time and
the code's duration.

`ActivationProofs` proves, for any users, codes, bill codes, slots, days and limits that
satisfy `NoneAssumption` and `BoundsAssumption`, everything the run `ActivationCodes`
checks:

- `TypeCorrect`: `Spec => []TypeOK`
- `LedgerSafe`: `Spec => []LedgerMatchesCodes`
- `QuotaSafe`: `Spec => []QuotaCoversCodes`
- `ReissueSafe`: `Spec => []ReissuedOnlyAfterRemoval`
- `OwnerSafe`: `Spec => []OwnerRedeems`
- `LockSafe`: `Spec => []LockedAfterLimit`

`IInv` has three parts beside the types. `HandlersSound` says what a suspended handler
carries: in particular that a code being redeemed was, when it was looked up, unused and
the user's own or nobody's. `LedgerInv` joins the ledger, the codes and the quota: a code
that a bill code bought has an owner, the issues of a bill code are its removals plus the row that
is there now (`IssuesCounted`), and the codes bought by a user on a day are at most what
that day's counter says (`QuotaInv`, a claim about cardinalities), deleted ones included,
because a text that was not drawn yet was not bought either (`DrawnIfBought`). `StrikesInv` compares the
failures that really happened with the counter: while the account is not locked, the
strikes are at most the counter and below the limit. TLC checked `IInv` before it was proved.

`PlaybackProofs` proves, for any servers and accounts and any finite sets of sessions and
items, the invariants of the run `Playback`:

- `NoTraceSafe`: `Spec => []NoTraceOfDeleted`
- `TypesHold`: `Spec => []TypeOK`
- `SecondsNeverDoubled`: `Spec => []SecondsCountedOnce`

`FiniteAssumption` (finitely many sessions and items) is what gives a sum of seconds a
meaning: at any time only finitely many have been seen. `NoTraceOfDeleted` is inductive as it
stands: whatever enters the cache or the dashboard is
compared with the tombstones in the step that writes it (`PollServerKeepsTraceFree`,
`PublishKeepsTraceFree`), and a row is made only of an entry of the cache (`WrittenRows`).

`SecondsCountedOnce` compares three sums: of an account's rows or its total, of its open
entries, and what the polls counted. `OnceInv` adds that the sum which a sync carries from
its selection to its insertion is still covered when it is inserted (`SyncCovered`). A poll
adds at most one second to each entry and counts each it adds (`EntriesAdvance`,
`PollOpens`); a flush moves an entry from one sum to the other, and a lost one only lowers
the sum. What the proofs need of a sum over a finite set (that it splits over disjoint sets,
grows with the set, and does not depend on the order of addition) are lemmas of the module,
proved by induction over the finite subsets: of the subsets for which a claim fails there is
a smallest one (`SmallestFirst`, `OneMore`).

`PortalProofs` proves, under `BrowserAssumption` and `MediaAssumption`, for any works, seasons,
requests in flight and events:

- `PortalInvariance`: `PortalSpec => []Inv`
- `OneOpenRequestSafe`: `PortalSpec => []OneOpenRequest`
- `RowOfShownWorkSafe`: `PortalSpec => []RowOfShownWork`

`Inv` says that the rows are typed and at most one of a work is open (`SharedEntryOK` and
`ServeRowStep` add what is answered about works of other users); that every
description of a work, in the lists, the search results, the selection or an answer on its
way, names a row of that work and, unless it is a search result, has its list of seasons;
and that the ticks in an open view of a row belong to that show. What makes answers on
their way harmless is that rows are only ever appended, decided or removed, never moved or given
to another work (`Kept`, `StatusWritten`): what an answer says of a row stays true however late it comes.

`AdminProofs` proves, for any number of requests in flight, any days and any number of
events (`BrowserAssumption`, which also says that null is not a number, and
`DaysAssumption`):

- `Invariance`: `AdminSpec => []Inv`
- `DashboardRefines`: `AdminSpec => ShowsLatest`, that is, `AdminDashboard` within the whole
  console implements `LatestView` under the mapping `View`
- `DateShown`: `AdminSpec => []ShownDateIsChosen`
- `PreviewAlive`: `AdminSpec => []NoRevokedPreview`

`Inv` says what requests in flight carry: a load of the dashboard has a number of at most
`dash.asked`; the one with that number is unique, asks for the day that is chosen and has
not been shown; an answer tells the day of its question (`Questions`); and the date on the
screen is the chosen one unless the spinner of the viewing times or their error is up
(`DateInv`). Without the uniqueness a duplicate of the newest answer would be shown twice,
which `LatestView` forbids. Most steps ask nothing: `QuietStep` says that a step which
leaves `dash` alone and treats the loads in flight tamely (`Tame`: drops them or answers
truthfully) keeps `Inv` and the view; the lemmas `ShellQuiet`, `DeskQuiet`,
`SettingsQuiet` and `OutsideQuiet` put every other action under it. `AskedAnew` is the step
of every action that asks, `DeliverStep` the arrival of an answer. `PreviewAlive` has an
invariant of its own (`Sound`), with `Bare` for the state between the revocation of a
preview and the creation of the next.

`PortalPagesProofs` proves the rest of what the run `Portal` checks, under the assumptions
of `PortalProofs` and `AccountAssumption` (the limit and the cooldown are numbers), for any
works, codes, limits, requests in flight and events:

- `BusyExactlyWhileWriting`: `PortalSpec => []BusyWhileWriting`
- `SpinnersHaveAnswers`: `PortalSpec => []NoDeadSpinner`
- `AccountBusyWithItsOwn`: `PortalSpec => []AccountBusy`
- `ShownImageIsAlive`: `PortalSpec => []ReadyImageIsAlive`
- `RefreshesAreSpaced`: `PortalSpec => RefreshSpaced`
- `CodesListedOnce`: `PortalSpec => []NoDuplicateCode`
- `PortalTypesHold`: `PortalSpec => []PortalTypeOK`

`FlagInv` says which requests a page may have on their way (`NetInv`: none of another page,
since a page load abandons them) and that each flag is up exactly while one of the requests
that end in its fall is there. `RequestTurn` and `AccountTurn` state what a continuation may
do to the flags while it turns one request into none or into the next one of its chain; every
continuation of the two pages is put under one of them. `PanelInv` describes the scan image
(finitely many object URLs are alive, so there is an unused one, `FreshUrl`) and the cooldown:
the clock since the last refresh and the value in `localStorage` always add up to the whole
of it, whatever page is on the screen. `CodesInv` says that the server's list and every
answer on its way have distinct codes, none of which is still to be issued; that a new code
may be in the page's list already is what `Without` takes care of (`Filters`). `LineInv` is
the rest of the types.

`AdminPagesProofs` proves the rest of what the run `Admin` checks, under the assumptions of
`AdminProofs` and `DeskAssumption` (null is not a user or a work):

- `OneHandlerAtWork`: `AdminSpec => []OneHandler`
- `SpinnersWillStop`: `AdminSpec => []NoStuckSpinner`
- `FormWrittenToItsUser`: `AdminSpec => []FormIsOfItsUser`
- `ShownVerdictWasGiven`: `AdminSpec => []VerdictShownWasGiven`
- `OnlyClearingErases`: `AdminSpec => BlankKeepsSecret`
- `AdminTypesHold`: `AdminSpec => []AdminTypeOK`

`FlagInv` gives every flag that is up the one request that bears it, and every spinner the
request whose answer stops it; for the dashboard that is the load with the newest number,
which is why it rests on `Inv` of `AdminProofs`. For the two flags whose handlers do not look
at them (`requestDetail`, `imageBusy`) it says only that somebody still bears them while they
are up. `DeskInv` says that every decided row has a verdict that was given (`Founded`), that
the lists and answers on their way tell no other (`Listed`, `Honest`), and that while the
user dialog is clear, that is, open with a form that was not filled during another user's
save, the form and every save on its way are of its user (`Good`). `SecretInv` says that a save on
its way has no secret, a typed one, or a blank with the channel it clears.

TLC checked the parts of these invariants before they were proved, those of the portal with
three requests in flight and three events.

Only model-checked: liveness (`ExpiredEventuallyBlocked`, `LockEventuallyEnforced`,
`InactiveEventuallyPurged`, `DashboardFollows`), since temporal properties under fairness and
ENABLED are out of the proof system's reach. The theorems of the libraries that take an
operator as a parameter, among them the induction over numbers and over finite sets, cannot
be instantiated either; where a proof needs an induction it names the set of counterexamples
and takes its smallest element from a well-founded order, which is stated for sets.

## 7. What the runs found

1. A redeem code can be redeemed twice by overlapping requests (`services.py:2203`, `2241`).
2. The expiry job revokes an account that renews while the job waits (`services.py:1395`,
   `1407`); the account stays without playback until its next redemption. `RenewalLost`:
   two redemptions of one account that overlap add up to one (`services.py:2232`).
3. Clearing an expiry date leaves the revocation stamp, and the account is purged
   (`api/admin.py:561`, `services.py:2391`).
4. A chat deletion removes a bill code's ledger row through the foreign key
   (`wecom_commands.py:1183`), which the deletion page takes care not to do.
5. Two items played in one Emby session share a `session_key` (`services.py:888`); the
   second is lost, and with it the poll and every other entry that ended in it.

Noted while modelling, without a run of their own:

- A rejected work may be submitted again (`README.md:168`), but `RequestApp.vue:520`
  remembers the work submitted last and forgets it only when a submission fails: the page
  that submitted it ignores a second click until another work is submitted or the page is
  loaded again.
- Clearing the enterprise WeChat channel sends an empty string for every field
  (`AdminApp.vue:812`), the integer `wecom_agent_id` included, and
  `settings_store.py:333` refuses the whole batch. In `AdminSettings` that answer is always
  a refusal.
- A purge looks at the protection, the renewal and the activation of the row it selected
  before it waits for the lock and for Emby (`services.py:2391`, `2393`): an account that is
  renewed or protected during that wait is deleted all the same.
- A user whose card is opened while the save of another user is under way: the save ends with
  `selectedUser.value = updated` (`AdminApp.vue:399`), and the next save writes the form on
  the screen to that other user. `FormIsOfItsUser` excepts these forms (`crossed`) and only these.
- `openRequestDetails` takes whatever details arrive (`AdminApp.vue:439`): with two calls
  under way the dialog of one work can show the details of another, and the first `finally`
  (`451`) takes the spinner of both down. An upload that overlaps another one shares its
  flag in the same way (`607`).
- A registration creates the Emby account and then inserts the row without
  `_user_mutation_lock` (`services.py:1587`). A sync that listed the Emby accounts before
  (`services.py:479`) and selects the rows after (`services.py:486`) takes the new row for one
  whose account is gone and deletes it (`services.py:608`); the account stays in Emby, and the
  next sync brings it back as an account without a portal password. Creation is not part of
  `AccountLifecycle`, whose `NoUnmanagedAccount` is about accounts that already had a row.
- A submission subscribes at MoviePilot (`services.py:3176`) before its row is committed; a
  row that the index refuses leaves the subscription behind.
- Two seasons added at the same time write the list that each has read
  (`services.py:3280`): one of them is lost.
- The seasons submitted for a show can be those of another one. Close the view of a show
  while its details load and open a second show: the answer about the first fills the ticks
  and the choice (`MediaDetailView.vue:206`, `RequestApp.vue:368`, `398`), and if the
  details of the second bring no list of seasons, they stay. `RowOfShownWork` is therefore
  about additions to a row, which are checked against the row's show, and not about the
  seasons of a first submission.
- A poll of the dashboard that takes longer than the interval is superseded by the next one
  (`AdminApp.vue:506`), and its answer is thrown away.

## 8. Not modelled

- Account creation and synchronisation, the chat channel and notifications: planned
  (section 2).
- Of the media requests: poster files, the release of MoviePilot subscriptions, the deletion
  of a user's rows with the user, the bare number of seasons of a row without a list, and
  what MoviePilot and TMDB answer in detail.
- Of the front ends: wording and layout, input fields and their validation, the copying of
  codes, the episodes of a season, the list filters. The admin login page has the shape of
  `AuthPage`; the pages for servers, codes, history and logs are loads and actions of
  `AdminShell`; `sw.js` keeps static files only.
- Statistics, logging, database upgrades and HTTP plumbing keep no state the properties are
  about; the client restrictions are a string match followed by best-effort calls.

`PROJECT.json` lists each component with its reason, and each hazard that no property
covers yet with a note.
