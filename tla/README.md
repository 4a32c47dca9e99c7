# Mail Relay in TLA+

TLA+ models of Mail Relay, a self-hosted service that keeps the OAuth tokens of
Outlook mailboxes fresh, archives their messages through IMAP and shows the
archive to their owners and behind public links. The modules follow the Python
code in `src/app`; `PROJECT.json` maps every definition to the lines it models.

## The system

Two processes share one SQLite database and nothing else.

- The **web process** (`main.py`, FastAPI, one event loop) serves the owners, the
  administrator and public visitors. It writes accounts, links, CAPTCHA
  challenges and refresh jobs, and calls Microsoft only for device
  authorization. A handler is a coroutine that calls the `Store` synchronously, so handlers
  do not interleave with each other except where they await Microsoft or a request's
  body. `require_user` is a plain function, which FastAPI runs in a thread before the
  handler: other handlers run between the check of a session and what it allows.
  Transactions of the worker fall between any two transactions of a handler.
- The **worker process** (`worker.py`) runs three groups of asyncio tasks:
  `RefreshCoordinator` (scheduled token rotation), `MailArchiveCoordinator`
  (polling, archiving and retention) and `FullRefreshCoordinator` (refresh jobs).
  The last calls `sync_account` of the second, which calls the token service of
  the first. IMAP sessions run in threads of the default executor and call the
  store from there.

| Component | State | Operations | What makes it correct |
| --- | --- | --- | --- |
| Refresh-job queue (`store.py`, `main.py`, `FullRefreshCoordinator`) | `refresh_jobs`, `refresh_job_items`, `accounts.full_refresh_pending` | create, join or refuse a job; claim, renew, settle, requeue an item; purge; cascade deletions | one active item per mailbox; each item counted once; the limit per owner; every job ends; no flag is left set |
| Mail archive (`MailArchiveCoordinator`, `store.py`) | `mail_messages`, `mail_sync_messages`, `mail_sync_state`, the cursor in `accounts`, one asyncio lock per mailbox | sync session in batches, rebuild after a change of UIDVALIDITY, retention | no gap behind a cursor; no mixture of snapshots; every message archived; retention |
| IMAP client (`imap_client.py`) | one connection | SELECT, search in blocks, fetch, decode | the newest unseen UIDs, none passed over |
| Token service and `RefreshCoordinator` (`microsoft.py`) | tokens, `status`, `next_refresh_at` in `accounts`; one lock per mailbox | get an access token, rotate, record a failure | one rotation at a time; the stored token is the latest; a verdict belongs to the credentials it was passed on |
| Account health (`store.py`) | `status`, `last_error`, `last_mail_error`, code, source | six writers in two processes | permanent failures stay; code and source describe the error shown |
| Device authorization (`main.py`, `microsoft.py`) | `oauth_device_flows`, the account it fills | start, complete from any number of tabs, expire, purge | what is completed is stored; the device code is cleared at the end |
| Share links, CAPTCHA, public pages | `share_links`, `target_share_links`, `captcha_challenges`, the visitor's signed cookie | create, prolong, revoke, expire, challenge, verify, view | a dead token stays dead; no link without what it shares; attempts are bounded; a cookie opens what was solved |
| Users and sessions | `users.session_version`, signed cookies | log in and out, create, reset, disable, delete; the administrator of the environment at each start | a good session is one of the present password and role; an ended one stays ended; an administrator is left |
| Mail targets and tags | four tables | single-transaction edits | ownership; cascades |
| Schema, vault, configuration, browser code | - | - | not stateful protocols |

What is hard here: two processes that take turns inside each other's
check-then-act sequences; leases that run out under a live holder; a process
that dies between two transactions; threads that outlive the coroutine that
started them; UIDVALIDITY, which invalidates every UID at once; late answers
from Microsoft. `PROJECT.json` lists each such place under `hazards`, with the
properties that watch it or the reason why none does yet.

## The modules

### RefreshJobs, JobLedger, RefreshJobsProofs, JobLedgerProofs

`RefreshJobs` is the durable queue. `job` and `item` are the two tables (`item[j][a]`
is the status of the item of job `j` for account `a`), `pending` the accounts whose
`full_refresh_pending` is 1, `lapsed` the running items whose `claimed_at` is older
than the lease, `recent` the public jobs within the cooldown. Row ids are
AUTOINCREMENT or random, so an id is never used twice and a deleted account never
comes back under its id.

An action is one transaction with the in-memory steps up to the next one:

| Code | Actions |
| --- | --- |
| `import_accounts`, `refresh_accounts`, `sync_messages`, `refresh_public_mail` handlers | `ImportAccounts`, `RefreshAccounts`, `SyncMessages`, `RefreshPublicMail`: the first transaction of the handler, which leaves in `web` the call it is about to make |
| `Store.create_refresh_job` | `JobAccepted`, `JobJoined`, `JobRefused`: the outcomes of one transaction. `Admissible`, `Joinable` and `NothingToDo` are its early returns |
| device flow completed | `CompleteDeviceFlow` |
| `delete_accounts`, `delete_user` | `DeleteAccounts` (items keep a NULL account), `DeleteUser` (cascade) |
| `Store.initialize` of a restarted web process | `WebRestart` |
| `FullRefreshCoordinator._worker` | `Claim`, `SyncEnds` (what `_sync_account` and the `mark_full_refresh_*` after it do to the queue), `Settle`, `RenewLease` |
| `FullRefreshCoordinator.start`, `stop`, death of the process | `Start`, `Crash` |
| time | `LeaseLapses`, `CooldownEnds` |

A cancelled worker skips `complete_refresh_job_item`, so for the tables an orderly
stop is a crash. SQLite errors are not modelled: a transaction commits, or the
process dies before it.

`JobLedger` is what the queue promises to the browser that polls it: a job is a
set of mailboxes, each gets one verdict once, the report is the tally of the
verdicts, and a job goes only when it is done and purged or with its owner.
`LedgerSpec` states that `RefreshJobs` implements it: claims, leases, requeues and
crashes are stutters, and `queued` and `running` both map to `todo`.

### MailArchive, MailPages, MailArchiveProofs

One mailbox. `archive[u]` is the UIDVALIDITY (`epoch`) of the message stored under
UID `u`, so that a row of an older snapshot is told from one of the current one.
`session[c]` holds the coroutine `sync_account` of a caller and the thread it
started: `wait` and `token` are awaits of the coroutine, `select` to `advance` are steps of
the thread, `finish` and `prune` the transactions after it. `Select`, `Fetch`, `BeginRebuild`,
`Store`, `Advance`, `Finish` and `Prune` are one IMAP command or one transaction each.
`Kill` stops everything at once. `Stop` is SIGTERM as `run_worker` handles it: job
tasks are cancelled before the poll worker, a cancelled coroutine leaves its
thread behind (`detached`), and a poll worker that waited for the lock gets it in
between (`handover`). That is what the code allows, so the runs have `Handovers = TRUE`; the proofs say what
would hold without. `BatchPrune` deletes any part of what is beyond the
limit: the batch was selected in an earlier transaction, and a row beyond the
limit stays beyond it.

`Upgrade` is the start of a web process whose rule for recipients is new
(`RECIPIENT_HEADER_VERSION`): `Store.initialize` sets every cursor back and drops what is staged, in one
transaction, and the worker parses by the new rule from its next `Start` on. `rescanned` is what
the new rule has read. `SideBySide` says whether the web process may be upgraded while the
worker of the old release still runs.

`MailPages` is what the archive promises to its readers: messages of one UIDVALIDITY, which
may come at any time, go only when `MaxMessages` higher ones are there, and are replaced
all at once, by those of a later UIDVALIDITY. `PagesSpec` states that `MailArchive` implements
it: cursors, batches, staging, crashes and the rescan are stutters.

The server (`Deliver`, `Expunge`, `ChangeValidity`) is external. A connection that sees
UIDVALIDITY change under it fails at its next FETCH.

### UidSearch, UidSearchProofs

`_recent_uids_after`, which `MailArchive` takes in one step (`Newest(Unseen(..), ..)`),
as the loop it is: one UID SEARCH a step, from UIDNEXT downwards, while other
clients expunge messages.

### TokenRotation, TokenRotationProofs

The credentials of one mailbox. `row` is what `accounts` holds of them: `client` and
`token` name the grant they come from (an import gives a new one) and `token` its
rotation; `access` is the stored access token, valid with the
two minutes' margin of the code; `recent` says that `last_refresh_at` is less than 15
minutes old; `due` is `next_refresh_at` against the clock (`never` is NULL). `call["rotate"]`
is the worker of `RefreshCoordinator` that has the mailbox, `call["sync"]` the session that holds
its sync lock, for the poll worker or an item of mode `full` or `mail`. A request carries
the row as it was read (`request`), because the answer is stored without reading it again.

| Code | Actions |
| --- | --- |
| `RefreshCoordinator` | `EnqueueRotation`, `TakeRotation`, `Restart` |
| `MailArchiveCoordinator`, `FullRefreshCoordinator._sync_account` and `_worker` | `EnqueuePoll`, `BeginSync`, `ImapSucceeds` (with the `mark_full_refresh_succeeded` that follows without an await), `ImapFails`, `MarkFailure`; a retry goes back to `start` |
| `get_access_token`, `refresh_account` | `GetAccessToken`; `RefreshAccount` up to the POST, then `Rotated`, `Refused` or `Unanswered` |
| `import_accounts` | `Import` |

`Issue`, `Refuse` and `Revoke` are Microsoft's: a grant is good for each of its refresh tokens
until it is revoked, an answer may come without a new refresh token, and a token
is refused to another client. The clock is `AccessExpires`, `QuarterPasses` and `FallsDue`; the last
waits for the second because a retry is set 30 minutes ahead and a rotation days.

### DeviceFlow, DeviceFlowProofs

The authorization of one mailbox by device code. `flow` is the row of `oauth_device_flows`,
`verdict` what Microsoft makes of its code, `request` where each request to complete it is,
`stored` the grant a flow has stored, `account` the row of `accounts`. A completing request gives
the event loop away only while it waits for Microsoft: `AskMicrosoft` is what precedes,
`AnswerCode` and `LoseAnswer` are Microsoft's, and after the answer come the handler's
transactions, `RecordRefusal`, or `StoreGrant`, `StoreTokens` and `Complete`. `LoopFree` keeps other handlers out
between those three; `Worker` (what `TokenRotation` does to the row), `WebRestart` and time fall in.
Requests are not told apart by the row: two tabs may wait for the same flow, and
`finish_oauth_device_flow` writes over any status (`Final`). `DeleteOwner` takes flows and mailbox by cascade, after
which an import fails on its foreign key (`FailStoring`).

### Sessions, SessionsProofs

`users` is the table, `handed` every cookie a login has handed out, with the password and the
role the user had then; the server keeps no list of sessions, so each cookie may come
back at any time. `requests` are authenticated requests whose handler has not run, and carry the
row `require_user` has read: `require_admin` looks at that row, the handler at the table.

| Code | Actions |
| --- | --- |
| `login`, `require_user` | `Login`, `Request` |
| handlers that only read, or refuse | `Answer` |
| `create_user`, `reset_user_password`, `update_user_status`, `delete_user` with their `Store` methods | `CreateUser`, `ResetPassword`, `SetEnabled`, `DeleteUser` |
| `Store._ensure_admin` at each start, with any name and password | `WebRestart` |

### PublicAccess, PublicAccessProofs

Links of mailboxes and of their targets, and visitors. `link` is the row of either table,
`share` the row the link hangs on, `owner` what matters of `users`. A row of a link is used again
with a new token when the old one is revoked or expired; tokens are numbered as they are
issued. `challenge` is `captcha_challenges`, `cookie` the visitor's signed cookie, `post` the handlers of
`verify_public_mail` that await the body of a request: they come with the cookie of the time, and the
response replaces the visitor's whole cookie (`Respond`). `tally` is history: the answers a
challenge was compared with.

| Code | Actions |
| --- | --- |
| `require_user` | `Request`; every handler of an owner then needs one (`Handled`) |
| `import_accounts`, `create_mail_target`, `set_mail_target_enabled`, `delete_accounts`, `delete_mail_target` | `AddMailbox`, `CreateTarget`, `SetTargetEnabled`, `DeleteShare` |
| `get_or_create_share_link` and its twin for targets, `update_share_link_expiry`, `revoke_share_link` | `GetOrCreateLink`, `UpdateExpiry`, `RevokeLink` |
| `update_user_status`, `delete_user` | `SetOwnerEnabled`, `DeleteOwner` (cascade) |
| `public_captcha` | `Captcha` |
| `verify_public_mail` | `PostAnswer` up to its await; then `ChallengeSpent`, `AnswerRight` or `AnswerWrong` |
| time, restart | `LinkExpires`, `ChallengeExpires`, `Restart` |

## Runs

| Run | Bounds | What it shows |
| --- | --- | --- |
| `jobs_safety` | 2 accounts of one owner, a link, 2 workers, 2 jobs, 1 crash, 1 lapse | types, `CountersAgree`, `OneActiveItemPerAccount`, `PendingHasJob`, `FlagsOfOthersStay`, `RunningItemsHeld`, `WorkersApart`, and that the queue implements `JobLedger` |
| `jobs_liveness` | 3 accounts, limit 2, 1 worker, 2 jobs, 1 crash | `AdmissionBound`; `JobSettles`, `PendingResolves` under `FairSpec` |
| `archive_crashes` | 3 UIDs, limit 2, batches of 1, 2 UIDVALIDITYs, 1 crash, 2 callers | `NoGap`, `NoMixture`, `RebuildIntact`, `CursorMonotone`, and that the archive implements `MailPages`; `Archived`, `RetentionRestored` under `FairSpec` |
| `archive_stops` | the same, one UIDVALIDITY, 1 stop, 1 crash, 1 failure, 1 upgrade | `NoGap` with threads that outlive a stop; `Rescanned` (with one UIDVALIDITY nothing is staged at the upgrade; that a staged rebuild is dropped rests on `RescanComplete`) |
| `archive_handover` | 2 UIDVALIDITYs, 1 stop | finds `NoGap` violated |
| `archive_first_sync` | mailbox never synced before, 1 crash | finds `NoMixture` violated |
| `tokens` | 2 grants, 2 rotations of each, 1 restart, no retries | types, `TokenNeverOlder`, `NoNeedlessRotation`; `DueIsRotated` under `FairSpec` |
| `tokens_import` | 2 grants, 2 rotations of each, 1 retry | finds `LatestGrantStored` violated |
| `uid_search` | 7 UIDs, limit 2, blocks of 3, 2 blocks | `NothingSkipped`, `NothingSeen` |
| `device_flow` | 1 flow, 3 requests, 1 import, 1 restart | types, `CompletedIsStored`; `CodeCleared` under fairness |
| `sessions` | 2 users, 2 passwords, versions to 4, 2 requests | types, `SessionsAreCurrent`, `AdminStays`, `SessionsStayDead` |
| `public_access` | a mailbox, a target, 2 tokens, 2 challenges of 1 attempt, 1 visitor, 2 answers under way | types, `RevokedStaysRevoked`, `ChallengeBounded`, `VerifiedByAnswer`, `LinksHaveOwners` |

Why the bounds are enough. A conflict over a mailbox takes two jobs, and a job
with one item left takes two accounts; a stale holder takes two workers and one
lapse or crash; more of them repeat what these do. A gap needs a message on each
side of a cursor and a third to push one beyond a limit of two; a rebuild needs
two UIDVALIDITYs; two sessions are all that the lock and the poll worker allow at
a time. A lapsed lease needs a second worker to matter and leaves an item running
or settled, never queued for good: it is in `jobs_safety`, while `jobs_liveness` spends its states on a
third account, so that jobs of two mailboxes compete for a limit of two. Seven
UIDs with blocks of three hold every position of a cursor and a message in a
first, a middle and a clipped last block. An older token needs two rotations of a
grant in two requests, stale credentials a second grant; a session that retries
does what the next session would, so `tokens` has no retries. A flow meets others of the
mailbox only in the account, where they do what `ImportOther` does; two requests race for
one code and a third comes after both. A promotion, and
a deleted user whose id must not return, take two users; an old password that comes
back takes two passwords and three versions, and the fourth is one more. Two tokens
are a link and its successor, or a mailbox's link beside its target's; two
answers race for one attempt. For every safety property the proofs below take the place of
the bounds; what rests on the bounds alone are the liveness properties.

The runs of one component are as few as its bounds allow: a run checks together
all that holds in one instance.

The deadlock check is off in `uid_search`, where the function returns, and in `device_flow`, where
nothing is left to do once the owner is deleted and the bounds are used up.
Everywhere else the system never stops.

Fairness. `RefreshJobs`: the container runtime restarts the worker (`restart:
unless-stopped` in `docker-compose.yml`), its event loop runs every task, and a
sync ends because HTTP and IMAP calls have timeouts; nothing is assumed of the web
process, of users, or of time. `MailArchive`: the scheduler enqueues a due mailbox
and prunes in every round; `asyncio.Lock` serves waiters first-in first-out, so the poll
worker is not passed over for ever (strong fairness of `Acquire(Poll)`); steps of a
session have timeouts. Deliveries and failures are not fair. `TokenRotation`: the
rotation's scheduler runs every round, its worker takes what is queued, the
mailbox's token lock serves its waiters in turn (strong fairness of the rotation, which
others may pass while it waits), and requests and IMAP sessions end. Microsoft,
the clock, the poll worker and the web process owe nothing. `DeviceFlow`: the event loop
resumes a request whose answer is there, in turn with others that may hold the loop
when it looks (strong fairness of `Proceed`); nothing is assumed of Microsoft's answers, of
the owner or of the worker. `Sessions` and `PublicAccess` state no liveness: nothing there happens
unless someone asks.

### What the violations say

- `NoGap` at a stop: two detached threads rebuild one archive, and the second
  `begin_mail_archive_rebuild` deletes rows that the first one's cursor then covers.
- `NoMixture` at a first sync: the first batch is committed before its UIDVALIDITY.
- `LatestGrantStored`: the answer to a request of the old credentials overwrites the
  refresh token of an import, beside the imported client id.

More places where the models show less than a document says, or than a reader may
expect, without a run:

- `refresh_public_mail` checks the 10-second cooldown in one transaction and creates the job in
  another, and the previous public job can complete in between.
- A device authorization stores its refresh token twice, in `import_accounts` and again in
  `update_tokens`. A rotation by the worker between the two is overwritten by the older token.
- Of two requests for one flow, the one Microsoft turns down last sets the status
  to failed although the other has stored the credentials (`RecordRefusal` after `Complete`).
- A full item is served with a stored access token while that is valid (`GetAccessToken`), and a token
  minutes old is not rotated for it (`Reusable`): `force`, which would bring a request about, is
  passed by nobody. The comment at `microsoft.py:150` and the design (lines 11 and 34) ask for a real token
  request; the comment at `microsoft.py:671` says why none is forced (rotating many mailboxes at once led
  to AADSTS50196). `NoNeedlessRotation` is therefore about the other callers only.
- A session whose lease lapsed clears `full_refresh_pending` when it ends, also when the flag is by then
  that of another job: `FlagsOfOthersStay` holds only until a lease lapses.
- A device code that Microsoft has redeemed in an answer that was lost stays in its row until
  another request is refused or the flow is purged: `CodeCleared` is about answers that arrive.
- A permanent failure does not last: a later transient or IMAP error writes its own
  status over `invalid`, and the last failure wins.
- A mailbox too sparse for 100 blocks of the UID search fails in every sync and gets no
  further (`UidSearch` ends in `failed`); `README.md` of the repository promises all unseen UIDs.
- `Rescanned` is violated when `SideBySide` is TRUE: the worker of the old release writes its cursor back
  over the rescan. `docker-compose.yml` makes the worker wait for a healthy web process
  (`depends_on`), so the new web process may be up before the old worker is replaced.

## Proofs

Every invariant, action property and refinement of a passing run is a theorem, for every
value of the constants that the modules' assumptions allow; those of `MailArchive` hold
in a `Setting`, see below. A proof module has an inductive invariant, one lemma for each group of
actions, and the properties as corollaries.

`RefreshJobsProofs` proves, for any number of accounts, owners, links, workers, jobs,
crashes and lapses:

- `TypeCorrect`: `TypeOK`, with `InHand` (a busy worker holds a job and an account), which the
  other proofs need for the worker's own steps.
- `CountersCorrect`: `CountersAgree`. It is inductive relative to the types. The argument is about
  cardinalities: settling moves one account from the active to the settled set of
  its job (`MovedTallies`, `CountedTallies`), claiming and requeueing move within the active set.
- `QueueCorrect`: `QueueInv`, the inductive invariant of the queue. Neither `OneActiveItemPerAccount` nor
  `PendingHasJob` is inductive alone: a new job is admitted by looking at *active jobs*,
  so that items may be active only in active jobs of the account's owner (`Placed`),
  which in turn needs the counters (`ActiveJobs`); and a flag may be cleared only by the
  one active item of its account, so that a worker past its sync has no flag left
  to answer for (`Acknowledged`).
- `RefreshesDeduplicated` and `FlagsHaveJobs` follow.
- `WorkersCorrect`: `WorkersInv`, on top of `QueueInv`. That workers stay apart is a matter of items: as long as no
  lease has lapsed, what a worker holds is running (`InCharge`), and a mailbox has one active
  item. The exception in `InCharge` is needed: when the owner is deleted during a sync the worker goes on
  with an item that is gone, and then nobody may ever queue that account again
  (`Deserted`). `Hands` says what is in the hands of a process that is down: nothing, so
  that the requeueing at `Start` is complete. `NoneAssumption` (no account is called `None`) tells an idle worker
  from a busy one. `NoOrphanedItems` and `WorkersKeptApart` follow.
- `FlagsLeftToOthers`: `FlagsOfOthersStay`. A session that ends drops the flag of its own account; a flagged account is
  live (`PendingHasJob`), so that the session's item is still running (`InCharge`) and is the only active one.
- `OwnersLimited`: `AdmissionBound`. The limit is compared once, when a job is created. The proof shows that no
  other step adds an active item to an owner (`StepKinds`), that what is active is in jobs the comparison counts
  (`ActiveJobs`), and that a new job adds as many items as it has mailboxes (`ItemsOfJob`).

`JobLedgerProofs` proves `LedgerSpec`: each step maps to `Open`, `Forget`, `Decide`, `Withdraw` or a
stutter. It needs `QueueInv` in both states: that the job's counters are its report is `CountersAgree`
(`ReportIsTally`), that an opened mailbox is nowhere else to do is `OneActiveItemPerAccount`, and that what is
purged was done is the meaning of `completed`.

`UidSearchProofs` proves the loop invariant of the block search (`LoopCorrect`: what is unseen
above the next block has been found, and nothing else) and from it `NothingSkipped` and
`NothingSeen`, for every mailbox, limit and block size; `TypeCorrect` says that the cursor and
the blocks stay inside the mailbox.

`MailArchiveProofs` proves `TypeOK` for all constants, and for mailboxes, batches, limits, callers, crashes,
failures, stops and epochs of any number `NoGap`, `NoMixture`, `RebuildIntact`, `Rescanned` and `PagesSpec` under

    Setting == ~SideBySide /\ (MaxEpoch = 1 \/ (FirstValidity = 1 /\ ~Handovers))

that is, while UIDVALIDITY stays, or in a mailbox that was synchronised before and is not handed over
at a stop. Each part of it excludes a way in which the code does go wrong: the worker of an old
release beside the new web process (`Rescanned`), a new UIDVALIDITY before the first cursor is
written (`archive_first_sync`), and a new UIDVALIDITY when a stop lets a second thread in beside the
first (`archive_handover`). So the handover is all that is wrong about stops: a thread that outlives one alone
does no harm. `CursorMonotone` needs `~Handovers` also while UIDVALIDITY stays: the two threads may write their
cursors in either order, and the older one only makes the next sync read some messages again.
`ArchiveInv`, the inductive invariant, has these parts:

- `TablesOK`: the rows of the archive are of the UIDVALIDITY of its cursor, those of the rebuild of a later one
  (`Uniform`, `Validities`), and everything at or below a cursor is kept or outnumbered (`Reached`). `NoGap` and `Rescanned`
  are `Reached` for the tables; they are not inductive, since a session brings its own cursor.
- `SessionOK`: `Reached` for what a session has read or stored so far (`Linked`), and what it has still to store
  comes after that, in order and without a gap but for outnumbered messages (`Pending`).
- `LockHeld` and `Processes`: without handovers one session at a time is past the lock, also
  when its thread is detached and the lock free; none is there when the process is down, and a
  running worker has the release of the web process. With handovers, `Alone` and `Plain` say why two sessions do no harm
  while UIDVALIDITY stays: nobody rebuilds, and sessions only add.

The counting is in four lemmas: between a UID and UIDNEXT there are at most so many messages
(`FewBetween`), so what the search leaves out (`SelectedOrOutnumbered`) and what retention deletes
(`BeyondOutnumbered`) is outnumbered, and a batch is the lower end of the selection (`OldestFirst`).
`Home` stands for the UIDVALIDITY that the first cursor will have. `ArchiveImplementsPages` follows by cases: storing
extends, pruning retires, `Finish` replaces, everything else leaves the pages alone.

`TokenRotationProofs` proves, for any grants, rotations, retries and restarts, `TypeOK`, `TokenNeverOlder` and `NoNeedlessRotation`
(of the automatic callers and mail items; it says nothing of full items, which are meant to verify the token).
`TokenInv` adds the lock (`OneRequest`), that nobody makes the stored token fresh while a request is
out (`Requested`), and that the row holds nothing Microsoft has not issued while an
answer on its way carries the latest (`Known`): the comparison of two rotations of a grant
is then one of what was issued before and after.

`DeviceFlowProofs` proves, for any flows, requests, imports and restarts, `TypeOK` and `CompletedIsStored`. `RedeemedOnce`: Microsoft redeems a
code once, so that one request of many has its tokens. `InTransaction`: one request at a time is between its
transactions, because the event loop is not given away there, and the account is still
the one it has imported. `Accounted` counts the grants, by imports and by flows that have stored one, which is
what bounds their number in `TypeOK`.

`SessionsProofs` proves, for any number of users, passwords, versions and requests, the four
properties of `Sessions`. `IInv` is `TypeOK` with `Behind` (a session is of a version its user has reached) and
`Agrees` (a session of the user's present version has the present password and role, *also
while the user is disabled*; without that clause the sessions of a user who is
enabled again could be anything). `AdministrationChanges` brings every handler and every restart into one
form, a change of one row that raises the version or touches nothing a session
depends on and that spares administrators (`Changes`, `Spares`), from which `SessionsStayDead` and
`AdminStays` follow.

`PublicAccessProofs` proves the five properties of `PublicAccess` for any owners, shares, visitors and
bounds, from the assumptions on the constants (there is a visitor, targets belong to
mailboxes and mailboxes to owners). The module has two halves without a common
variable (`HalvesApart`). For links, `Rooted` says that what exists has its mailbox and its owner and
that a link has its row; `LinksHaveOwners` alone is not inductive, as a link made for an orphaned
target would break it. `TokensReplaced` says what a step may make of the token of a link, and `RevokedStaysRevoked`
follows. For challenges, `Counted` ties the attempts in the row to the answers compared, and
`Earned` says of each cookie, also of those that handlers hold while they await a body, that
the challenges it names were made for the token and that what it opens was solved;
`MovesKept` shows once that a challenge which moves in balance spoils no cookie.

Model-checked only: the liveness properties, `JobSettles`, `PendingResolves`, `Archived`, `RetentionRestored`, `DueIsRotated` and
`CodeCleared` (liveness under fairness is beyond the prover), and the runs that find a
violation. None of the modules has a recursive operator.

## Plan

Order of the modules: the queue and the archive come first, because jobs and
archive are what users see and where crashes and concurrency meet.

1. Done: `RefreshJobs`, `JobLedger`, `MailArchive`, `MailPages`, `UidSearch`, `TokenRotation`, `DeviceFlow`, `Sessions`, `PublicAccess`.
2. Done: the proofs of their safety properties and of both refinements.
3. Proofs left: the block search of `UidSearch` as an implementation of the one step that `MailArchive` takes for it.
4. `AccountHealth`: `last_error`, `last_mail_error`, their codes and sources, and the writers
   in both processes.
5. A composition of the queue with the archive: one worker process, jobs and the
   poll worker on the same mailboxes; the deletion of a mailbox during a sync.

## Not modelled

- Decoding of messages, recipients, rendering, the CAPTCHA image, encryption, the
  browser code, configuration: no state, or layout.
- Tags, and names and notes of targets: single transactions nothing depends on.
- The 12 hours after which a solved CAPTCHA lapses, the time of a link's last access.
- CREATE TABLE and ALTER TABLE: they run before the first request.
- Of the token service: the deletion of a mailbox under a request, and exceptions
  that the code catches as internal errors.
- The heartbeat row, which only the container's health check reads.
- SQLite errors and disk loss: a transaction commits, or the process dies before it.
