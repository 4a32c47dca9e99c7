---------------------------- MODULE RefreshJobs ----------------------------
(***************************************************************************)
(* The durable refresh-job queue: the tables refresh_jobs and              *)
(* refresh_job_items, the web handlers that fill them, and the workers of  *)
(* FullRefreshCoordinator that drain them.                                 *)
(*                                                                         *)
(* The web process and the worker process share nothing but the database,  *)
(* so an action here is one SQLite transaction together with the in-memory *)
(* steps up to the next transaction or await.  Web handlers call the store *)
(* synchronously on one event loop: a handler runs to its end before the   *)
(* next one starts, but worker transactions fall between its transactions. *)
(***************************************************************************)
EXTENDS Naturals, FiniteSets

CONSTANTS
  Accounts,    \* rows of accounts, present, past and future (ids are AUTOINCREMENT)
  Users,       \* owners that an administrator may delete
  OwnerOf,     \* accounts.owner_id
  Tokens,      \* shared-mailbox links
  MailboxOf,   \* the account a link gives access to
  None,        \* NULL: no link (the owner asked for the job), no account in hand
  Workers,     \* the tasks full-refresh-worker-<n>
  MaxActive,   \* MAX_ACTIVE_REFRESH_ITEMS_PER_OWNER
  MaxJobs,     \* bound: refresh jobs ever created
  MaxCrashes,  \* bound: times the worker process dies
  MaxLapses    \* bound: leases that outlive a live holder

ASSUME AccountsAssumption == IsFiniteSet(Accounts)
ASSUME OwnerAssumption == OwnerOf \in [Accounts -> Users]
ASSUME LinkAssumption == MailboxOf \in [Tokens -> Accounts]
ASSUME NoneAssumption == None \notin Accounts \cup Users \cup Tokens
ASSUME BoundsAssumption == {MaxActive, MaxJobs, MaxCrashes, MaxLapses} \subseteq Nat

VARIABLES
  account,   \* is the row of accounts there?
  pending,   \* accounts whose full_refresh_pending is 1
  job,       \* refresh_jobs
  item,      \* refresh_job_items.status, by job and account
  lapsed,    \* running items claimed more than lease_seconds ago
  recent,    \* public jobs completed less than the cooldown ago
  nextJob,   \* the id of the next job; ids are never used twice
  web,       \* the create_refresh_job call the current handler is about to make
  up,        \* is the worker process running?
  worker,    \* program counter and locals of each FullRefreshCoordinator._worker
  crashes,
  lapses

vars == <<account, pending, job, item, lapsed, recent, nextJob, web, up,
          worker, crashes, lapses>>
tables == <<account, pending, job, item, lapsed, recent, nextJob>>
process == <<up, worker, crashes, lapses>>

JobIds == 1 .. MaxJobs
Modes == {"full", "mail"}
ActiveStatus == {"queued", "running"}     \* of jobs and of items alike
SettledStatus == {"succeeded", "failed"}

NoJob == [status |-> "none", owner |-> None, mode |-> "none", token |-> None,
          total |-> 0, completed |-> 0, succeeded |-> 0, failed |-> 0]
NoItems == [a \in Accounts |-> "none"]
NoCall == [at |-> "idle", owner |-> None, ids |-> {}, mode |-> "none", token |-> None]
Call(u, ids, mode, tok) ==
  [at |-> "create", owner |-> u, ids |-> ids, mode |-> mode, token |-> tok]
Idle == [pc |-> "idle", job |-> 0, account |-> None, mode |-> "none", ok |-> FALSE]

Init ==
  /\ account = [a \in Accounts |-> "absent"]
  /\ pending = {}
  /\ job = [j \in JobIds |-> NoJob]
  /\ item = [j \in JobIds |-> NoItems]
  /\ lapsed = {}
  /\ recent = {}
  /\ nextJob = 1
  /\ web = NoCall
  /\ up = FALSE
  /\ worker = [w \in Workers |-> Idle]
  /\ crashes = 0
  /\ lapses = 0

-----------------------------------------------------------------------------
(* Queries                                                                 *)

Live == {a \in Accounts : account[a] = "live"}
Owned(u) == {a \in Accounts : OwnerOf[a] = u}

\* Job j has an item still to be done for account a of owner u.
ActiveOn(j, a, u) ==
  /\ job[j].owner = u
  /\ job[j].status \in ActiveStatus
  /\ item[j][a] \in ActiveStatus

\* Mutant: items already claimed are overlooked.
BusyIfQueued(a, u) == \E j \in JobIds : ActiveOn(j, a, u) /\ item[j][a] = "queued"

Busy(a, u) == \E j \in JobIds : ActiveOn(j, a, u)

ActiveItems(u) ==
  {i \in JobIds \X Accounts : ActiveOn(i[1], i[2], u)}

\* An active item of a full job keeps the account's pending flag alive.
HasFullItem(a) ==
  \E j \in JobIds : job[j].mode = "full" /\ item[j][a] \in ActiveStatus

\* public_refresh_retry_after is positive.
CoolingDown(a) == \E j \in recent : item[j][a] # "none"

-----------------------------------------------------------------------------
(* Web handlers: what they do before they call create_refresh_job          *)

JobBudget == nextJob <= MaxJobs

\* POST /api/accounts/import: the rows are written in a transaction of their
\* own, which drops full_refresh_pending whether or not a job is active.
ImportAccounts(u, ids) ==
  /\ web = NoCall /\ JobBudget
  /\ ids # {} /\ ids \subseteq Owned(u)
  /\ \A a \in ids : account[a] # "deleted"
  /\ account' = [a \in Accounts |-> IF a \in ids THEN "live" ELSE account[a]]
  /\ pending' = pending \ ids
  /\ web' = Call(u, ids, "full", None)
  /\ UNCHANGED <<job, item, lapsed, recent, nextJob, process>>

\* POST /api/oauth/device/{flow_id}/complete, once Microsoft has answered: an
\* import of one account for which no job is created.
CompleteDeviceFlow(a) ==
  /\ web = NoCall
  /\ account[a] # "deleted"
  /\ account' = [account EXCEPT ![a] = "live"]
  /\ pending' = pending \ {a}
  /\ UNCHANGED <<job, item, lapsed, recent, nextJob, web, process>>

\* POST /api/accounts/refresh: the ids or filters of the request select any
\* of the owner's accounts, none included.
RefreshAccounts(u, ids) ==
  /\ web = NoCall /\ JobBudget
  /\ ids \subseteq Owned(u) \cap Live
  /\ web' = Call(u, ids, "full", None)
  /\ UNCHANGED <<tables, process>>

\* POST /api/accounts/{id}/messages/sync
SyncMessages(a) ==
  /\ web = NoCall /\ JobBudget
  /\ a \in Live
  /\ web' = Call(OwnerOf[a], {a}, "mail", None)
  /\ UNCHANGED <<tables, process>>

\* POST /{token}/refresh: the cooldown is read before, and outside of, the
\* transaction that creates the job.
RefreshPublicMail(t) ==
  /\ web = NoCall /\ JobBudget
  /\ MailboxOf[t] \in Live
  /\ ~CoolingDown(MailboxOf[t])
  /\ web' = Call(OwnerOf[MailboxOf[t]], {MailboxOf[t]}, "mail", t)
  /\ UNCHANGED <<tables, process>>

-----------------------------------------------------------------------------
(* create_refresh_job: one transaction with three outcomes                 *)

Valid == web.ids \cap Live \cap Owned(web.owner)

\* The one mailbox asked for already has an active job that serves the caller.
Joinable(j) ==
  \E a \in Accounts :
    /\ Valid = {a}
    /\ ActiveOn(j, a, web.owner)
    /\ IF web.token = None
         THEN ~(web.mode = "full" /\ job[j].mode = "mail")
         ELSE job[j].mode = "mail" /\ job[j].token = web.token

NothingToDo == Valid = {} /\ web.token = None

\* Mutant: the new items are not counted.
HasRoomNow == Cardinality(ActiveItems(web.owner)) < MaxActive

\* MAX_ACTIVE_REFRESH_ITEMS_PER_OWNER
HasRoom == Cardinality(ActiveItems(web.owner)) + Cardinality(Valid) <= MaxActive

Admissible ==
  /\ Valid # {}
  /\ web.token # None => \E a \in Accounts : Valid = {a}
  /\ \A a \in Valid : ~Busy(a, web.owner)
  /\ HasRoom

\* Mutant: the age of a job alone decides.
PurgedByAge(P) == P \subseteq JobIds \ recent

\* Jobs completed more than seven days ago go, with their items.
Purged(P) ==
  P \subseteq {j \in JobIds : job[j].status = "completed" /\ j \notin recent}

NewJob ==
  [status |-> "queued", owner |-> web.owner, mode |-> web.mode,
   token |-> web.token, total |-> Cardinality(Valid),
   completed |-> 0, succeeded |-> 0, failed |-> 0]

JobAccepted(P) ==
  /\ web # NoCall /\ Admissible /\ Purged(P)
  /\ job' = [j \in JobIds |-> IF j = nextJob THEN NewJob
                              ELSE IF j \in P THEN NoJob ELSE job[j]]
  /\ item' = [j \in JobIds |->
                IF j = nextJob
                  THEN [a \in Accounts |-> IF a \in Valid THEN "queued" ELSE "none"]
                ELSE IF j \in P THEN NoItems ELSE item[j]]
  /\ pending' = IF web.mode = "full" THEN pending \cup Valid ELSE pending
  /\ nextJob' = nextJob + 1
  /\ web' = NoCall
  /\ UNCHANGED <<account, lapsed, recent, process>>

\* The caller is given the active job, or an empty one: only the purge commits.
JobJoined(P) ==
  /\ web # NoCall /\ Purged(P)
  /\ NothingToDo \/ \E j \in JobIds : Joinable(j)
  /\ job' = [j \in JobIds |-> IF j \in P THEN NoJob ELSE job[j]]
  /\ item' = [j \in JobIds |-> IF j \in P THEN NoItems ELSE item[j]]
  /\ web' = NoCall
  /\ UNCHANGED <<account, pending, lapsed, recent, nextJob, process>>

\* ValueError: the transaction rolls back, the purge with it.
JobRefused ==
  /\ web # NoCall
  /\ ~Admissible /\ ~NothingToDo /\ \A j \in JobIds : ~Joinable(j)
  /\ web' = NoCall
  /\ UNCHANGED <<tables, process>>

-----------------------------------------------------------------------------
(* Other handlers that touch what jobs refer to                            *)

\* DELETE /api/accounts: refresh_job_items.account_id becomes NULL, the items
\* stay in their jobs.
DeleteAccounts(u, ids) ==
  /\ web = NoCall
  /\ ids # {} /\ ids \subseteq Owned(u) \cap Live
  /\ account' = [a \in Accounts |-> IF a \in ids THEN "deleted" ELSE account[a]]
  /\ pending' = pending \ ids
  /\ UNCHANGED <<job, item, lapsed, recent, nextJob, web, process>>

\* DELETE /api/users/{id}: accounts, jobs and items go by ON DELETE CASCADE.
\* No account of the user can be imported any more.
DeleteUser(u) ==
  LET gone == {j \in JobIds : job[j].owner = u}
  IN  /\ web = NoCall
      /\ account' = [a \in Accounts |-> IF a \in Owned(u) THEN "deleted" ELSE account[a]]
      /\ pending' = pending \ Owned(u)
      /\ job' = [j \in JobIds |-> IF j \in gone THEN NoJob ELSE job[j]]
      /\ item' = [j \in JobIds |-> IF j \in gone THEN NoItems ELSE item[j]]
      /\ lapsed' = {i \in lapsed : i[1] \notin gone}
      /\ recent' = recent \ gone
      /\ UNCHANGED <<nextJob, web, process>>

\* The web process dies in any handler and runs Store.initialize when it is
\* back: flags of tasks lost with their process are dropped.
WebRestart ==
  /\ web' = NoCall
  /\ pending' = {a \in pending : HasFullItem(a)}
  /\ UNCHANGED <<account, job, item, lapsed, recent, nextJob, process>>

-----------------------------------------------------------------------------
(* FullRefreshCoordinator._worker                                          *)

\* Mutant: every running item is taken for an expired one.
ExpiredAll ==
  [j \in JobIds |-> [a \in Accounts |->
     IF item[j][a] = "running" THEN "queued" ELSE item[j][a]]]

\* What claim_refresh_job_item leaves of items whose lease is over.
Expired ==
  [j \in JobIds |-> [a \in Accounts |->
     IF <<j, a>> \in lapsed /\ item[j][a] = "running" THEN "queued" ELSE item[j][a]]]

\* Mutant: a job that is running already gives out no more items.
ClaimableOfQueued(st, j, a) ==
  /\ st[j][a] = "queued"
  /\ job[j].status = "queued"
  /\ account[a] # "live" \/ \A k \in JobIds : st[k][a] # "running"

Claimable(st, j, a) ==
  /\ st[j][a] = "queued"
  /\ job[j].status \in ActiveStatus
  /\ account[a] # "live" \/ \A k \in JobIds : st[k][a] # "running"

\* The claimable item with the smallest id: items of one job were inserted
\* together, in the order of the request.
Claim(w, j, a) ==
  /\ up /\ worker[w] = Idle
  /\ Claimable(Expired, j, a)
  /\ \A k \in 1 .. (j - 1), b \in Accounts : ~Claimable(Expired, k, b)
  /\ item' = [Expired EXCEPT ![j][a] = "running"]
  /\ lapsed' = {}
  /\ job' = [job EXCEPT ![j].status = "running"]
  /\ worker' = [worker EXCEPT ![w] =
       [pc |-> IF account[a] = "live" THEN "sync" ELSE "settle",
        job |-> j, account |-> a, mode |-> job[j].mode, ok |-> FALSE]]
  /\ UNCHANGED <<account, pending, recent, nextJob, web, up, crashes, lapses>>

\* Mutant: the wrong mode drops the flag.
UnflaggedByMail(w) == IF worker[w].mode = "mail" THEN {worker[w].account} ELSE {}

\* mark_full_refresh_succeeded and mark_full_refresh_failure both drop the
\* flag of the account, for a full item only.
Unflagged(w) == IF worker[w].mode = "full" THEN {worker[w].account} ELSE {}

\* _sync_account returns or raises, whatever became of the account meanwhile,
\* and the outcome is recorded in the account's row.
SyncEnds(w, ok) ==
  /\ worker[w].pc = "sync"
  /\ pending' = pending \ Unflagged(w)
  /\ worker' = [worker EXCEPT ![w].pc = "settle", ![w].ok = ok]
  /\ UNCHANGED <<account, job, item, lapsed, recent, nextJob, web, up, crashes, lapses>>

\* A job row after one more of its items is done.
Counted(r, ok) ==
  [r EXCEPT !.completed = @ + 1,
            !.succeeded = IF ok THEN @ + 1 ELSE @,
            !.failed = IF ok THEN @ ELSE @ + 1,
            !.status = IF r.completed + 1 >= r.total THEN "completed" ELSE "running"]

\* Mutant: an item is settled whatever its status.
StillThere(j, a) == item[j][a] # "none"

\* complete_refresh_job_item returns early unless the item is running.
StillRunning(j, a) == item[j][a] = "running"

\* After the heartbeat task is gone: complete_refresh_job_item.
Settle(w) ==
  LET j == worker[w].job
      a == worker[w].account
  IN  /\ worker[w].pc = "settle"
      /\ IF StillRunning(j, a)
           THEN /\ item' = [item EXCEPT ![j][a] = IF worker[w].ok THEN "succeeded" ELSE "failed"]
                /\ job' = [job EXCEPT ![j] = Counted(@, worker[w].ok)]
                /\ lapsed' = lapsed \ {<<j, a>>}
                /\ recent' = IF job[j].token # None /\ Counted(job[j], TRUE).status = "completed"
                               THEN recent \cup {j} ELSE recent
           ELSE UNCHANGED <<item, job, lapsed, recent>>
      /\ worker' = [worker EXCEPT ![w] = Idle]
      /\ UNCHANGED <<account, pending, nextJob, web, up, crashes, lapses>>

\* _renew_lease, every minute while _sync_account runs; it does not ask who
\* claimed the item last.
RenewLease(w) ==
  /\ worker[w].pc = "sync"
  /\ <<worker[w].job, worker[w].account>> \in lapsed
  /\ lapsed' = lapsed \ {<<worker[w].job, worker[w].account>>}
  /\ UNCHANGED <<account, pending, job, item, recent, nextJob, web, process>>

-----------------------------------------------------------------------------
(* Time and failures                                                       *)

\* Ten minutes without a renewal: a stalled event loop, a suspended host, a
\* clock that jumps.  While the process is down, requeueing covers it.
LeaseLapses(j, a) ==
  /\ up /\ lapses < MaxLapses
  /\ item[j][a] = "running" /\ <<j, a>> \notin lapsed
  /\ lapsed' = lapsed \cup {<<j, a>>}
  /\ lapses' = lapses + 1
  /\ UNCHANGED <<account, pending, job, item, recent, nextJob, web, up, worker, crashes>>

CooldownEnds(j) ==
  /\ j \in recent
  /\ recent' = recent \ {j}
  /\ UNCHANGED <<account, pending, job, item, lapsed, nextJob, web, process>>

\* The worker process is killed, or stopped: cancellation skips
\* complete_refresh_job_item, so a stop leaves the tables as a kill does.
Crash ==
  /\ up /\ crashes < MaxCrashes
  /\ up' = FALSE
  /\ worker' = [w \in Workers |-> Idle]
  /\ crashes' = crashes + 1
  /\ UNCHANGED <<tables, web, lapses>>

\* Mutants: a status no query looks for, and no requeueing at all.
RequeuedAsPending(s) == IF s = "running" THEN "pending" ELSE s
RequeuedNever(s) == s

\* requeue_running_refresh_items, whatever the age of the lease.
Requeued(s) == IF s = "running" THEN "queued" ELSE s

\* FullRefreshCoordinator.start
Start ==
  /\ ~up
  /\ up' = TRUE
  /\ item' = [j \in JobIds |-> [a \in Accounts |-> Requeued(item[j][a])]]
  /\ job' = [j \in JobIds |-> [job[j] EXCEPT !.status = Requeued(@)]]
  /\ lapsed' = {}
  /\ UNCHANGED <<account, pending, recent, nextJob, web, worker, crashes, lapses>>

-----------------------------------------------------------------------------
Web ==
  \/ \E u \in Users, ids \in SUBSET Accounts :
       \/ ImportAccounts(u, ids)
       \/ RefreshAccounts(u, ids)
       \/ DeleteAccounts(u, ids)
  \/ \E a \in Accounts : CompleteDeviceFlow(a) \/ SyncMessages(a)
  \/ \E t \in Tokens : RefreshPublicMail(t)
  \/ \E P \in SUBSET JobIds : JobAccepted(P) \/ JobJoined(P)
  \/ JobRefused
  \/ \E u \in Users : DeleteUser(u)
  \/ WebRestart

ClaimNext(w) == \E j \in JobIds, a \in Accounts : Claim(w, j, a)
FinishSync(w) == \E ok \in BOOLEAN : SyncEnds(w, ok)

Job == \E w \in Workers : ClaimNext(w) \/ FinishSync(w) \/ Settle(w) \/ RenewLease(w)

Environment ==
  \/ \E j \in JobIds, a \in Accounts : LeaseLapses(j, a)
  \/ \E j \in JobIds : CooldownEnds(j)
  \/ Crash
  \/ Start

Next == Web \/ Job \/ Environment

\* The container runtime restarts the worker process, its event loop runs
\* every task, and each sync ends: HTTP and IMAP calls carry timeouts.
Fairness ==
  /\ WF_vars(Start)
  /\ \A w \in Workers :
       WF_vars(ClaimNext(w)) /\ WF_vars(FinishSync(w)) /\ WF_vars(Settle(w))

Spec == Init /\ [][Next]_vars
FairSpec == Spec /\ Fairness

-----------------------------------------------------------------------------
(* Properties                                                              *)

JobRow ==
  [status : {"none", "queued", "running", "completed"}, owner : Users \cup {None},
   mode : Modes \cup {"none"}, token : Tokens \cup {None},
   total : Nat, completed : Nat, succeeded : Nat, failed : Nat]
CallRow ==
  [at : {"idle", "create"}, owner : Users \cup {None}, ids : SUBSET Accounts,
   mode : Modes \cup {"none"}, token : Tokens \cup {None}]
TaskRow ==
  [pc : {"idle", "sync", "settle"}, job : 0 .. MaxJobs,
   account : Accounts \cup {None}, mode : Modes \cup {"none"}, ok : BOOLEAN]
ItemStatus == {"none"} \cup ActiveStatus \cup SettledStatus

\* Every variable holds a value of its type: the columns of both tables, the
\* call in flight and the locals of the workers.
TypeOK ==
  /\ account \in [Accounts -> {"absent", "live", "deleted"}]
  /\ pending \subseteq Accounts
  /\ job \in [JobIds -> JobRow]
  /\ item \in [JobIds -> [Accounts -> ItemStatus]]
  /\ lapsed \subseteq JobIds \X Accounts
  /\ recent \subseteq JobIds
  /\ nextJob \in 1 .. (MaxJobs + 1)
  /\ web \in CallRow
  /\ up \in BOOLEAN
  /\ worker \in [Workers -> TaskRow]
  /\ crashes \in Nat
  /\ lapses \in Nat

In(row, S) == {a \in Accounts : row[a] \in S}

\* The row r of refresh_jobs against the statuses of its items.
Tallies(r, row) ==
  /\ r.total = Cardinality(In(row, ActiveStatus \cup SettledStatus))
  /\ r.completed = Cardinality(In(row, SettledStatus))
  /\ r.succeeded = Cardinality(In(row, {"succeeded"}))
  /\ r.failed = Cardinality(In(row, {"failed"}))
  /\ r.status = "completed" => In(row, ActiveStatus) = {} /\ In(row, SettledStatus) # {}
  /\ r.status \in ActiveStatus => In(row, ActiveStatus) # {}
  /\ r.status = "none" => row = NoItems

\* The progress a client polls is the truth about the items, and a job is
\* completed exactly when none of its items is left: complete_refresh_job_item
\* counts each item once whoever holds its lease, and no deletion, requeue or
\* restart changes what is counted.
CountersAgree == \A j \in JobIds : Tallies(job[j], item[j])

\* "Refresh jobs are deduplicated per mailbox": create_refresh_job never lets a
\* second active item exist for a mailbox, across links, modes and handlers.
OneActiveItemPerAccount ==
  \A a \in Accounts, j, k \in JobIds :
    item[j][a] \in ActiveStatus /\ item[k][a] \in ActiveStatus => j = k

\* full_refresh_pending is never left behind: while an account shows as being
\* verified, an item of a full job is still going to clear the flag.
PendingHasJob == \A a \in pending : account[a] = "live" /\ HasFullItem(a)

\* A session clears no flag that another job has set: while an item of a full job
\* is still to be done for the account, only the session of that item drops
\* full_refresh_pending, unless a lease outlived its holder.  Then a session that
\* comes late clears the flag of whatever job was created meanwhile.
FlagsOfOthersStay ==
  [][lapses = 0 =>
       \A w \in Workers, a \in Accounts, j \in JobIds :
         /\ worker[w].pc = "sync" /\ worker'[w].pc = "settle"
         /\ a \in pending \ pending'
         /\ job[j].mode = "full" /\ item[j][a] \in ActiveStatus
         => j = worker[w].job]_vars

\* "Refresh jobs are admission-limited per user": requeues, lapsed leases and
\* deletions never bring an owner above the limit checked at creation.
AdmissionBound == \A u \in Users : Cardinality(ActiveItems(u)) <= MaxActive

\* An item marked running has a worker that holds it: requeueing at start
\* leaves no item of a dead process behind.
RunningItemsHeld ==
  up => \A j \in JobIds, a \in Accounts :
          item[j][a] = "running" =>
            \E w \in Workers : worker[w].job = j /\ worker[w].account = a

\* Unless a lease outlived its holder, no two workers are on one mailbox:
\* claiming, settling and requeueing after a crash keep them apart.
WorkersApart ==
  lapses = 0 =>
    \A v, w \in Workers :
      v # w /\ worker[v] # Idle => worker[v].account # worker[w].account

\* The queue is the ledger of JobLedger: items done once and for good, a
\* report that is the tally of the verdicts, jobs that only a purge or the
\* deletion of their owner takes away.
Ledger == INSTANCE JobLedger WITH
  verdict <- [j \in JobIds |-> [a \in Accounts |->
                IF item[j][a] \in ActiveStatus THEN "todo" ELSE item[j][a]]],
  report <- [j \in JobIds |->
               [total |-> job[j].total, succeeded |-> job[j].succeeded,
                failed |-> job[j].failed, done |-> job[j].status = "completed"]],
  client <- [j \in JobIds |-> job[j].owner],
  used <- 1 .. (nextJob - 1)
LedgerSpec == Ledger!Spec

\* "Refresh jobs survive process restart and are completed by the worker": a
\* job that was created is completed or goes with its owner, through crashes
\* and lapsed leases.
JobSettles ==
  \A j \in JobIds :
    job[j].status \in ActiveStatus ~> job[j].status \notin ActiveStatus

\* An account shown as being verified stops being so.
PendingResolves == \A a \in Accounts : a \in pending ~> a \notin pending

=============================================================================
