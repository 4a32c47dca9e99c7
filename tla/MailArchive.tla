---------------------------- MODULE MailArchive ----------------------------
(***************************************************************************)
(* Archiving one mailbox: MailArchiveCoordinator.sync_account, the thread  *)
(* it runs OutlookMailbox.process_messages_after in, and the tables the    *)
(* two write.  A sync session is run by a job worker or by the poll worker *)
(* under the mailbox's asyncio lock; each of its database calls is one     *)
(* transaction, and the process can die between any two of them.           *)
(*                                                                         *)
(* A message is its UID and the UIDVALIDITY it was delivered under: two    *)
(* epochs reuse the same UIDs for different messages.                      *)
(***************************************************************************)
EXTENDS Naturals, FiniteSets, FiniteSetsExt

CONSTANTS
  Callers,          \* who runs sync_account: job workers and the poll worker
  Poll,             \* the caller that belongs to MailArchiveCoordinator itself
  NoOne,            \* the lock is free
  BatchSize,        \* messages per batch
  MaxMessages,      \* MAIL_ARCHIVE_MAX_MESSAGES
  FirstValidity,    \* imap_uid_validity at the start; 0 for never synced
  MaxUid,           \* bound: UIDs of an epoch
  MaxEpoch,         \* bound: values of UIDVALIDITY
  MaxFailures,      \* bound: token or IMAP errors
  MaxKills,         \* bound: crashes of the worker process
  MaxStops,         \* bound: orderly stops of the worker process
  MaxUpgrades,      \* bound: releases with another RECIPIENT_HEADER_VERSION
  SideBySide,       \* the new web process may start while the old worker runs
  Handovers         \* the poll worker may take a mailbox over while the worker stops

ASSUME CallersAssumption == Poll \in Callers /\ NoOne \notin Callers
ASSUME SizesAssumption == BatchSize \in Nat \ {0} /\ MaxMessages \in Nat \ {0}
ASSUME ValidityAssumption == FirstValidity \in {0, 1}
ASSUME LimitsAssumption ==
  {MaxUid, MaxFailures, MaxKills, MaxStops} \subseteq Nat /\ MaxEpoch \in Nat \ {0}
ASSUME UpgradesAssumption == MaxUpgrades \in {0, 1} /\ SideBySide \in BOOLEAN
ASSUME HandoversAssumption == Handovers \in BOOLEAN

VARIABLES
  inbox,      \* UIDs on the IMAP server
  epoch,      \* its UIDVALIDITY
  uidnext,    \* its UIDNEXT
  archive,    \* mail_messages: the epoch of the message stored under a UID, or 0
  staged,     \* mail_sync_messages
  staging,    \* mail_sync_state; validity 0 when there is no row
  cursor,     \* accounts.imap_uid_validity and last_synced_uid
  rescanned,  \* UIDs the new release has stored in archive and in staged
  release,    \* of the web process and of the worker process
  phase,      \* of the worker process
  lock,       \* _sync_locks[account]
  session,    \* the coroutine and the thread of each caller
  failures, kills, stops

server == <<inbox, epoch, uidnext>>
tables == <<archive, staged, staging, cursor, rescanned>>
budget == <<failures, kills, stops>>
vars == <<server, tables, release, phase, lock, session, budget>>

Uids == 1 .. MaxUid
Epochs == 1 .. MaxEpoch
NoMessages == [u \in Uids |-> 0]
NoCursor == [validity |-> 0, last |-> 0]

\* detached: the coroutine was cancelled, its thread goes on.
Idle == [pc |-> "idle", validity |-> 0, last |-> 0, rebuilding |-> FALSE,
         reset |-> FALSE, todo |-> {}, batch |-> {}, detached |-> FALSE]
InThread == {"select", "fetch", "begin", "store", "advance"}

Init ==
  /\ inbox = {} /\ epoch = 1 /\ uidnext = 1
  /\ archive = NoMessages /\ staged = NoMessages
  /\ staging = NoCursor
  /\ cursor = [validity |-> FirstValidity, last |-> 0]
  /\ rescanned = [archive |-> {}, staged |-> {}]
  /\ release = [web |-> 0, worker |-> 0]
  /\ phase = "down" /\ lock = NoOne
  /\ session = [c \in Callers |-> Idle]
  /\ failures = 0 /\ kills = 0 /\ stops = 0

-----------------------------------------------------------------------------
(* The mailbox on the server                                               *)

Deliver ==
  /\ uidnext <= MaxUid
  /\ inbox' = inbox \cup {uidnext}
  /\ uidnext' = uidnext + 1
  /\ UNCHANGED <<epoch, tables, release, phase, lock, session, budget>>

Expunge(u) ==
  /\ u \in inbox
  /\ inbox' = inbox \ {u}
  /\ UNCHANGED <<epoch, uidnext, tables, release, phase, lock, session, budget>>

\* The mailbox is rebuilt with k messages numbered from 1 again.
ChangeValidity(k) ==
  /\ epoch < MaxEpoch
  /\ epoch' = epoch + 1
  /\ inbox' = 1 .. k
  /\ uidnext' = k + 1
  /\ UNCHANGED <<tables, release, phase, lock, session, budget>>

-----------------------------------------------------------------------------
(* Decisions of the code                                                   *)

\* get_mail_archive_cursor: the row of an unfinished rebuild goes first.
CurrentCursor == IF staging.validity # 0 THEN staging ELSE cursor

\* Mutant: a new UIDVALIDITY is not noticed.
ResetIgnored(expected) == FALSE

\* reset in process_messages_after: a known UIDVALIDITY that differs.
ResetNeeded(expected) == expected # 0 /\ expected # epoch

\* Mutant: the message right after the cursor is taken for a seen one.
UnseenAfterNext(after) == {u \in inbox : u > after + 1}

\* UIDs the search is asked for.
Unseen(after) == {u \in inbox : u > after}

\* sorted(uids)[-limit:]
Newest(S, n) == {u \in S : Cardinality({v \in S : v > u}) < n}
Oldest(S, n) == {u \in S : Cardinality({v \in S : v < u}) < n}

\* Mutants: the end of the selection instead of the batch, the next UID instead
\* of the last, and a reset by an empty batch.
LastSelected(last, batch, todo) ==
  IF batch \cup todo = {} THEN last ELSE Max(batch \cup todo)
LastUidNext(last, batch, todo) == IF batch = {} THEN last ELSE Max(batch) + 1
LastUidReset(last, batch, todo) == IF batch = {} THEN 0 ELSE Max(batch)

\* last_uid after a batch: the last selected UID, or the cursor it came with.
LastUid(last, batch, todo) == IF batch = {} THEN last ELSE Max(batch)

\* Mutant: a lock per session instead of one per account.
LockOfSession == TRUE

LockFree == lock = NoOne

Stored == {u \in Uids : archive[u] # 0}

\* Mutant: the oldest rows are kept instead of the newest.
BeyondNewest == {u \in Stored : Cardinality({v \in Stored : v < u}) >= MaxMessages}

\* Mutant: one row too many is kept.
BeyondByOne == {u \in Stored : Cardinality({v \in Stored : v > u}) > MaxMessages}

\* Rows that prune_mail_archive deletes: all but the MaxMessages highest UIDs.
Beyond == {u \in Stored : Cardinality({v \in Stored : v > u}) >= MaxMessages}

\* Mutant: only the schedule is reset, not the cursor.
RescanNever(last) == last

\* last_synced_uid after the rescan of Store.initialize
RescanFrom(last) == 0

-----------------------------------------------------------------------------
(* sync_account                                                            *)

At(c, pc) == session[c].pc = pc
Goto(c, s) == session' = [session EXCEPT ![c] = s]
Release(c) == lock' = IF lock = c THEN NoOne ELSE lock
Quiet == UNCHANGED <<server, release, phase, budget>>

\* A worker takes the account from its queue, or a claimed item names it.
Ask(c) ==
  /\ phase = "up" /\ At(c, "idle")
  /\ Goto(c, [Idle EXCEPT !.pc = "wait"])
  /\ UNCHANGED <<tables, lock>> /\ Quiet

Acquire(c) ==
  /\ phase = "up" /\ At(c, "wait") /\ LockFree
  /\ lock' = c
  /\ Goto(c, [session[c] EXCEPT !.pc = "token"])
  /\ UNCHANGED tables /\ Quiet

\* What a session starts its thread with.
Started ==
  [Idle EXCEPT !.pc = "select",
               !.validity = CurrentCursor.validity,
               !.last = CurrentCursor.last,
               !.rebuilding = staging.validity # 0]

\* The access token is there: the cursor is read and the thread starts.
ReadCursor(c) ==
  /\ phase = "up" /\ At(c, "token")
  /\ Goto(c, Started)
  /\ UNCHANGED <<tables, lock>> /\ Quiet

\* SELECT, and the search for the newest unseen UIDs.  validity is from now on
\* the UIDVALIDITY of this connection.
Select(c) ==
  /\ At(c, "select")
  /\ LET reset == ResetNeeded(session[c].validity)
         after == IF reset THEN 0 ELSE session[c].last
     IN  Goto(c, [session[c] EXCEPT
                    !.pc = "fetch", !.validity = epoch, !.reset = reset,
                    !.last = after, !.todo = Newest(Unseen(after), MaxMessages)])
  /\ UNCHANGED <<tables, lock>> /\ Quiet

\* The messages of the next batch are all still there; an empty mailbox still
\* makes one, empty, batch.
Fetch(c) ==
  /\ At(c, "fetch")
  /\ session[c].validity = epoch
  /\ LET batch == Oldest(session[c].todo, BatchSize)
     IN  /\ batch \subseteq inbox
         /\ Goto(c, [session[c] EXCEPT
                       !.pc = IF session[c].reset THEN "begin" ELSE "store",
                       !.batch = batch, !.todo = @ \ batch])
  /\ UNCHANGED <<tables, lock>> /\ Quiet

\* begin_mail_archive_rebuild
BeginRebuild(c) ==
  /\ At(c, "begin")
  /\ staged' = NoMessages
  /\ staging' = [validity |-> session[c].validity, last |-> 0]
  /\ rescanned' = [rescanned EXCEPT !.staged = {}]
  /\ Goto(c, [session[c] EXCEPT !.pc = "store", !.rebuilding = TRUE, !.reset = FALSE])
  /\ UNCHANGED <<archive, cursor, lock>> /\ Quiet

\* archive_mail_messages upserts the batch.
With(rows, s) == [u \in Uids |-> IF u \in s.batch THEN s.validity ELSE rows[u]]

\* The same for what the new release has read.
Reread(uids, s) == IF release.worker = 1 THEN uids \cup s.batch ELSE uids \ s.batch

Store(c) ==
  /\ At(c, "store")
  /\ IF session[c].rebuilding
       THEN /\ staged' = With(staged, session[c]) /\ UNCHANGED archive
            /\ rescanned' = [rescanned EXCEPT !.staged = Reread(@, session[c])]
       ELSE /\ archive' = With(archive, session[c]) /\ UNCHANGED staged
            /\ rescanned' = [rescanned EXCEPT !.archive = Reread(@, session[c])]
  /\ Goto(c, [session[c] EXCEPT
                !.pc = "advance", !.last = LastUid(@, session[c].batch, session[c].todo)])
  /\ UNCHANGED <<staging, cursor, lock>> /\ Quiet

\* update_mail_archive_cursor; the thread returns after the last batch, to a
\* coroutine that may be gone.
Advance(c) ==
  /\ At(c, "advance")
  /\ LET new == [validity |-> session[c].validity, last |-> session[c].last]
     IN  IF session[c].rebuilding
           THEN /\ staging' = IF staging.validity = new.validity THEN new ELSE staging
                /\ UNCHANGED cursor
           ELSE cursor' = new /\ UNCHANGED staging
  /\ IF session[c].todo # {} THEN Goto(c, [session[c] EXCEPT !.pc = "fetch", !.batch = {}])
     ELSE IF session[c].detached THEN Goto(c, Idle)
     ELSE Goto(c, [session[c] EXCEPT !.pc = "finish", !.batch = {}])
  /\ UNCHANGED <<archive, staged, rescanned, lock>> /\ Quiet

\* complete_mail_archive_rebuild, in one transaction, or
\* mark_mail_archive_synced, which leaves these tables alone.  RuntimeError when
\* the staging row is not this session's any more.
Finish(c) ==
  LET intact == session[c].rebuilding => staging.validity = session[c].validity
  IN  /\ At(c, "finish")
      /\ IF intact /\ session[c].rebuilding
           THEN /\ archive' = staged
                /\ cursor' = [validity |-> session[c].validity, last |-> session[c].last]
                /\ staged' = NoMessages
                /\ staging' = NoCursor
                /\ rescanned' = [archive |-> rescanned.staged, staged |-> {}]
           ELSE UNCHANGED tables
      /\ IF intact THEN Goto(c, [session[c] EXCEPT !.pc = "prune"]) /\ UNCHANGED lock
         ELSE Goto(c, Idle) /\ Release(c)
      /\ Quiet

\* prune_mail_archive ends the session.
Prune(c) ==
  /\ At(c, "prune")
  /\ archive' = [u \in Uids |-> IF u \in Beyond THEN 0 ELSE archive[u]]
  /\ Goto(c, Idle) /\ Release(c)
  /\ UNCHANGED <<staged, staging, cursor, rescanned>> /\ Quiet

\* The thread stops at a UID that is gone, or at a mailbox that is.
FetchFails(c) ==
  /\ At(c, "fetch")
  /\ session[c].validity # epoch \/ ~(Oldest(session[c].todo, BatchSize) \subseteq inbox)
  /\ Goto(c, Idle) /\ Release(c)
  /\ UNCHANGED tables /\ Quiet

\* TokenRefreshError, or MailboxError from the connection.
Fail(c) ==
  /\ failures < MaxFailures
  /\ session[c].pc \in {"token", "select", "fetch"}
  /\ failures' = failures + 1
  /\ Goto(c, Idle) /\ Release(c)
  /\ UNCHANGED <<server, tables, release, phase, kills, stops>>

\* prune_mail_archives_batch, by the scheduler and at start: it deletes by row
\* id what it read in an earlier transaction.  Ids are never reused and a row
\* beyond the limit stays beyond it, so any part of Beyond may go.
BatchPrune(S) ==
  /\ phase = "up" /\ S # {} /\ S \subseteq Beyond
  /\ archive' = [u \in Uids |-> IF u \in S THEN 0 ELSE archive[u]]
  /\ UNCHANGED <<staged, staging, cursor, rescanned, lock, session>> /\ Quiet

-----------------------------------------------------------------------------
(* The worker process                                                      *)

Start ==
  /\ phase = "down"
  /\ phase' = "up"
  /\ release' = [release EXCEPT !.worker = release.web]
  /\ UNCHANGED <<server, tables, lock, session, budget>>

Kill ==
  /\ phase # "down" /\ kills < MaxKills
  /\ phase' = "down" /\ lock' = NoOne
  /\ session' = [c \in Callers |-> Idle]
  /\ kills' = kills + 1
  /\ UNCHANGED <<server, tables, release, failures, stops>>

\* SIGTERM.  Tasks are cancelled at their await, job workers before the poll
\* worker; a thread cannot be.  A poll worker that waits for the lock of a
\* cancelled job may still take it, read the cursor and start its own thread
\* before its turn comes.  The steps after the thread have no await, so a
\* session in them is let through first.
Stop(handover) ==
  /\ phase = "up" /\ stops < MaxStops
  /\ \A c \in Callers : session[c].pc \notin {"finish", "prune"}
  /\ handover => Handovers /\ At(Poll, "wait") /\ lock \notin {NoOne, Poll}
  /\ phase' = "stopping" /\ lock' = NoOne /\ stops' = stops + 1
  /\ session' = [c \in Callers |->
       IF session[c].pc \in InThread THEN [session[c] EXCEPT !.detached = TRUE]
       ELSE IF c = Poll /\ handover THEN [Started EXCEPT !.detached = TRUE]
       ELSE Idle]
  /\ UNCHANGED <<server, tables, release, failures, kills>>

\* asyncio.run waits for the executor's threads before the process ends.
Exit ==
  /\ phase = "stopping"
  /\ \A c \in Callers : At(c, "idle")
  /\ phase' = "down"
  /\ UNCHANGED <<server, tables, release, lock, session, budget>>

\* Store.initialize of a web process with a new rule for recipients: every mailbox
\* is to be scanned again, and a rebuild that the old release began is dropped.
Upgrade ==
  /\ release.web < MaxUpgrades /\ (SideBySide \/ phase = "down")
  /\ release' = [release EXCEPT !.web = @ + 1]
  /\ staged' = NoMessages /\ staging' = NoCursor
  /\ rescanned' = [rescanned EXCEPT !.staged = {}]
  /\ cursor' = [cursor EXCEPT !.last = RescanFrom(@)]
  /\ UNCHANGED <<server, archive, phase, lock, session, budget>>

-----------------------------------------------------------------------------
Step(c) ==
  \/ Acquire(c) \/ ReadCursor(c) \/ Select(c) \/ Fetch(c) \/ FetchFails(c)
  \/ BeginRebuild(c) \/ Store(c) \/ Advance(c) \/ Finish(c) \/ Prune(c)

Server == Deliver \/ (\E u \in Uids : Expunge(u)) \/ (\E k \in 0 .. MaxUid : ChangeValidity(k))
Sync == \E c \in Callers : Ask(c) \/ Step(c) \/ Fail(c)
Process == Start \/ Kill \/ (\E handover \in BOOLEAN : Stop(handover)) \/ Exit \/ Upgrade
PruneSome == \E S \in SUBSET Uids : BatchPrune(S)

Next == Server \/ Sync \/ Process \/ PruneSome

\* The scheduler enqueues a due mailbox and prunes in every round, asyncio.Lock
\* is first-in first-out, and HTTP, IMAP and SQLite calls have timeouts.
Fairness ==
  /\ WF_vars(Start) /\ WF_vars(Exit) /\ WF_vars(PruneSome)
  /\ WF_vars(Ask(Poll))
  /\ SF_vars(Acquire(Poll))
  /\ \A c \in Callers : WF_vars(Step(c))

Spec == Init /\ [][Next]_vars
FairSpec == Spec /\ Fairness

-----------------------------------------------------------------------------
(* Properties                                                              *)

CursorRow == [validity : 0 .. MaxEpoch, last : 0 .. MaxUid]

\* Every variable holds a value of its type.
TypeOK ==
  /\ inbox \subseteq Uids /\ epoch \in Epochs /\ uidnext \in 1 .. (MaxUid + 1)
  /\ archive \in [Uids -> 0 .. MaxEpoch] /\ staged \in [Uids -> 0 .. MaxEpoch]
  /\ staging \in CursorRow /\ cursor \in CursorRow
  /\ rescanned \in [archive : SUBSET Uids, staged : SUBSET Uids]
  /\ release \in [web : 0 .. MaxUpgrades, worker : 0 .. MaxUpgrades]
  /\ phase \in {"up", "stopping", "down"} /\ lock \in Callers \cup {NoOne}
  /\ session \in
       [Callers -> [pc : {"idle", "wait", "token", "finish", "prune"} \cup InThread,
                    validity : 0 .. MaxEpoch, last : 0 .. MaxUid, rebuilding : BOOLEAN,
                    reset : BOOLEAN, todo : SUBSET Uids, batch : SUBSET Uids,
                    detached : BOOLEAN]]
  /\ {failures, kills, stops} \subseteq Nat

\* Every message that is at or below a cursor and still in the mailbox is in
\* the rows the cursor speaks for, unless MaxMessages newer ones were delivered.
Covered(rows, c) ==
  c.validity = epoch =>
    \A u \in inbox : u <= c.last => rows[u] = epoch \/ uidnext - 1 - u >= MaxMessages

\* "More than one page of unseen IMAP messages is archived without gaps": no
\* crash, failure or change of UIDVALIDITY leaves a cursor ahead of its rows.
NoGap == Covered(archive, cursor) /\ (staging.validity # 0 => Covered(staged, staging))

\* store.py: after a change of the rules for recipients the archive is scanned
\* again.  A message at or below the cursor has been read by the new release as
\* soon as its web process has started, whatever the old worker left unfinished.
\* (It is not when that worker still runs: the property is for SideBySide = FALSE.)
Rescanned ==
  release.web = 1 /\ cursor.validity = epoch =>
    \A u \in inbox : u <= cursor.last =>
      u \in rescanned.archive \/ uidnext - 1 - u >= MaxMessages

\* "A replacement snapshot is staged before the existing archive is atomically
\* replaced": a reader never sees messages of two epochs side by side.
NoMixture ==
  \A u, v \in Uids :
    /\ archive[u] # 0 /\ archive[v] # 0 => archive[u] = archive[v]
    /\ staged[u] # 0 => staged[u] = staging.validity

\* complete_mail_archive_rebuild never finds its staging row changed.
RebuildIntact ==
  \A c \in Callers :
    At(c, "finish") /\ session[c].rebuilding => staging.validity = session[c].validity

\* A cursor only moves forward while UIDVALIDITY stays the same, but for a rescan,
\* as long as no orderly stop hands the mailbox from one thread to another: two
\* threads write their cursors in either order, and the next sync reads again
\* what is above the lower one.
CursorMonotone ==
  [][cursor'.validity = cursor.validity /\ release'.web = release.web => cursor'.last >= cursor.last]_vars

\* The UIDVALIDITY that a cursor stands for: 0, before the first cursor, stands
\* for the first one.
Home(validity) == IF validity = 0 THEN 1 ELSE validity

\* The archive is the pages of MailPages: whatever sessions, crashes and changes of
\* UIDVALIDITY do, an archive is replaced in one step by one of a later
\* UIDVALIDITY, and loses nothing otherwise but what is beyond the limit.
Pages == INSTANCE MailPages WITH
  Limit <- MaxMessages,
  shown <- {<<archive[u], u>> : u \in Stored},
  validity <- Home(cursor.validity)
PagesSpec == Pages!Spec

\* A stopped or killed session leaves the archive above MAIL_ARCHIVE_MAX_MESSAGES
\* only until the next round of pruning.
RetentionRestored ==
  Cardinality(Stored) > MaxMessages ~> Cardinality(Stored) <= MaxMessages

\* A message that stays in the mailbox is archived, unless it is outnumbered by
\* newer ones.
Archived ==
  \A u \in Uids, e \in Epochs :
    epoch = e /\ u \in inbox ~>
      \/ archive[u] = e
      \/ epoch # e \/ u \notin inbox
      \/ uidnext - 1 - u >= MaxMessages

=============================================================================
