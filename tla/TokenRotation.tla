--------------------------- MODULE TokenRotation ---------------------------
(***************************************************************************)
(* The credentials of one mailbox and their status: who asks Microsoft for *)
(* new tokens, what an answer does to the row of accounts, and what the    *)
(* web process does to the same row meanwhile.                             *)
(*                                                                         *)
(* In the worker process two callers at a time want a token: the worker of *)
(* RefreshCoordinator that has the mailbox in its queue, and the one sync  *)
(* session that holds the mailbox's sync lock.  The web process replaces   *)
(* the credentials by an import; each is a grant of its own, and a refresh *)
(* token is its grant and its rotation.  Device authorizations, which      *)
(* import too, are in DeviceFlow.                                          *)
(***************************************************************************)
EXTENDS Naturals

CONSTANTS
  MaxGrants,      \* bound: grants, the first included
  MaxRotations,   \* bound: refresh tokens issued for a grant
  MaxRestarts,    \* bound: restarts of the worker process
  Retries         \* length of TRANSIENT_RETRY_DELAYS

ASSUME BoundsAssumption ==
  {MaxGrants, MaxRotations, MaxRestarts, Retries} \subseteq Nat /\ MaxGrants > 0

VARIABLES
  row,        \* the credentials, the status and the schedule in accounts
  granted,    \* grants so far
  issued,     \* the last rotation of each grant, at Microsoft
  revoked,    \* grants Microsoft refuses
  queue,      \* what the schedulers have put in their queues
  call,       \* the coroutine of each caller
  restarts

tokenVars == <<row, granted, issued, revoked, queue, call, restarts>>
microsoft == <<issued, revoked>>

Grants == 1 .. MaxGrants
Rotations == 0 .. MaxRotations
Callers == {"rotate", "sync"}
Modes == {"rotate", "full", "mail", "poll"}

\* The row import_accounts leaves.
Imported(g) ==
  [client |-> g, token |-> <<g, 0>>, access |-> "none", recent |-> FALSE,
   due |-> "due", status |-> "pending"]

NoRequest == [client |-> 0, token |-> <<0, 0>>, usable |-> FALSE, answer |-> "none"]

Idle == [pc |-> "idle", mode |-> "rotate", tries |-> 0, request |-> NoRequest,
         permanent |-> FALSE]

Init ==
  /\ row = Imported(1) /\ granted = 1
  /\ issued = [g \in Grants |-> 0] /\ revoked = {}
  /\ queue = {} /\ call = [c \in Callers |-> Idle]
  /\ restarts = 0

-----------------------------------------------------------------------------
(* Decisions of the code                                                   *)

\* Mutant: a lock per call instead of one per account.
LockOfCall == TRUE

\* MicrosoftTokenService._lock_for(account_id) is free.
LockFree == \A c \in Callers : call[c].pc # "request"

\* Mutants: any valid token is good enough, or none is.
ReusableWhileValid == row.access = "valid"
ReusableNever == FALSE

\* refresh_account sends no request for a token that is minutes old.
Reusable == row.access = "valid" /\ row.recent

\* due_account_ids
RotationDue == row.due = "due" /\ row.status # "invalid"

\* due_archive_account_ids, as far as these columns decide.
PollDue ==
  /\ row.status # "invalid"
  /\ row.status = "error" => row.access = "valid" \/ row.due # "later"

\* Mutant: the answer's error code becomes the status.
VerdictCode(permanent) == IF permanent THEN "invalid_grant" ELSE "error"

\* The status of a failure, for mark_refresh_failure and mark_full_refresh_failure.
Verdict(permanent) == IF permanent THEN "invalid" ELSE "error"

\* The status of a mailbox that could be read, for mark_mail_archive_synced,
\* complete_mail_archive_rebuild and mark_full_refresh_succeeded.
Working(status) == IF status = "invalid" THEN status ELSE "active"

\* update_tokens; without a new refresh token the row keeps the one it has.
WithTokens(token) ==
  [row EXCEPT !.token = token, !.access = "valid", !.recent = TRUE,
              !.due = "later", !.status = "active"]

At(c, pc) == call[c].pc = pc
Goto(c, pc) == call' = [call EXCEPT ![c].pc = pc]
EndOf(c) == call' = [call EXCEPT ![c] = Idle]

\* A caller has its token: the rotation is done, the session reads the mailbox.
Served(c) ==
  IF c = "rotate" THEN EndOf(c)
  ELSE call' = [call EXCEPT ![c].pc = "imap", ![c].request = NoRequest]

\* The session ends without a retry.
GivesUp(c, permanent) ==
  IF c = "rotate" THEN EndOf(c)
  ELSE call' = [call EXCEPT ![c].pc = "failed", ![c].request = NoRequest,
                  ![c].permanent = permanent]

\* _sync_account tries again, from the start, what failed for the moment; the
\* poll worker and the rotation leave it at that.
Unserved(c) ==
  IF c = "sync" /\ call[c].mode # "poll" /\ call[c].tries < Retries
    THEN call' = [call EXCEPT ![c].pc = "start", ![c].request = NoRequest,
                    ![c].tries = @ + 1]
    ELSE GivesUp(c, FALSE)

-----------------------------------------------------------------------------
(* The worker process                                                      *)

EnqueueRotation ==
  /\ RotationDue /\ At("rotate", "idle") /\ "rotate" \notin queue
  /\ queue' = queue \cup {"rotate"}
  /\ UNCHANGED <<row, call, microsoft, granted, restarts>>

EnqueuePoll ==
  /\ PollDue /\ "poll" \notin queue
  /\ At("sync", "idle") \/ call["sync"].mode # "poll"
  /\ queue' = queue \cup {"poll"}
  /\ UNCHANGED <<row, call, microsoft, granted, restarts>>

\* RefreshCoordinator._worker does not look at the account again.
TakeRotation ==
  /\ "rotate" \in queue /\ At("rotate", "idle")
  /\ queue' = queue \ {"rotate"}
  /\ Goto("rotate", "wait")
  /\ UNCHANGED <<row, microsoft, granted, restarts>>

\* A session of the poll worker, or of a job item, begins.
BeginSync(mode) ==
  /\ At("sync", "idle")
  /\ mode = "poll" => "poll" \in queue
  /\ queue' = IF mode = "poll" THEN queue \ {"poll"} ELSE queue
  /\ call' = [call EXCEPT !["sync"] = [Idle EXCEPT !.pc = "start", !.mode = mode]]
  /\ UNCHANGED <<row, microsoft, granted, restarts>>

\* get_access_token
GetAccessToken ==
  /\ At("sync", "start")
  /\ IF row.access = "valid" THEN Served("sync") ELSE Goto("sync", "wait")
  /\ UNCHANGED <<row, queue, microsoft, granted, restarts>>

\* refresh_account, from the lock to the POST: the request is made of the row
\* as it is now.
RefreshAccount(c) ==
  /\ At(c, "wait") /\ LockFree
  /\ IF Reusable THEN Served(c)
     ELSE call' = [call EXCEPT ![c].pc = "request",
                     ![c].request = [client |-> row.client, token |-> row.token,
                                     usable |-> row.access = "valid", answer |-> "none"]]
  /\ UNCHANGED <<row, queue, microsoft, granted, restarts>>

\* The answer is here: update_tokens, whatever the row holds by now.
Rotated(c) ==
  /\ At(c, "request") /\ call[c].request.answer \in {"access", "tokens"}
  /\ row' = WithTokens(IF call[c].request.answer = "tokens" THEN call[c].request.token
                       ELSE row.token)
  /\ Served(c)
  /\ UNCHANGED <<queue, microsoft, granted, restarts>>

\* _record_failure with permanent
Refused(c) ==
  /\ At(c, "request") /\ call[c].request.answer = "refused"
  /\ row' = [row EXCEPT !.status = Verdict(TRUE), !.due = "never"]
  /\ GivesUp(c, TRUE)
  /\ UNCHANGED <<queue, microsoft, granted, restarts>>

\* A network error, a timeout, an error of Microsoft's that will pass: the
\* tokens may have been issued.  The access token the request began with may
\* have expired while it was out.
Unanswered(c, usable) ==
  /\ At(c, "request")
  /\ usable => call[c].request.usable
  /\ row' = [row EXCEPT !.status = IF usable THEN "active" ELSE Verdict(FALSE), !.due = "later"]
  /\ Unserved(c)
  /\ UNCHANGED <<queue, microsoft, granted, restarts>>

\* mark_mail_archive_synced or complete_mail_archive_rebuild, and for a full item
\* mark_full_refresh_succeeded, which does the same to the status and comes
\* after it without an await: no rotation falls in between, and an import that
\* does leaves what an import before both would.
ImapSucceeds ==
  /\ At("sync", "imap")
  /\ row' = [row EXCEPT !.status = Working(@)]
  /\ EndOf("sync")
  /\ UNCHANGED <<queue, microsoft, granted, restarts>>

\* MailboxError, retried unless it says authentication_failed
ImapFails ==
  /\ At("sync", "imap")
  /\ Unserved("sync") \/ GivesUp("sync", FALSE)
  /\ UNCHANGED <<row, queue, microsoft, granted, restarts>>

\* mark_full_refresh_failure; the other modes leave the status alone.
MarkFailure ==
  /\ At("sync", "failed")
  /\ row' = IF call["sync"].mode = "full"
              THEN [row EXCEPT !.status = Verdict(call["sync"].permanent)] ELSE row
  /\ EndOf("sync")
  /\ UNCHANGED <<queue, microsoft, granted, restarts>>

\* The worker process dies, and is started again.
Restart ==
  /\ restarts < MaxRestarts
  /\ restarts' = restarts + 1
  /\ call' = [c \in Callers |-> Idle]
  /\ queue' = {}
  /\ UNCHANGED <<row, microsoft, granted>>

-----------------------------------------------------------------------------
(* The web process                                                         *)

\* import_accounts: of a job's worth of credentials, this mailbox's.
Import ==
  /\ granted < MaxGrants
  /\ granted' = granted + 1
  /\ row' = Imported(granted')
  /\ UNCHANGED <<queue, call, microsoft, restarts>>

-----------------------------------------------------------------------------
(* Microsoft and time                                                      *)

\* Tokens are issued, with a new refresh token or without.
Issue(c, n) ==
  LET g == call[c].request.token[1]
  IN  /\ At(c, "request") /\ call[c].request.answer = "none"
      /\ g \notin revoked
      /\ n \in {issued[g], issued[g] + 1} /\ n <= MaxRotations
      /\ issued' = [issued EXCEPT ![g] = n]
      /\ call' = [call EXCEPT
                    ![c].request.answer = IF n = issued[g] THEN "access" ELSE "tokens",
                    ![c].request.token = <<g, n>>]
      /\ UNCHANGED <<row, queue, revoked, granted, restarts>>

\* The grant is revoked, or the token is not one of this client's.
Refuse(c) ==
  LET g == call[c].request.token[1]
  IN  /\ At(c, "request") /\ call[c].request.answer = "none"
      /\ g \in revoked \/ g # call[c].request.client
      /\ call' = [call EXCEPT ![c].request.answer = "refused"]
      /\ UNCHANGED <<row, queue, microsoft, granted, restarts>>

Revoke(g) ==
  /\ g \notin revoked
  /\ revoked' = revoked \cup {g}
  /\ UNCHANGED <<row, queue, issued, call, granted, restarts>>

AccessExpires ==
  /\ row.access = "valid"
  /\ row' = [row EXCEPT !.access = "expired"]
  /\ UNCHANGED <<queue, call, microsoft, granted, restarts>>

QuarterPasses ==
  /\ row.recent
  /\ row' = [row EXCEPT !.recent = FALSE]
  /\ UNCHANGED <<queue, call, microsoft, granted, restarts>>

\* At least half an hour after next_refresh_at was set.
FallsDue ==
  /\ row.due = "later" /\ ~row.recent
  /\ row' = [row EXCEPT !.due = "due"]
  /\ UNCHANGED <<queue, call, microsoft, granted, restarts>>

-----------------------------------------------------------------------------
Ends(c) == Rotated(c) \/ Refused(c) \/ \E usable \in BOOLEAN : Unanswered(c, usable)
Session == GetAccessToken \/ ImapSucceeds \/ ImapFails \/ MarkFailure
Worker ==
  \/ EnqueueRotation \/ EnqueuePoll \/ TakeRotation \/ Session \/ Restart
  \/ \E mode \in Modes \ {"rotate"} : BeginSync(mode)
  \/ \E c \in Callers : RefreshAccount(c) \/ Ends(c)
Microsoft ==
  \/ \E c \in Callers : Refuse(c) \/ \E n \in Rotations : Issue(c, n)
  \/ \E g \in Grants : Revoke(g)
Time == AccessExpires \/ QuarterPasses \/ FallsDue

Next == Worker \/ Import \/ Microsoft \/ Time

\* The scheduler runs every round, tasks run, asyncio.Lock serves its waiters in
\* turn, HTTP and IMAP calls have timeouts.
Fairness ==
  /\ WF_tokenVars(EnqueueRotation) /\ WF_tokenVars(TakeRotation)
  /\ SF_tokenVars(RefreshAccount("rotate")) /\ WF_tokenVars(RefreshAccount("sync"))
  /\ \A c \in Callers : WF_tokenVars(Ends(c))
  /\ WF_tokenVars(Session)

Spec == Init /\ [][Next]_tokenVars
FairSpec == Spec /\ Fairness

-----------------------------------------------------------------------------
(* Properties                                                              *)

\* Every variable holds a value of its type.
TypeOK ==
  /\ row \in [client : Grants, token : Grants \X Rotations,
              access : {"none", "valid", "expired"}, recent : BOOLEAN,
              due : {"due", "later", "never"},
              status : {"pending", "active", "error", "invalid"}]
  /\ granted \in Grants /\ issued \in [Grants -> Rotations] /\ revoked \subseteq Grants
  /\ queue \subseteq {"rotate", "poll"}
  /\ call \in [Callers ->
       [pc : {"idle", "start", "wait", "request", "imap", "failed"},
        mode : Modes, tries : 0 .. Retries, permanent : BOOLEAN,
        request : [client : 0 .. MaxGrants, token : (0 .. MaxGrants) \X Rotations,
                   usable : BOOLEAN, answer : {"none", "access", "tokens", "refused"}]]]
  /\ restarts \in Nat

\* README: "store the latest token".  No step replaces a refresh token by one that
\* Microsoft issued earlier on the same grant, whichever answer comes first.
TokenNeverOlder ==
  [][row'.token[1] = row.token[1] => row'.token[2] >= row.token[2]]_tokenVars

\* RefreshCoordinator is there to keep several tasks from rotating one token, and
\* refresh_account has automatic tasks reuse a fresh one: the scheduled rotation,
\* the poll worker and a mail item store no new token over one that is minutes
\* old, also when they waited at the lock while another caller rotated it.  A full
\* item is left out: a comment there asks it to verify the refresh token itself.
NoNeedlessRotation ==
  [][\A c \in Callers :
       At(c, "request") /\ call'[c].pc # "request" /\ call[c].mode # "full"
         /\ row'.token[1] = row.token[1] /\ row'.token # row.token
         => ~(row.access = "valid" /\ row.recent)]_tokenVars

\* README: "Refresh Microsoft OAuth refresh tokens on a configurable schedule".  A
\* due rotation does not stay due, through errors, restarts and other sessions.
DueIsRotated == RotationDue ~> ~RotationDue

\* README: "store the latest token".  The stored refresh token belongs to the
\* credentials the owner gave last, and so goes with the stored client.
LatestGrantStored == row.token[1] = row.client

=============================================================================
