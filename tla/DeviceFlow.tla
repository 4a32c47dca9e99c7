----------------------------- MODULE DeviceFlow -----------------------------
(***************************************************************************)
(* Device authorizations of one mailbox: the rows of oauth_device_flows,   *)
(* the requests that ask Microsoft whether the owner has entered the code, *)
(* and what they write to the row of accounts.                             *)
(*                                                                         *)
(* The browser may send a request for the same flow from two tabs.  A      *)
(* request gives the event loop away only while it waits for Microsoft:    *)
(* from the answer on, its transactions are separated by those of the      *)
(* worker process alone.  What that process writes to the account is taken *)
(* from TokenRotation, less the calls it makes to get there.               *)
(***************************************************************************)
EXTENDS Naturals, FiniteSets

CONSTANTS
  Flows,            \* device authorizations started for the mailbox
  Requests,         \* requests to complete one, at a time
  MaxImports,       \* bound: imports of other credentials meanwhile
  MaxWebRestarts    \* bound: restarts of the web process

ASSUME BoundsAssumption ==
  {MaxImports, MaxWebRestarts} \subseteq Nat /\ IsFiniteSet(Flows)

VARIABLES
  flow,         \* the rows of oauth_device_flows
  verdict,      \* what Microsoft makes of each device code
  request,      \* where each request to complete a flow is
  stored,       \* the grant a flow has stored, or 0
  account,      \* the credentials and the status in accounts
  owner,        \* whether the owner of flows and mailbox is there
  granted,      \* grants stored so far, the mailbox's first included
  imports, webRestarts

vars == <<flow, verdict, request, stored, account, owner, granted, imports, webRestarts>>
bounds == <<imports, webRestarts>>

NoFlow == [status |-> "none", code |-> FALSE, late |-> FALSE]
Deleted == [NoFlow EXCEPT !.status = "gone"]
NoAccount == [client |-> 0, access |-> "none", status |-> "gone"]
Pcs == {"asked", "refused", "tokens", "imported", "stored"}
Idle == [pc |-> "idle"]
At(r, pc, f) == request[r] = [pc |-> pc, flow |-> f]
To(r, pc, f) == request' = [request EXCEPT ![r] = [pc |-> pc, flow |-> f]]
Ends(r) == request' = [request EXCEPT ![r] = Idle]

\* The account import_accounts leaves.
Imported(g) == [client |-> g, access |-> "none", status |-> "pending"]

Init ==
  /\ flow = [f \in Flows |-> NoFlow] /\ verdict = [f \in Flows |-> "waiting"]
  /\ request = [r \in Requests |-> Idle] /\ stored = [f \in Flows |-> 0]
  /\ account = Imported(1) /\ owner = TRUE /\ granted = 1
  /\ imports = 0 /\ webRestarts = 0

-----------------------------------------------------------------------------
\* Mutants: the code is cleared on an error only; the status is Microsoft's code;
\* the flow is finished before update_tokens.
FinalUncleared(f, status) == [flow[f] EXCEPT !.status = status, !.code = @ /\ status # "failed"]
FinalByCode(f, status) ==
  [flow[f] EXCEPT !.status = IF status = "failed" THEN "expired_token" ELSE status,
                  !.code = FALSE]
ImportedOnly(r, f) == At(r, "imported", f)

\* finish_oauth_device_flow writes over any status, ...
Final(f, status) == [flow[f] EXCEPT !.status = status, !.code = FALSE]

\* ... if the row is there.
Finished(f, status) ==
  [flow EXCEPT ![f] = IF @ = Deleted THEN @ ELSE Final(f, status)]

Busy == {"imported", "stored"}

\* No request is between two of its transactions.
LoopFree == \A r \in Requests : request[r].pc \notin Busy

\* Both the import and the tokens are committed.
TokensStored(r, f) == At(r, "stored", f)

Pending(f) == flow[f].status = "pending"

\* start_oauth_device_authorization, once Microsoft has given a code
StartFlow(f) ==
  /\ LoopFree /\ owner /\ flow[f].status = "none"
  /\ flow' = [flow EXCEPT ![f].status = "pending", ![f].code = TRUE]
  /\ UNCHANGED <<verdict, request, stored, account, owner, granted, bounds>>

\* An authorization of another mailbox is started: flows that ran out a day ago
\* are deleted.  No request waits that long.
StartOther(f) ==
  /\ LoopFree /\ flow[f].late /\ \A r \in Requests : ~\E pc \in Pcs : At(r, pc, f)
  /\ flow' = [flow EXCEPT ![f] = Deleted]
  /\ UNCHANGED <<verdict, request, stored, account, owner, granted, bounds>>

\* complete_oauth_device_authorization up to the request to Microsoft
AskMicrosoft(r, f) ==
  /\ LoopFree /\ request[r] = Idle /\ Pending(f)
  /\ IF flow[f].late THEN flow' = Finished(f, "expired") /\ UNCHANGED request
     ELSE To(r, "asked", f) /\ UNCHANGED flow
  /\ UNCHANGED <<verdict, stored, account, owner, granted, bounds>>

\* authorization_declined, expired_token, bad_verification_code
RecordRefusal(r, f) ==
  /\ LoopFree /\ At(r, "refused", f)
  /\ flow' = Finished(f, "failed") /\ Ends(r)
  /\ UNCHANGED <<verdict, stored, account, owner, granted, bounds>>

\* import_accounts, ...
StoreGrant(r, f) ==
  /\ LoopFree /\ At(r, "tokens", f) /\ owner
  /\ granted' = granted + 1 /\ account' = Imported(granted')
  /\ stored' = [stored EXCEPT ![f] = granted'] /\ To(r, "imported", f)
  /\ UNCHANGED <<flow, verdict, owner, bounds>>

\* The owner was deleted meanwhile: the INSERT fails.
FailStoring(r, f) ==
  /\ LoopFree /\ At(r, "tokens", f) /\ ~owner
  /\ Ends(r)
  /\ UNCHANGED <<flow, verdict, stored, account, owner, granted, bounds>>

\* ... update_tokens, ...
StoreTokens(r, f) ==
  /\ At(r, "imported", f)
  /\ account' = [account EXCEPT !.access = "valid", !.status = "active"]
  /\ To(r, "stored", f)
  /\ UNCHANGED <<flow, verdict, stored, owner, granted, bounds>>

\* ... finish_oauth_device_flow: three transactions.
Complete(r, f) ==
  /\ TokensStored(r, f)
  /\ flow' = Finished(f, "completed") /\ Ends(r)
  /\ UNCHANGED <<verdict, stored, account, owner, granted, bounds>>

\* The owner imports other credentials.
ImportOther ==
  /\ LoopFree /\ owner /\ imports < MaxImports
  /\ imports' = imports + 1
  /\ granted' = granted + 1 /\ account' = Imported(granted')
  /\ UNCHANGED <<flow, verdict, request, stored, owner, webRestarts>>

DeleteMailbox ==
  /\ LoopFree /\ account # NoAccount
  /\ account' = NoAccount
  /\ UNCHANGED <<flow, verdict, request, stored, owner, granted, bounds>>

\* With the owner go the flows and the mailbox.
DeleteOwner ==
  /\ LoopFree /\ owner
  /\ owner' = FALSE /\ account' = NoAccount
  /\ flow' = [f \in Flows |-> Deleted]
  /\ UNCHANGED <<verdict, request, stored, granted, bounds>>

\* The web process dies and is started again; its requests are gone.
WebRestart ==
  /\ webRestarts < MaxWebRestarts
  /\ webRestarts' = webRestarts + 1
  /\ request' = [r \in Requests |-> Idle]
  /\ UNCHANGED <<flow, verdict, stored, account, owner, granted, imports>>

-----------------------------------------------------------------------------
(* The worker process, as TokenRotation has it                             *)

\* update_tokens, with whatever credentials the account has by now
Rotate == account' = [account EXCEPT !.access = "valid", !.status = "active"]

\* A failure, permanent or not, or a session that worked
MarkStatus == \E status \in {"active", "error", "invalid"} :
                account' = [account EXCEPT !.status = status]

AccessExpires ==
  /\ account.access = "valid"
  /\ account' = [account EXCEPT !.access = "expired"]

Worker ==
  /\ account # NoAccount
  /\ Rotate \/ MarkStatus \/ AccessExpires
  /\ UNCHANGED <<flow, verdict, request, stored, owner, granted, bounds>>

-----------------------------------------------------------------------------
(* Microsoft, the owner and time                                           *)

\* The owner answers on Microsoft's page, or the code runs out there.
Decide(f) ==
  /\ flow[f] # NoFlow /\ verdict[f] = "waiting"
  /\ \E outcome \in {"approved", "refused"} :
       verdict' = [verdict EXCEPT ![f] = outcome]
  /\ UNCHANGED <<flow, request, stored, account, owner, granted, bounds>>

\* A code is redeemed once.
Redeemed(f) == IF verdict[f] = "approved" THEN "redeemed" ELSE verdict[f]

\* What Microsoft says of a code it has redeemed is an error, which the request
\* may or may not take for the end of the flow.
Answers(f) ==
  CASE verdict[f] = "waiting"  -> {"idle"}
    [] verdict[f] = "approved" -> {"tokens"}
    [] verdict[f] = "refused"  -> {"refused"}
    [] verdict[f] = "redeemed" -> {"refused", "idle"}

AnswerCode(r, f) ==
  /\ At(r, "asked", f)
  /\ verdict' = [verdict EXCEPT ![f] = Redeemed(f)]
  /\ \E answer \in Answers(f) :
       IF answer = "idle" THEN Ends(r) ELSE To(r, answer, f)
  /\ UNCHANGED <<flow, stored, account, owner, granted, bounds>>

\* The request or its answer is lost: HTTP 502, the flow stays as it is.
LoseAnswer(r, f) ==
  /\ At(r, "asked", f)
  /\ \E now \in {verdict[f], Redeemed(f)} : verdict' = [verdict EXCEPT ![f] = now]
  /\ Ends(r)
  /\ UNCHANGED <<flow, stored, account, owner, granted, bounds>>

\* expires_at has passed.
FlowExpires(f) ==
  /\ flow[f] \notin {NoFlow, Deleted} /\ ~flow[f].late
  /\ flow' = [flow EXCEPT ![f].late = TRUE]
  /\ UNCHANGED <<verdict, request, stored, account, owner, granted, bounds>>

-----------------------------------------------------------------------------
Answered(r, f) == \E pc \in {"refused", "tokens"} \cup Busy : At(r, pc, f)

Proceed(r, f) ==
  \/ RecordRefusal(r, f) \/ FailStoring(r, f)
  \/ StoreGrant(r, f) \/ StoreTokens(r, f) \/ Complete(r, f)

Next ==
  \/ Worker \/ ImportOther \/ DeleteMailbox \/ DeleteOwner \/ WebRestart
  \/ \E f \in Flows :
       \/ StartFlow(f) \/ StartOther(f) \/ Decide(f) \/ FlowExpires(f)
       \/ \E r \in Requests : AskMicrosoft(r, f) \/ AnswerCode(r, f) \/ LoseAnswer(r, f)
                                \/ Proceed(r, f)

\* The event loop resumes, in turn, the requests whose answers are there.
Fairness == \A r \in Requests, f \in Flows : SF_vars(Proceed(r, f))

Spec == Init /\ [][Next]_vars /\ Fairness

-----------------------------------------------------------------------------
(* Properties                                                              *)

\* Every variable holds a value of its type.
TypeOK ==
  LET grants == 1 .. 1 + MaxImports + Cardinality(Flows)
  IN  /\ flow \in [Flows -> [status : {"none", "pending", "completed", "failed", "expired",
                                        "gone"},
                             code : BOOLEAN, late : BOOLEAN]]
      /\ verdict \in [Flows -> {"waiting", "approved", "refused", "redeemed"}]
      /\ request \in [Requests -> {Idle} \cup
           [pc : Pcs, flow : Flows]]
      /\ stored \in [Flows -> {0} \cup grants] /\ granted \in grants
      /\ account \in {NoAccount} \cup
           [client : grants, access : {"none", "valid", "expired"},
            status : {"pending", "active", "error", "invalid"}]
      /\ owner \in BOOLEAN
      /\ imports \in 0 .. MaxImports /\ webRestarts \in 0 .. MaxWebRestarts

\* README: "Add an Outlook account through Microsoft device authorization".
\* Whatever the worker process and a crash do between the transactions, a flow
\* that says completed has stored its credentials and an access token, unless
\* the owner has given other credentials or deleted the mailbox since.
CompletedIsStored ==
  \A f \in Flows : flow[f].status = "completed" =>
    /\ stored[f] # 0
    /\ account = NoAccount \/ account.client >= stored[f]
    /\ account.client = stored[f] => account.access # "none" /\ account.status # "pending"

\* README: "The device code ... is cleared after authorization completes or fails".
\* Once a request has Microsoft's last word on the code, the code is cleared,
\* unless the web process dies before.  A code that Microsoft has redeemed in an
\* answer that was lost has nobody who knows: it stays until another request is
\* refused, or the flow is purged.
CodeCleared ==
  \A f \in Flows :
    webRestarts = MaxWebRestarts /\ (\E r \in Requests : Answered(r, f)) ~> ~flow[f].code

=============================================================================
