--------------------------- MODULE DeviceFlowProofs ---------------------------
(***************************************************************************)
(* Safety of device authorizations for any flows, requests and bounds: how *)
(* many grants there can be, and what a completed flow has stored.         *)
(***************************************************************************)
EXTENDS DeviceFlow, FiniteSetTheorems, TLAPS

\* TypeOK without the bound on the number of grants.
Shape ==
  /\ flow \in [Flows -> [status : {"none", "pending", "completed", "failed", "expired", "gone"},
                         code : BOOLEAN, late : BOOLEAN]]
  /\ verdict \in [Flows -> {"waiting", "approved", "refused", "redeemed"}]
  /\ request \in [Requests -> {Idle} \cup [pc : Pcs, flow : Flows]]
  /\ stored \in [Flows -> Nat] /\ granted \in Nat \ {0}
  /\ account \in {NoAccount} \cup
       [client : Nat \ {0}, access : {"none", "valid", "expired"},
        status : {"pending", "active", "error", "invalid"}]
  /\ owner \in BOOLEAN
  /\ imports \in 0 .. MaxImports /\ webRestarts \in 0 .. MaxWebRestarts

\* A code is redeemed once, so one request has its tokens, and stores them once.
RedeemedOnce ==
  \A f \in Flows :
    /\ stored[f] # 0 => verdict[f] = "redeemed"
    /\ \A r \in Requests : At(r, "tokens", f) => verdict[f] = "redeemed" /\ stored[f] = 0
    /\ \A r, s \in Requests : At(r, "tokens", f) /\ At(s, "tokens", f) => r = s

\* Where the grants come from; none is newer than the last.
Accounted ==
  /\ granted <= 1 + imports + Cardinality({f \in Flows : stored[f] # 0})
  /\ \A f \in Flows : stored[f] <= granted
  /\ account.client <= granted

\* One request at a time is between its transactions, and the account is the one
\* it has imported, with tokens once they are stored.
InTransaction ==
  /\ \A r, s \in Requests, p, q \in Busy, f, g \in Flows :
       At(r, p, f) /\ At(s, q, g) => r = s
  /\ \A r \in Requests, p \in Busy, f \in Flows :
       At(r, p, f) =>
         /\ account # NoAccount /\ stored[f] # 0 /\ account.client = stored[f]
         /\ p = "stored" => account.access # "none" /\ account.status # "pending"

FlowInv == Shape /\ RedeemedOnce /\ Accounted /\ InTransaction /\ CompletedIsStored

-----------------------------------------------------------------------------
(* Where a request is                                                      *)

\* A request is in one place.
LEMMA OnePlace ==
  ASSUME NEW r, NEW p, NEW q, NEW f, NEW g, At(r, p, f), At(r, q, g)
  PROVE  p = q /\ f = g
<1>1. [pc |-> p, flow |-> f] = [pc |-> q, flow |-> g]
  BY DEF At
<1> QED BY <1>1

\* An idle request is nowhere, a busy one is at some flow.
LEMMA Places ==
  ASSUME Shape, NEW r \in Requests
  PROVE  /\ request[r] = Idle => \A p \in Pcs : \A f : ~At(r, p, f)
         /\ request[r].pc \in Busy => \E f \in Flows : At(r, request[r].pc, f)
         /\ \A p, f : At(r, p, f) => request[r].pc = p
<1>1. \A p \in Pcs : \A f : Idle # [pc |-> p, flow |-> f]
  <2>1. Idle.pc = "idle" /\ "idle" \notin Pcs
    BY DEF Idle, Pcs
  <2>2. \A p, f : [pc |-> p, flow |-> f].pc = p
    OBVIOUS
  <2> QED BY <2>1, <2>2
<1>2. \A p, f : At(r, p, f) => request[r].pc = p
  BY DEF At
<1>3. ASSUME request[r].pc \in Busy PROVE \E f \in Flows : At(r, request[r].pc, f)
  <2>1. request[r] \in {Idle} \cup [pc : Pcs, flow : Flows]
    BY DEF Shape
  <2>2. request[r] # Idle
    BY <1>3 DEF Idle, Busy
  <2>3. request[r] = [pc |-> request[r].pc, flow |-> request[r].flow] /\ request[r].flow \in Flows
    BY <2>1, <2>2
  <2> QED BY <2>3 DEF At
<1> QED BY <1>1, <1>2, <1>3 DEF At

\* What a move of one request changes.
LEMMA Moved ==
  ASSUME Shape, NEW r \in Requests, NEW p \in Pcs, NEW f \in Flows, To(r, p, f)
  PROVE  /\ request' \in [Requests -> {Idle} \cup [pc : Pcs, flow : Flows]]
         /\ At(r, p, f)'
         /\ \A s \in Requests, q \in Pcs, g \in Flows :
              At(s, q, g)' => IF s = r THEN q = p /\ g = f ELSE At(s, q, g)
<1>1. request' = [request EXCEPT ![r] = [pc |-> p, flow |-> f]]
  BY DEF To
<1>2. request \in [Requests -> {Idle} \cup [pc : Pcs, flow : Flows]]
  BY DEF Shape
<1>3. request' \in [Requests -> {Idle} \cup [pc : Pcs, flow : Flows]]
  <2>1. [pc |-> p, flow |-> f] \in [pc : Pcs, flow : Flows]
    OBVIOUS
  <2> QED BY <1>1, <1>2, <2>1
<1>4. At(r, p, f)'
  BY <1>1, <1>2 DEF At
<1>5. ASSUME NEW s \in Requests, NEW q \in Pcs, NEW g \in Flows, At(s, q, g)'
      PROVE  IF s = r THEN q = p /\ g = f ELSE At(s, q, g)
  <2>1. CASE s = r
    <3>1. [pc |-> p, flow |-> f] = [pc |-> q, flow |-> g]
      BY <1>1, <1>2, <1>5, <2>1 DEF At
    <3> QED BY <2>1, <3>1
  <2>2. CASE s # r
    BY <1>1, <1>2, <1>5, <2>2 DEF At
  <2> QED BY <2>1, <2>2
<1> QED BY <1>3, <1>4, <1>5

\* What the end of one request changes.
LEMMA Ended ==
  ASSUME Shape, NEW r \in Requests, Ends(r)
  PROVE  /\ request' \in [Requests -> {Idle} \cup [pc : Pcs, flow : Flows]]
         /\ \A s \in Requests, q \in Pcs, g \in Flows : At(s, q, g)' => s # r /\ At(s, q, g)
<1>1. request' = [request EXCEPT ![r] = Idle]
  BY DEF Ends
<1>2. request \in [Requests -> {Idle} \cup [pc : Pcs, flow : Flows]]
  BY DEF Shape
<1>3. request' \in [Requests -> {Idle} \cup [pc : Pcs, flow : Flows]]
  BY <1>1, <1>2
<1>4. ASSUME NEW s \in Requests, NEW q \in Pcs, NEW g \in Flows, At(s, q, g)'
      PROVE  s # r /\ At(s, q, g)
  <2>1. CASE s = r
    <3>1. Idle = [pc |-> q, flow |-> g]
      BY <1>1, <1>2, <1>4, <2>1 DEF At
    <3>2. Idle.pc = q
      BY <3>1
    <3> QED BY <3>2 DEF Idle, Pcs
  <2>2. CASE s # r
    BY <1>1, <1>2, <1>4, <2>2 DEF At
  <2> QED BY <2>1, <2>2
<1> QED BY <1>3, <1>4

\* Handlers that need the event loop run while no request is between its
\* transactions.
LEMMA LoopIsFree ==
  ASSUME Shape, LoopFree
  PROVE  \A r \in Requests, p \in Busy, f \in Flows : ~At(r, p, f)
  BY Places DEF LoopFree

-----------------------------------------------------------------------------
(* Types                                                                   *)

\* A flow that is finished keeps its row, and only completing it makes it completed.
LEMMA FlowRows ==
  ASSUME Shape, NEW f \in Flows, NEW s \in {"completed", "failed", "expired"}
  PROVE  /\ Finished(f, s) \in
              [Flows -> [status : {"none", "pending", "completed", "failed", "expired", "gone"},
                         code : BOOLEAN, late : BOOLEAN]]
         /\ \A g \in Flows : Finished(f, s)[g].status = "completed" =>
              flow[g].status = "completed" \/ (g = f /\ s = "completed")
<1> DEFINE Row == [status : {"none", "pending", "completed", "failed", "expired", "gone"},
                   code : BOOLEAN, late : BOOLEAN]
           new == IF flow[f] = Deleted THEN flow[f] ELSE Final(f, s)
<1>1. flow \in [Flows -> Row]
  BY DEF Shape
<1>2. Final(f, s) \in Row /\ Final(f, s).status = s
  BY <1>1 DEF Final
<1>3. new \in Row /\ (new.status = "completed" => flow[f].status = "completed" \/ s = "completed")
  BY <1>1, <1>2
<1>4. Finished(f, s) = [flow EXCEPT ![f] = new]
  BY DEF Finished
<1> HIDE DEF new, Row
<1>5. Finished(f, s) \in [Flows -> Row]
  BY <1>1, <1>3, <1>4
<1>6. \A g \in Flows : Finished(f, s)[g] = IF g = f THEN new ELSE flow[g]
  BY <1>1, <1>4
<1> QED BY <1>3, <1>5, <1>6 DEF Row

\* What an import writes is a row of an account.
LEMMA ImportedRow ==
  ASSUME NEW g \in Nat \ {0}
  PROVE  /\ Imported(g) \in [client : Nat \ {0}, access : {"none", "valid", "expired"},
                             status : {"pending", "active", "error", "invalid"}]
         /\ Imported(g).client = g /\ Imported(g) # NoAccount
  BY DEF Imported, NoAccount

\* What the worker process, or update_tokens, does to the row of the account.
LEMMA WorkerRow ==
  ASSUME Shape, account # NoAccount, Rotate \/ MarkStatus \/ AccessExpires
  PROVE  /\ account' \in [client : Nat \ {0}, access : {"none", "valid", "expired"},
                          status : {"pending", "active", "error", "invalid"}]
         /\ account' # NoAccount /\ account'.client = account.client
         /\ account.access # "none" => account'.access # "none"
         /\ account.status # "pending" => account'.status # "pending"
         /\ Rotate => account'.access = "valid" /\ account'.status = "active"
<1> DEFINE Row == [client : Nat \ {0}, access : {"none", "valid", "expired"},
                   status : {"pending", "active", "error", "invalid"}]
<1>1. account \in Row
  BY DEF Shape
<1>2. \A a \in Row : a # NoAccount
  BY DEF NoAccount
<1>3. CASE Rotate
  BY <1>1, <1>2, <1>3 DEF Rotate
<1>4. CASE MarkStatus
  <2>1. PICK s \in {"active", "error", "invalid"} : account' = [account EXCEPT !.status = s]
    BY <1>4 DEF MarkStatus
  <2>2. account' \in Row /\ account'.client = account.client
        /\ account'.access = account.access /\ account'.status = s
    BY <1>1, <2>1
  <2>3. CASE ~Rotate
    BY <1>2, <2>2, <2>3
  <2> QED BY <1>3, <2>3
<1>5. CASE AccessExpires
  <2>1. account' \in Row /\ account'.client = account.client
        /\ account'.access = "expired" /\ account'.status = account.status
    BY <1>1, <1>5 DEF AccessExpires
  <2>2. CASE ~Rotate
    BY <1>2, <2>1, <2>2
  <2> QED BY <1>3, <2>2
<1> QED BY <1>3, <1>4, <1>5

\* A step keeps the variables well typed.
LEMMA ShapeStep ==
  ASSUME FlowInv, [Next]_vars
  PROVE  Shape'
<1> USE DEF FlowInv
<1> DEFINE Row == [status : {"none", "pending", "completed", "failed", "expired", "gone"},
                   code : BOOLEAN, late : BOOLEAN]
<1>a. NoFlow \in Row /\ Deleted \in Row
  BY DEF NoFlow, Deleted
<1>b. flow \in [Flows -> Row]
  BY DEF Shape
<1>c. MaxImports \in Nat /\ MaxWebRestarts \in Nat
  BY BoundsAssumption
<1>d. Busy \subseteq Pcs /\ {"asked", "refused", "tokens"} \subseteq Pcs
  BY DEF Busy, Pcs
<1>1. CASE Worker
  BY <1>1, WorkerRow DEF Worker, Shape, bounds
<1>2. CASE ImportOther
  <2>1. granted + 1 \in Nat \ {0}
    BY DEF Shape
  <2>2. imports' \in 0 .. MaxImports
    BY <1>2, <1>c DEF ImportOther, Shape
  <2> QED BY <1>2, <2>1, <2>2, ImportedRow DEF ImportOther, Shape
<1>3. CASE DeleteMailbox
  BY <1>3 DEF DeleteMailbox, Shape, bounds
<1>4. CASE DeleteOwner
  BY <1>4, <1>a DEF DeleteOwner, Shape, bounds
<1>5. CASE WebRestart
  BY <1>5, <1>c DEF WebRestart, Shape
<1>6. ASSUME NEW f \in Flows, StartFlow(f) PROVE Shape'
  <2>1. [flow[f] EXCEPT !.status = "pending", !.code = TRUE] \in Row
    BY <1>b
  <2>2. flow' = [flow EXCEPT ![f] = [flow[f] EXCEPT !.status = "pending", !.code = TRUE]]
    BY <1>6, <1>b DEF StartFlow
  <2>3. flow' \in [Flows -> Row]
    BY <1>b, <2>1, <2>2
  <2> QED BY <1>6, <2>3 DEF StartFlow, Shape, bounds
<1>7. ASSUME NEW f \in Flows, StartOther(f) PROVE Shape'
  BY <1>7, <1>a DEF StartOther, Shape, bounds
<1>8. ASSUME NEW f \in Flows, Decide(f) PROVE Shape'
  BY <1>8 DEF Decide, Shape, bounds
<1>9. ASSUME NEW f \in Flows, FlowExpires(f) PROVE Shape'
  <2>1. [flow[f] EXCEPT !.late = TRUE] \in Row
    BY <1>b
  <2>2. flow' = [flow EXCEPT ![f] = [flow[f] EXCEPT !.late = TRUE]]
    BY <1>9, <1>b DEF FlowExpires
  <2>3. flow' \in [Flows -> Row]
    BY <1>b, <2>1, <2>2
  <2> QED BY <1>9, <2>3 DEF FlowExpires, Shape, bounds
<1>10. ASSUME NEW f \in Flows, NEW r \in Requests, AskMicrosoft(r, f) PROVE Shape'
  <2>1. CASE flow[f].late
    BY <1>10, <2>1, FlowRows DEF AskMicrosoft, Shape, bounds
  <2>2. CASE ~flow[f].late
    BY <1>10, <1>d, <2>2, Moved DEF AskMicrosoft, Shape, bounds
  <2> QED BY <2>1, <2>2
<1>11. ASSUME NEW f \in Flows, NEW r \in Requests, AnswerCode(r, f) PROVE Shape'
  <2>1. Redeemed(f) \in {"waiting", "approved", "refused", "redeemed"}
    BY DEF Redeemed, Shape
  <2>2. verdict' \in [Flows -> {"waiting", "approved", "refused", "redeemed"}]
    BY <1>11, <2>1 DEF AnswerCode, Shape
  <2>3. Answers(f) \subseteq {"idle", "tokens", "refused"}
    BY DEF Answers, Shape
  <2>4. request' \in [Requests -> {Idle} \cup [pc : Pcs, flow : Flows]]
    BY <1>11, <1>d, <2>3, Moved, Ended DEF AnswerCode
  <2> QED BY <1>11, <2>2, <2>4 DEF AnswerCode, Shape, bounds
<1>12. ASSUME NEW f \in Flows, NEW r \in Requests, LoseAnswer(r, f) PROVE Shape'
  <2>1. Redeemed(f) \in {"waiting", "approved", "refused", "redeemed"}
    BY DEF Redeemed, Shape
  <2>2. verdict' \in [Flows -> {"waiting", "approved", "refused", "redeemed"}]
    BY <1>12, <2>1 DEF LoseAnswer, Shape
  <2> QED BY <1>12, <2>2, Ended DEF LoseAnswer, Shape, bounds
<1>13. ASSUME NEW f \in Flows, NEW r \in Requests, RecordRefusal(r, f) PROVE Shape'
  BY <1>13, Ended, FlowRows DEF RecordRefusal, Shape, bounds
<1>14. ASSUME NEW f \in Flows, NEW r \in Requests, FailStoring(r, f) PROVE Shape'
  BY <1>14, Ended DEF FailStoring, Shape, bounds
<1>15. ASSUME NEW f \in Flows, NEW r \in Requests, StoreGrant(r, f) PROVE Shape'
  <2>1. granted' \in Nat \ {0} /\ granted' \in Nat
    BY <1>15 DEF StoreGrant, Shape
  <2>2. stored' \in [Flows -> Nat]
    BY <1>15, <2>1 DEF StoreGrant, Shape
  <2>3. request' \in [Requests -> {Idle} \cup [pc : Pcs, flow : Flows]]
    BY <1>15, <1>d, Moved DEF StoreGrant, Busy
  <2>4. account' \in [client : Nat \ {0}, access : {"none", "valid", "expired"},
                      status : {"pending", "active", "error", "invalid"}]
    BY <1>15, <2>1, ImportedRow DEF StoreGrant
  <2> QED BY <1>15, <2>1, <2>2, <2>3, <2>4 DEF StoreGrant, Shape, bounds
<1>16. ASSUME NEW f \in Flows, NEW r \in Requests, StoreTokens(r, f) PROVE Shape'
  <2>1. account # NoAccount
    BY <1>16 DEF StoreTokens, InTransaction, Busy
  <2>2. Rotate
    BY <1>16 DEF StoreTokens, Rotate
  <2>3. request' \in [Requests -> {Idle} \cup [pc : Pcs, flow : Flows]]
    BY <1>16, <1>d, Moved DEF StoreTokens, Busy
  <2> QED BY <1>16, <2>1, <2>2, <2>3, WorkerRow DEF StoreTokens, Shape, bounds
<1>17. ASSUME NEW f \in Flows, NEW r \in Requests, Complete(r, f) PROVE Shape'
  BY <1>17, Ended, FlowRows DEF Complete, Shape, bounds
<1>18. CASE UNCHANGED vars
  BY <1>18 DEF vars, Shape
<1> QED BY <1>1, <1>2, <1>3, <1>4, <1>5, <1>6, <1>7, <1>8, <1>9, <1>10, <1>11, <1>12,
           <1>13, <1>14, <1>15, <1>16, <1>17, <1>18 DEF Next, Proceed

-----------------------------------------------------------------------------
(* Grants and completed flows                                              *)

\* The flows that have stored a grant can be counted.
LEMMA FiniteStored ==
  /\ IsFiniteSet({f \in Flows : stored[f] # 0})
  /\ Cardinality({f \in Flows : stored[f] # 0}) \in Nat
  /\ Cardinality({f \in Flows : stored[f] # 0}) <= Cardinality(Flows)
  /\ Cardinality(Flows) \in Nat
  BY BoundsAssumption, FS_Subset, FS_CardinalityType

\* What a step may do that stores no grant and gives no request tokens.
LEMMA QuietStep ==
  ASSUME FlowInv, Shape', UNCHANGED <<stored, granted, imports>>,
         \A f \in Flows : verdict[f] = "redeemed" => verdict'[f] = "redeemed",
         \A r \in Requests, p \in {"tokens"} \cup Busy, f \in Flows : At(r, p, f)' => At(r, p, f),
         \A f \in Flows : flow'[f].status = "completed" => flow[f].status = "completed",
         \/ account' = account
         \/ account' = NoAccount /\ \A r \in Requests, p \in Busy, f \in Flows : ~At(r, p, f)
         \/ /\ account # NoAccount /\ account' # NoAccount /\ account'.client = account.client
            /\ account.access # "none" => account'.access # "none"
            /\ account.status # "pending" => account'.status # "pending"
  PROVE  (RedeemedOnce /\ Accounted /\ InTransaction /\ CompletedIsStored)'
<1> USE DEF FlowInv
<1>a. NoAccount.client = 0 /\ granted \in Nat
  BY DEF NoAccount, Shape
<1>b. "tokens" \in {"tokens"} \cup Busy
  OBVIOUS
<1>1. RedeemedOnce'
  BY <1>b DEF RedeemedOnce
<1>2. Accounted'
  <2>1. account'.client <= granted
    BY <1>a DEF Accounted
  <2> QED BY <2>1 DEF Accounted
<1>3. InTransaction'
  <2>1. \A r, s \in Requests, p, q \in Busy, f, g \in Flows :
          At(r, p, f)' /\ At(s, q, g)' => r = s
    BY DEF InTransaction
  <2>2. ASSUME NEW r \in Requests, NEW p \in Busy, NEW f \in Flows, At(r, p, f)'
        PROVE  /\ account' # NoAccount /\ stored'[f] # 0 /\ account'.client = stored'[f]
               /\ p = "stored" => account'.access # "none" /\ account'.status # "pending"
    <3>1. At(r, p, f)
      BY <2>2
    <3>2. /\ account # NoAccount /\ stored[f] # 0 /\ account.client = stored[f]
          /\ p = "stored" => account.access # "none" /\ account.status # "pending"
      BY <3>1 DEF InTransaction
    <3> QED BY <3>1, <3>2
  <2> QED BY <2>1, <2>2 DEF InTransaction
<1>4. CompletedIsStored'
  BY <1>a DEF CompletedIsStored
<1> QED BY <1>1, <1>2, <1>3, <1>4

\* A step keeps the account of the grants and of the completed flows.
LEMMA GrantsStep ==
  ASSUME FlowInv, Shape', [Next]_vars
  PROVE  (RedeemedOnce /\ Accounted /\ InTransaction /\ CompletedIsStored)'
<1> USE DEF FlowInv
<1> DEFINE Goal == (RedeemedOnce /\ Accounted /\ InTransaction /\ CompletedIsStored)'
           Row == [status : {"none", "pending", "completed", "failed", "expired", "gone"},
                   code : BOOLEAN, late : BOOLEAN]
<1>a. flow \in [Flows -> Row] /\ verdict \in [Flows -> {"waiting", "approved", "refused", "redeemed"}]
  BY DEF Shape
<1>b. NoFlow.status = "none" /\ Deleted.status = "gone" /\ \A f \in Flows : flow[f] \in Row
  BY <1>a DEF NoFlow, Deleted
<1>d. Busy \subseteq Pcs /\ {"asked", "refused", "tokens"} \subseteq Pcs
      /\ Busy = {"imported", "stored"}
  BY DEF Busy, Pcs
<1>e. granted \in Nat \ {0} /\ imports \in Nat /\ stored \in [Flows -> Nat]
  BY BoundsAssumption DEF Shape
<1>1. CASE Worker
  BY <1>1, WorkerRow, QuietStep DEF Worker, bounds, At
<1>2. CASE ImportOther
  <2>1. /\ granted' = granted + 1 /\ imports' = imports + 1 /\ account' = Imported(granted')
        /\ UNCHANGED <<flow, verdict, request, stored>> /\ LoopFree
    BY <1>2 DEF ImportOther
  <2>2. account'.client = granted'
    BY <2>1, <1>e, ImportedRow
  <2>3. RedeemedOnce'
    BY <2>1 DEF RedeemedOnce, At
  <2>4. Accounted'
    <3>1. granted' <= 1 + imports' + Cardinality({f \in Flows : stored[f] # 0})
      BY <2>1, <1>e, FiniteStored DEF Accounted
    <3>2. \A f \in Flows : stored[f] <= granted'
      BY <2>1, <1>e DEF Accounted
    <3> QED BY <1>e, <2>1, <2>2, <3>1, <3>2 DEF Accounted
  <2>5. InTransaction'
    BY <2>1, LoopIsFree DEF InTransaction, At
  <2>6. CompletedIsStored'
    BY <1>e, <2>1, <2>2 DEF CompletedIsStored, Accounted
  <2> QED BY <2>3, <2>4, <2>5, <2>6
<1>3. CASE DeleteMailbox
  BY <1>3, LoopIsFree, QuietStep DEF DeleteMailbox, bounds, At
<1>4. CASE DeleteOwner
  <2>1. \A f \in Flows : flow'[f].status = "gone"
    BY <1>4, <1>b DEF DeleteOwner
  <2> QED BY <1>4, <2>1, LoopIsFree, QuietStep DEF DeleteOwner, bounds, At
<1>5. CASE WebRestart
  <2>1. \A r \in Requests, p \in Pcs, f \in Flows : ~At(r, p, f)'
    <3> SUFFICES ASSUME NEW r \in Requests, NEW p \in Pcs, NEW f \in Flows,
                        Idle = [pc |-> p, flow |-> f]
                 PROVE  FALSE
      BY <1>5 DEF WebRestart, At
    <3>1. Idle.pc = p
      OBVIOUS
    <3> QED BY <3>1 DEF Idle, Pcs
  <2> QED BY <1>5, <1>d, <2>1, QuietStep DEF WebRestart
<1>6. ASSUME NEW f \in Flows, StartFlow(f) PROVE Goal
  <2>1. \A g \in Flows : flow'[g].status = "completed" => flow[g].status = "completed"
    BY <1>6, <1>a, <1>b DEF StartFlow
  <2> QED BY <1>6, <2>1, QuietStep DEF StartFlow, bounds, At
<1>7. ASSUME NEW f \in Flows, StartOther(f) PROVE Goal
  <2>1. \A g \in Flows : flow'[g].status = "completed" => flow[g].status = "completed"
    BY <1>7, <1>a, <1>b DEF StartOther
  <2> QED BY <1>7, <2>1, QuietStep DEF StartOther, bounds, At
<1>8. ASSUME NEW f \in Flows, Decide(f) PROVE Goal
  <2>1. \A g \in Flows : verdict[g] = "redeemed" => verdict'[g] = "redeemed"
    BY <1>8, <1>a DEF Decide
  <2> QED BY <1>8, <2>1, QuietStep DEF Decide, bounds, At
<1>9. ASSUME NEW f \in Flows, FlowExpires(f) PROVE Goal
  <2>1. \A g \in Flows : flow'[g].status = "completed" => flow[g].status = "completed"
    BY <1>9, <1>a, <1>b DEF FlowExpires
  <2> QED BY <1>9, <2>1, QuietStep DEF FlowExpires, bounds, At
<1>10. ASSUME NEW f \in Flows, NEW r \in Requests, AskMicrosoft(r, f) PROVE Goal
  <2>1. \A g \in Flows : flow'[g].status = "completed" => flow[g].status = "completed"
    BY <1>10, FlowRows DEF AskMicrosoft
  <2>2. \A s \in Requests, p \in {"tokens"} \cup Busy, g \in Flows : At(s, p, g)' => At(s, p, g)
    <3>1. CASE flow[f].late
      BY <1>10, <3>1 DEF AskMicrosoft, At
    <3>2. CASE ~flow[f].late
      BY <1>10, <1>d, <3>2, Moved DEF AskMicrosoft
    <3> QED BY <3>1, <3>2
  <2> QED BY <1>10, <2>1, <2>2, QuietStep DEF AskMicrosoft, bounds
<1>11. ASSUME NEW f \in Flows, NEW r \in Requests, AnswerCode(r, f) PROVE Goal
  <2>1. /\ \A g \in Flows : verdict[g] = "redeemed" => verdict'[g] = "redeemed"
        /\ verdict[f] = "approved" => verdict'[f] = "redeemed"
        /\ UNCHANGED <<flow, stored, granted, imports, account>>
    BY <1>11, <1>a DEF AnswerCode, Redeemed, bounds
  <2>2. PICK answer \in Answers(f) : IF answer = "idle" THEN Ends(r) ELSE To(r, answer, f)
    BY <1>11 DEF AnswerCode
  <2>3. answer \in {"idle", "tokens", "refused"}
        /\ (answer = "tokens" => verdict[f] = "approved")
    BY <1>a DEF Answers
  <2>4. CASE answer # "tokens"
    <3>1. \A s \in Requests, p \in {"tokens"} \cup Busy, g \in Flows : At(s, p, g)' => At(s, p, g)
      <4>1. CASE answer = "idle"
        BY <1>d, <2>2, <4>1, Ended
      <4>2. CASE answer = "refused"
        BY <1>d, <2>2, <4>2, Moved
      <4> QED BY <2>3, <2>4, <4>1, <4>2
    <3> QED BY <2>1, <3>1, QuietStep
  <2>5. CASE answer = "tokens"
    <3>1. \A s \in Requests, q \in Pcs, g \in Flows :
            At(s, q, g)' => IF s = r THEN q = "tokens" /\ g = f ELSE At(s, q, g)
      BY <1>d, <2>2, <2>5, Moved
    <3>2. /\ verdict[f] # "redeemed" /\ verdict'[f] = "redeemed" /\ stored[f] = 0
          /\ \A s \in Requests : ~At(s, "tokens", f)
      BY <2>1, <2>3, <2>5 DEF RedeemedOnce
    <3>3. RedeemedOnce'
      <4> SUFFICES ASSUME NEW g \in Flows
                   PROVE  /\ stored'[g] # 0 => verdict'[g] = "redeemed"
                          /\ \A s \in Requests :
                               At(s, "tokens", g)' => verdict'[g] = "redeemed" /\ stored'[g] = 0
                          /\ \A s, t \in Requests :
                               At(s, "tokens", g)' /\ At(t, "tokens", g)' => s = t
        BY DEF RedeemedOnce
      <4>1. stored'[g] # 0 => verdict'[g] = "redeemed"
        BY <2>1 DEF RedeemedOnce
      <4>2. \A s \in Requests : At(s, "tokens", g)' => (s = r /\ g = f) \/ At(s, "tokens", g)
        BY <1>d, <3>1
      <4>3. \A s \in Requests :
              At(s, "tokens", g)' => verdict'[g] = "redeemed" /\ stored'[g] = 0
        BY <2>1, <3>2, <4>2 DEF RedeemedOnce
      <4>4. \A s, t \in Requests : At(s, "tokens", g)' /\ At(t, "tokens", g)' => s = t
        BY <3>2, <4>2 DEF RedeemedOnce
      <4> QED BY <4>1, <4>3, <4>4
    <3>4. Accounted'
      BY <2>1 DEF Accounted
    <3>5. \A s \in Requests, p \in Busy, g \in Flows : At(s, p, g)' => At(s, p, g)
      BY <1>d, <3>1
    <3>6. InTransaction'
      BY <2>1, <3>5 DEF InTransaction
    <3>7. CompletedIsStored'
      BY <2>1 DEF CompletedIsStored
    <3> QED BY <3>3, <3>4, <3>6, <3>7
  <2> QED BY <2>4, <2>5
<1>12. ASSUME NEW f \in Flows, NEW r \in Requests, LoseAnswer(r, f) PROVE Goal
  <2>1. \A g \in Flows : verdict[g] = "redeemed" => verdict'[g] = "redeemed"
    BY <1>12, <1>a DEF LoseAnswer, Redeemed
  <2> QED BY <1>12, <1>d, <2>1, Ended, QuietStep DEF LoseAnswer, bounds
<1>13. ASSUME NEW f \in Flows, NEW r \in Requests, RecordRefusal(r, f) PROVE Goal
  <2>1. \A g \in Flows : flow'[g].status = "completed" => flow[g].status = "completed"
    BY <1>13, FlowRows DEF RecordRefusal
  <2> QED BY <1>13, <1>d, <2>1, Ended, QuietStep DEF RecordRefusal, bounds
<1>14. ASSUME NEW f \in Flows, NEW r \in Requests, FailStoring(r, f) PROVE Goal
  BY <1>14, <1>d, Ended, QuietStep DEF FailStoring, bounds
<1>15. ASSUME NEW f \in Flows, NEW r \in Requests, StoreGrant(r, f) PROVE Goal
  <2>1. /\ granted' = granted + 1 /\ account' = Imported(granted')
        /\ stored' = [stored EXCEPT ![f] = granted'] /\ UNCHANGED <<flow, verdict, imports>>
        /\ LoopFree /\ At(r, "tokens", f) /\ To(r, "imported", f)
    BY <1>15 DEF StoreGrant, bounds
  <2>2. \A s \in Requests, q \in Pcs, g \in Flows :
          At(s, q, g)' => IF s = r THEN q = "imported" /\ g = f ELSE At(s, q, g)
    BY <1>d, <2>1, Moved
  <2>3. account'.client = granted' /\ account' # NoAccount
    BY <2>1, <1>e, ImportedRow
  <2>4. stored[f] = 0 /\ verdict[f] = "redeemed" /\ \A s \in Requests : At(s, "tokens", f) => s = r
    BY <2>1 DEF RedeemedOnce
  <2>5. \A g \in Flows : stored'[g] = IF g = f THEN granted + 1 ELSE stored[g]
    BY <1>e, <2>1
  <2>6. RedeemedOnce'
    <3>1. \A s \in Requests, g \in Flows : At(s, "tokens", g)' => At(s, "tokens", g) /\ g # f
      BY <1>d, <2>2, <2>4
    <3> QED BY <2>1, <2>4, <2>5, <3>1 DEF RedeemedOnce
  <2>7. Accounted'
    <3> DEFINE S == {g \in Flows : stored[g] # 0}
               T == {g \in Flows : stored'[g] # 0}
    <3>1. T = S \cup {f} /\ f \notin S
      BY <1>e, <2>4, <2>5
    <3>2. Cardinality(T) = Cardinality(S) + 1
      BY <3>1, FiniteStored, FS_AddElement
    <3>3. granted <= 1 + imports + Cardinality(S) /\ Cardinality(S) \in Nat
      BY FiniteStored DEF Accounted
    <3> HIDE DEF S, T
    <3>4. granted' <= 1 + imports' + Cardinality(T)
      BY <1>e, <2>1, <3>2, <3>3
    <3>5. \A g \in Flows : stored'[g] <= granted'
      BY <1>e, <2>1, <2>5 DEF Accounted
    <3>6. account'.client <= granted'
      BY <1>e, <2>1, <2>3
    <3> QED BY <3>4, <3>5, <3>6 DEF Accounted, T
  <2>8. InTransaction'
    <3>1. \A s \in Requests, p \in Busy, g \in Flows :
            At(s, p, g)' => s = r /\ p = "imported" /\ g = f
      BY <1>d, <2>1, <2>2, LoopIsFree
    <3> QED BY <1>e, <2>1, <2>3, <2>5, <3>1 DEF InTransaction
  <2>9. CompletedIsStored'
    <3> SUFFICES ASSUME NEW g \in Flows, flow'[g].status = "completed"
                 PROVE  /\ stored'[g] # 0
                        /\ account' = NoAccount \/ account'.client >= stored'[g]
                        /\ account'.client = stored'[g] =>
                             account'.access # "none" /\ account'.status # "pending"
      BY DEF CompletedIsStored
    <3>1. g # f
      BY <2>1, <2>4 DEF CompletedIsStored
    <3>2. stored'[g] = stored[g] /\ stored[g] # 0 /\ stored[g] <= granted /\ stored[g] \in Nat
      BY <1>e, <2>1, <2>5, <3>1 DEF CompletedIsStored, Accounted
    <3> QED BY <1>e, <2>1, <2>3, <3>2
  <2> QED BY <2>6, <2>7, <2>8, <2>9
<1>16. ASSUME NEW f \in Flows, NEW r \in Requests, StoreTokens(r, f) PROVE Goal
  <2>1. At(r, "imported", f) /\ To(r, "stored", f) /\ Rotate
        /\ UNCHANGED <<flow, verdict, stored, granted, imports>>
    BY <1>16 DEF StoreTokens, Rotate, bounds
  <2>2. \A s \in Requests, q \in Pcs, g \in Flows :
          At(s, q, g)' => IF s = r THEN q = "stored" /\ g = f ELSE At(s, q, g)
    BY <1>d, <2>1, Moved
  <2>3. account # NoAccount /\ stored[f] # 0 /\ account.client = stored[f]
    BY <1>d, <2>1 DEF InTransaction
  <2>4. /\ account' # NoAccount /\ account'.client = account.client
        /\ account'.access = "valid" /\ account'.status = "active"
    BY <2>1, <2>3, WorkerRow
  <2>5. RedeemedOnce'
    <3>1. \A s \in Requests, g \in Flows : At(s, "tokens", g)' => At(s, "tokens", g)
      BY <1>d, <2>2
    <3> QED BY <2>1, <3>1 DEF RedeemedOnce
  <2>6. Accounted'
    BY <2>1, <2>4 DEF Accounted
  <2>7. InTransaction'
    <3>1. \A s \in Requests, p \in Busy, g \in Flows : At(s, p, g)' => s = r /\ p = "stored" /\ g = f
      BY <1>d, <2>1, <2>2 DEF InTransaction
    <3> QED BY <2>1, <2>3, <2>4, <3>1 DEF InTransaction
  <2>8. CompletedIsStored'
    BY <2>1, <2>3, <2>4 DEF CompletedIsStored
  <2> QED BY <2>5, <2>6, <2>7, <2>8
<1>17. ASSUME NEW f \in Flows, NEW r \in Requests, Complete(r, f) PROVE Goal
  <2>1. At(r, "stored", f) /\ Ends(r) /\ flow' = Finished(f, "completed")
        /\ UNCHANGED <<verdict, stored, account, granted, imports>>
    BY <1>17 DEF Complete, TokensStored, bounds
  <2>2. \A s \in Requests, q \in Pcs, g \in Flows : At(s, q, g)' => s # r /\ At(s, q, g)
    BY <2>1, Ended
  <2>3. RedeemedOnce'
    BY <1>d, <2>1, <2>2 DEF RedeemedOnce
  <2>4. Accounted'
    BY <2>1 DEF Accounted
  <2>5. InTransaction'
    BY <1>d, <2>1, <2>2 DEF InTransaction
  <2>6. CompletedIsStored'
    <3>1. /\ stored[f] # 0 /\ account.client = stored[f]
          /\ account.access # "none" /\ account.status # "pending" /\ stored[f] \in Nat
      BY <1>d, <1>e, <2>1 DEF InTransaction
    <3>2. \A g \in Flows : flow'[g].status = "completed" => flow[g].status = "completed" \/ g = f
      BY <2>1, FlowRows
    <3> QED BY <2>1, <3>1, <3>2 DEF CompletedIsStored
  <2> QED BY <2>3, <2>4, <2>5, <2>6
<1>18. CASE UNCHANGED vars
  BY <1>18, QuietStep DEF vars, At
<1> QED BY <1>1, <1>2, <1>3, <1>4, <1>5, <1>6, <1>7, <1>8, <1>9, <1>10, <1>11, <1>12,
           <1>13, <1>14, <1>15, <1>16, <1>17, <1>18 DEF Next, Proceed

\* The inductive invariant of device authorizations.
THEOREM FlowCorrect == Spec => []FlowInv
<1>1. Init => FlowInv
  <2> SUFFICES ASSUME Init PROVE FlowInv
    OBVIOUS
  <2>1. Shape
    BY BoundsAssumption, ImportedRow DEF Init, Shape, NoFlow
  <2>2. \A r \in Requests, p \in Pcs, f \in Flows : ~At(r, p, f)
    BY <2>1, Places DEF Init
  <2>3. {"tokens"} \cup Busy \subseteq Pcs
    BY DEF Busy, Pcs
  <2>4. RedeemedOnce /\ InTransaction
    BY <2>2, <2>3 DEF Init, RedeemedOnce, InTransaction
  <2>5. CompletedIsStored
    BY DEF Init, CompletedIsStored, NoFlow
  <2>6. Accounted
    <3>1. Imported(1).client = 1
      BY ImportedRow
    <3> QED BY <3>1, FiniteStored DEF Init, Accounted
  <2> QED BY <2>1, <2>4, <2>5, <2>6 DEF FlowInv
<1>2. FlowInv /\ [Next]_vars => FlowInv'
  <2> SUFFICES ASSUME FlowInv, [Next]_vars PROVE FlowInv'
    OBVIOUS
  <2>1. Shape'
    BY ShapeStep
  <2>2. (RedeemedOnce /\ Accounted /\ InTransaction /\ CompletedIsStored)'
    BY <2>1, GrantsStep
  <2> QED BY <2>1, <2>2 DEF FlowInv
<1> QED BY <1>1, <1>2, PTL DEF Spec

\* Every reachable state is well typed; there is a grant for each import of
\* other credentials and at most one for each flow, as a code is redeemed once.
THEOREM TypeCorrect == Spec => []TypeOK
<1>1. FlowInv => TypeOK
  <2> SUFFICES ASSUME FlowInv PROVE TypeOK
    OBVIOUS
  <2> USE DEF FlowInv
  <2> DEFINE bound == 1 + MaxImports + Cardinality(Flows)
             grants == 1 .. bound
  <2>1. granted \in Nat \ {0} /\ granted <= bound /\ bound \in Nat
    <3>1. imports \in Nat /\ imports <= MaxImports /\ MaxImports \in Nat /\ granted \in Nat \ {0}
      BY BoundsAssumption DEF Shape
    <3>2. PICK c \in Nat : c = Cardinality({f \in Flows : stored[f] # 0})
      BY FiniteStored
    <3>3. c <= Cardinality(Flows) /\ Cardinality(Flows) \in Nat
      BY <3>2, FiniteStored
    <3>4. granted <= 1 + imports + c
      BY <3>2 DEF Accounted
    <3> QED BY <3>1, <3>3, <3>4
  <2>2. granted \in grants
    BY <2>1
  <2>3. stored \in [Flows -> {0} \cup grants]
    <3>1. stored \in [Flows -> Nat] /\ \A f \in Flows : stored[f] <= granted
      BY DEF Shape, Accounted
    <3> HIDE DEF bound
    <3> QED BY <2>1, <3>1
  <2>4. account \in {NoAccount} \cup
          [client : grants, access : {"none", "valid", "expired"},
           status : {"pending", "active", "error", "invalid"}]
    <3>1. CASE account # NoAccount
      <4>1. account \in [client : Nat \ {0}, access : {"none", "valid", "expired"},
                         status : {"pending", "active", "error", "invalid"}]
        BY <3>1 DEF Shape
      <4>2. account.client \in grants
        <5> HIDE DEF bound
        <5> QED BY <2>1, <4>1 DEF Accounted
      <4> HIDE DEF grants
      <4> QED BY <4>1, <4>2
    <3> QED BY <3>1
  <2> QED BY <2>2, <2>3, <2>4 DEF Shape, TypeOK
<1> QED BY <1>1, FlowCorrect, PTL

\* A flow that says completed has stored its credentials and an access token,
\* whatever the worker process, other requests and restarts do in between.
THEOREM CompletedFlowsStored == Spec => []CompletedIsStored
<1>1. FlowInv => CompletedIsStored
  BY DEF FlowInv
<1> QED BY <1>1, FlowCorrect, PTL

=============================================================================
