------------------------- MODULE RefreshJobsProofs -------------------------
(***************************************************************************)
(* Safety of the refresh-job queue for any accounts, links, workers and    *)
(* bounds.                                                                 *)
(***************************************************************************)
EXTENDS RefreshJobs, FiniteSetTheorems, TLAPS

\* What TypeOK needs to be inductive: a handler that calls create_refresh_job
\* has an id left, a busy worker has an item in hand.
InHand ==
  /\ web # NoCall => nextJob \in JobIds
  /\ \A w \in Workers :
       worker[w].pc # "idle" => worker[w].job \in JobIds /\ worker[w].account \in Accounts

\* The rows that the actions write have the columns they should have.
LEMMA RowTypes ==
  /\ NoJob \in JobRow
  /\ NoItems \in [Accounts -> ItemStatus]
  /\ NoCall \in CallRow
  /\ Idle \in TaskRow
  /\ \A u \in Users, ids \in SUBSET Accounts, m \in Modes, t \in Tokens \cup {None} :
       Call(u, ids, m, t) \in CallRow
<1>1. \A u \in Users, ids \in SUBSET Accounts, m \in Modes, t \in Tokens \cup {None} :
       Call(u, ids, m, t) \in CallRow
  BY DEF Call, CallRow, Modes
<1>2. NoCall \in CallRow
  BY DEF NoCall, CallRow
<1>3. NoJob \in JobRow
  BY DEF NoJob, JobRow, Modes
<1>4. Idle \in TaskRow
  BY BoundsAssumption DEF Idle, TaskRow
<1>5. NoItems \in [Accounts -> ItemStatus]
  BY DEF NoItems, ItemStatus
<1> QED BY <1>1, <1>2, <1>3, <1>4, <1>5

\* Settling an item leaves a job row that is one.
LEMMA CountedType ==
  ASSUME NEW r \in JobRow, NEW ok \in BOOLEAN
  PROVE  Counted(r, ok) \in JobRow
<1>1. /\ r.completed + 1 \in Nat
      /\ (IF ok THEN r.succeeded + 1 ELSE r.succeeded) \in Nat
      /\ (IF ok THEN r.failed ELSE r.failed + 1) \in Nat
      /\ (IF r.completed + 1 >= r.total THEN "completed" ELSE "running")
           \in {"completed", "running"}
  BY DEF JobRow
<1>2. \A c, s, f \in Nat, st \in {"completed", "running"} :
        [r EXCEPT !.completed = c, !.succeeded = s, !.failed = f, !.status = st] \in JobRow
  BY DEF JobRow
<1> QED BY <1>1, <1>2 DEF Counted

\* So does changing the status of a job.
LEMMA RestatedType ==
  ASSUME NEW r \in JobRow, NEW s \in {"none", "queued", "running", "completed"}
  PROVE  [r EXCEPT !.status = s] \in JobRow
  BY DEF JobRow

\* Every reachable state is well typed.
THEOREM TypeCorrect == Spec => [](TypeOK /\ InHand)
<1> USE BoundsAssumption
<1>1. Init => TypeOK /\ InHand
  <2> SUFFICES ASSUME Init PROVE TypeOK /\ InHand
    OBVIOUS
  <2>1. \A w \in Workers : worker[w].pc = "idle"
    BY DEF Init, Idle
  <2>2. nextJob \in 1 .. (MaxJobs + 1)
    BY DEF Init
  <2> QED BY <2>1, <2>2, RowTypes DEF Init, TypeOK, InHand
<1>2. TypeOK /\ InHand /\ [Next]_vars => (TypeOK /\ InHand)'
  <2> SUFFICES ASSUME TypeOK, InHand, [Next]_vars PROVE (TypeOK /\ InHand)'
    OBVIOUS
  <2> USE DEF TypeOK, InHand, tables, process
  <2>1. ASSUME NEW u \in Users, NEW ids \in SUBSET Accounts, ImportAccounts(u, ids)
        PROVE (TypeOK /\ InHand)'
    <3>1. web' \in CallRow
      BY <2>1, RowTypes DEF ImportAccounts, Modes
    <3>2. nextJob \in JobIds
      BY <2>1 DEF ImportAccounts, JobBudget, JobIds
    <3> QED BY <2>1, <3>1, <3>2 DEF ImportAccounts
  <2>2. ASSUME NEW u \in Users, NEW ids \in SUBSET Accounts, RefreshAccounts(u, ids)
        PROVE (TypeOK /\ InHand)'
    <3>1. web' \in CallRow
      BY <2>2, RowTypes DEF RefreshAccounts, Modes
    <3>2. nextJob \in JobIds
      BY <2>2 DEF RefreshAccounts, JobBudget, JobIds
    <3> QED BY <2>2, <3>1, <3>2 DEF RefreshAccounts
  <2>3. ASSUME NEW u \in Users, NEW ids \in SUBSET Accounts, DeleteAccounts(u, ids)
        PROVE (TypeOK /\ InHand)'
    BY <2>3 DEF DeleteAccounts
  <2>0. ASSUME NEW a \in Accounts, CompleteDeviceFlow(a) PROVE (TypeOK /\ InHand)'
    BY <2>0 DEF CompleteDeviceFlow
  <2>4. ASSUME NEW a \in Accounts, SyncMessages(a) PROVE (TypeOK /\ InHand)'
    <3>1. web' \in CallRow
      BY <2>4, RowTypes, OwnerAssumption DEF SyncMessages, Modes
    <3>2. nextJob \in JobIds
      BY <2>4 DEF SyncMessages, JobBudget, JobIds
    <3> QED BY <2>4, <3>1, <3>2 DEF SyncMessages
  <2>5. ASSUME NEW t \in Tokens, RefreshPublicMail(t) PROVE (TypeOK /\ InHand)'
    <3>1. web' \in CallRow
      BY <2>5, RowTypes, OwnerAssumption, LinkAssumption DEF RefreshPublicMail, Modes
    <3>2. nextJob \in JobIds
      BY <2>5 DEF RefreshPublicMail, JobBudget, JobIds
    <3> QED BY <2>5, <3>1, <3>2 DEF RefreshPublicMail
  <2>6. ASSUME NEW P \in SUBSET JobIds, JobAccepted(P) PROVE (TypeOK /\ InHand)'
    <3>1. Cardinality(Valid) \in Nat
      BY AccountsAssumption, FS_Subset, FS_CardinalityType DEF Valid, Live
    <3>2. job' \in [JobIds -> JobRow]
      <4>1. web \in CallRow /\ job \in [JobIds -> JobRow]
        OBVIOUS
      <4>2. NewJob \in JobRow
        BY <3>1, <4>1 DEF NewJob, JobRow, CallRow
      <4> QED BY <2>6, <4>1, <4>2, RowTypes DEF JobAccepted
    <3>3. item' \in [JobIds -> [Accounts -> ItemStatus]]
      BY <2>6, RowTypes DEF JobAccepted, ItemStatus, ActiveStatus
    <3>4. pending' \subseteq Accounts
      BY <2>6 DEF JobAccepted, Valid, Live
    <3>5. nextJob + 1 \in 1 .. (MaxJobs + 1)
      BY <2>6 DEF JobAccepted, JobIds
    <3> QED BY <2>6, <3>2, <3>3, <3>4, <3>5, RowTypes DEF JobAccepted
  <2>7. ASSUME NEW P \in SUBSET JobIds, JobJoined(P) PROVE (TypeOK /\ InHand)'
    BY <2>7, RowTypes DEF JobJoined
  <2>8. CASE JobRefused
    BY <2>8, RowTypes DEF JobRefused
  <2>9. ASSUME NEW u \in Users, DeleteUser(u) PROVE (TypeOK /\ InHand)'
    BY <2>9, RowTypes DEF DeleteUser
  <2>10. CASE WebRestart
    BY <2>10, RowTypes DEF WebRestart
  <2>11. ASSUME NEW w \in Workers, NEW j \in JobIds, NEW a \in Accounts, Claim(w, j, a)
         PROVE (TypeOK /\ InHand)'
    <3>1. Expired \in [JobIds -> [Accounts -> ItemStatus]]
      BY DEF Expired, ItemStatus, ActiveStatus
    <3>2. item' \in [JobIds -> [Accounts -> ItemStatus]]
      BY <2>11, <3>1 DEF Claim, ItemStatus, ActiveStatus
    <3>3. job' \in [JobIds -> JobRow]
      BY <2>11, RestatedType DEF Claim
    <3>4. worker' \in [Workers -> TaskRow]
      <4>1. job[j].mode \in Modes \cup {"none"}
        BY DEF JobRow
      <4> QED BY <2>11, <4>1 DEF Claim, TaskRow, JobIds
    <3>5. \A v \in Workers : worker'[v].pc # "idle" =>
            worker'[v].job \in JobIds /\ worker'[v].account \in Accounts
      BY <2>11 DEF Claim
    <3> QED BY <2>11, <3>2, <3>3, <3>4, <3>5 DEF Claim
  <2>12. ASSUME NEW w \in Workers, NEW ok \in BOOLEAN, SyncEnds(w, ok)
         PROVE (TypeOK /\ InHand)'
    <3>1. worker' \in [Workers -> TaskRow]
      <4>1. [worker[w] EXCEPT !.pc = "settle", !.ok = ok] \in TaskRow
        BY DEF TaskRow
      <4> QED BY <2>12, <4>1 DEF SyncEnds
    <3>2. \A v \in Workers : worker'[v].pc # "idle" =>
            worker'[v].job \in JobIds /\ worker'[v].account \in Accounts
      BY <2>12 DEF SyncEnds
    <3> QED BY <2>12, <3>1, <3>2 DEF SyncEnds
  <2>13. ASSUME NEW w \in Workers, Settle(w) PROVE (TypeOK /\ InHand)'
    <3> DEFINE j == worker[w].job
               a == worker[w].account
    <3>1. j \in JobIds /\ a \in Accounts
      BY <2>13 DEF Settle
    <3>2. worker[w].ok \in BOOLEAN
      BY DEF TaskRow
    <3>3. Counted(job[j], worker[w].ok) \in JobRow
      BY <3>1, <3>2, CountedType
    <3>4. job' \in [JobIds -> JobRow]
      BY <2>13, <3>3 DEF Settle
    <3>5. item' \in [JobIds -> [Accounts -> ItemStatus]]
      <4>1. "succeeded" \in ItemStatus /\ "failed" \in ItemStatus
        BY DEF ItemStatus, SettledStatus
      <4>2. CASE StillRunning(j, a)
        <5>1. item' = [item EXCEPT ![j][a] = IF worker[w].ok THEN "succeeded" ELSE "failed"]
          BY <2>13, <4>2 DEF Settle
        <5>2. item \in [JobIds -> [Accounts -> ItemStatus]]
          OBVIOUS
        <5>3. (IF worker[w].ok THEN "succeeded" ELSE "failed") \in ItemStatus
          BY <4>1
        <5> QED BY <5>1, <5>2, <5>3
      <4>3. CASE ~StillRunning(j, a)
        BY <2>13, <4>3 DEF Settle
      <4> QED BY <4>2, <4>3
    <3>6. lapsed' \subseteq JobIds \X Accounts /\ recent' \subseteq JobIds
      BY <2>13, <3>1 DEF Settle
    <3>7. worker' \in [Workers -> TaskRow]
      BY <2>13, RowTypes DEF Settle
    <3>8. \A v \in Workers : worker'[v].pc # "idle" =>
            worker'[v].job \in JobIds /\ worker'[v].account \in Accounts
      BY <2>13 DEF Settle, Idle
    <3> QED BY <2>13, <3>4, <3>5, <3>6, <3>7, <3>8 DEF Settle
  <2>14. ASSUME NEW w \in Workers, RenewLease(w) PROVE (TypeOK /\ InHand)'
    BY <2>14 DEF RenewLease
  <2>15. ASSUME NEW j \in JobIds, NEW a \in Accounts, LeaseLapses(j, a)
         PROVE (TypeOK /\ InHand)'
    BY <2>15 DEF LeaseLapses
  <2>16. ASSUME NEW j \in JobIds, CooldownEnds(j) PROVE (TypeOK /\ InHand)'
    BY <2>16 DEF CooldownEnds
  <2>17. CASE Crash
    <3>1. \A v \in Workers : worker'[v].pc = "idle"
      BY <2>17 DEF Crash, Idle
    <3>2. worker' \in [Workers -> TaskRow] /\ crashes' \in Nat
      BY <2>17, RowTypes DEF Crash
    <3> QED BY <2>17, <3>1, <3>2 DEF Crash
  <2>18. CASE Start
    <3>1. item' \in [JobIds -> [Accounts -> ItemStatus]]
      BY <2>18 DEF Start, Requeued, ItemStatus, ActiveStatus
    <3>2. ASSUME NEW j \in JobIds PROVE job'[j] \in JobRow
      BY <2>18 DEF Start, Requeued, JobRow
    <3>3. job' \in [JobIds -> JobRow]
      BY <2>18, <3>2 DEF Start
    <3> QED BY <2>18, <3>1, <3>3 DEF Start
  <2>19. CASE UNCHANGED vars
    BY <2>19 DEF vars
  <2> QED
    BY <2>0, <2>1, <2>2, <2>3, <2>4, <2>5, <2>6, <2>7, <2>8, <2>9, <2>10, <2>11, <2>12,
       <2>13, <2>14, <2>15, <2>16, <2>17, <2>18, <2>19
       DEF Next, Web, Job, Environment, ClaimNext, FinishSync
<1> QED BY <1>1, <1>2, PTL DEF Spec

-----------------------------------------------------------------------------
(* Counters                                                                *)

\* The items of a job in some statuses can be counted.
LEMMA FiniteIn ==
  ASSUME NEW row, NEW S
  PROVE  IsFiniteSet(In(row, S)) /\ Cardinality(In(row, S)) \in Nat
  BY AccountsAssumption, FS_Subset, FS_CardinalityType DEF In

\* A job without items has counters of zero.
LEMMA BlankTallies == Tallies(NoJob, NoItems)
<1>1. \A S : "none" \notin S => In(NoItems, S) = {}
  BY DEF In, NoItems
<1> QED BY <1>1, FS_EmptySet DEF Tallies, NoJob, ActiveStatus, SettledStatus

\* A new job: all of its items are queued.
LEMMA NewTallies ==
  ASSUME NEW V \in SUBSET Accounts, V # {}, NEW r \in JobRow,
         r.status = "queued", r.total = Cardinality(V),
         r.completed = 0, r.succeeded = 0, r.failed = 0
  PROVE  Tallies(r, [a \in Accounts |-> IF a \in V THEN "queued" ELSE "none"])
<1> DEFINE row == [a \in Accounts |-> IF a \in V THEN "queued" ELSE "none"]
<1>1. In(row, ActiveStatus \cup SettledStatus) = V /\ In(row, ActiveStatus) = V
  BY DEF In, ActiveStatus, SettledStatus
<1>2. In(row, SettledStatus) = {} /\ In(row, {"succeeded"}) = {} /\ In(row, {"failed"}) = {}
  BY DEF In, SettledStatus
<1> QED BY <1>1, <1>2, FS_EmptySet DEF Tallies, ActiveStatus

\* Claiming, expiring and requeueing move items between queued and running.
LEMMA MovedTallies ==
  ASSUME NEW r \in JobRow, NEW row \in [Accounts -> ItemStatus],
         NEW row2 \in [Accounts -> ItemStatus], Tallies(r, row),
         \A a \in Accounts : row2[a] = row[a] \/ {row[a], row2[a]} \subseteq ActiveStatus,
         NEW s, s = r.status \/ (s \in ActiveStatus /\ In(row, ActiveStatus) # {})
  PROVE  Tallies([r EXCEPT !.status = s], row2)
<1> DEFINE r2 == [r EXCEPT !.status = s]
<1>1. /\ r2.status = s /\ r2.total = r.total /\ r2.completed = r.completed
      /\ r2.succeeded = r.succeeded /\ r2.failed = r.failed
  BY DEF JobRow
<1>2. /\ In(row2, ActiveStatus) = In(row, ActiveStatus)
      /\ In(row2, SettledStatus) = In(row, SettledStatus)
      /\ In(row2, ActiveStatus \cup SettledStatus) = In(row, ActiveStatus \cup SettledStatus)
      /\ In(row2, {"succeeded"}) = In(row, {"succeeded"})
      /\ In(row2, {"failed"}) = In(row, {"failed"})
  BY DEF In, ActiveStatus, SettledStatus
<1>3. s = "none" => row2 = NoItems
  BY DEF Tallies, ActiveStatus, NoItems
<1> HIDE DEF r2
<1>4. Tallies(r2, row2)
  BY <1>1, <1>2, <1>3 DEF Tallies, ActiveStatus
<1> QED BY <1>4 DEF r2

\* complete_refresh_job_item on an item that is still running.
LEMMA CountedTallies ==
  ASSUME NEW r \in JobRow, NEW row \in [Accounts -> ItemStatus], NEW a \in Accounts,
         Tallies(r, row), row[a] = "running", NEW ok \in BOOLEAN
  PROVE  Tallies(Counted(r, ok), [row EXCEPT ![a] = IF ok THEN "succeeded" ELSE "failed"])
<1> DEFINE row2 == [row EXCEPT ![a] = IF ok THEN "succeeded" ELSE "failed"]
           r2 == Counted(r, ok)
<1>1. /\ r2.total = r.total /\ r2.completed = r.completed + 1
      /\ r2.succeeded = IF ok THEN r.succeeded + 1 ELSE r.succeeded
      /\ r2.failed = IF ok THEN r.failed ELSE r.failed + 1
      /\ r2.status = IF r.completed + 1 >= r.total THEN "completed" ELSE "running"
  BY DEF Counted, JobRow
<1>2. \A b \in Accounts : row2[b] = IF b = a THEN IF ok THEN "succeeded" ELSE "failed" ELSE row[b]
  OBVIOUS
<1> HIDE DEF row2, r2
<1>3. /\ In(row2, SettledStatus) = In(row, SettledStatus) \cup {a}
      /\ In(row2, ActiveStatus) = In(row, ActiveStatus) \ {a}
      /\ In(row2, ActiveStatus \cup SettledStatus) = In(row, ActiveStatus \cup SettledStatus)
      /\ a \in In(row, ActiveStatus)
      /\ a \notin In(row, SettledStatus) /\ a \notin In(row, {"succeeded"})
      /\ a \notin In(row, {"failed"})
  BY <1>2 DEF In, ActiveStatus, SettledStatus
<1>4. Cardinality(In(row2, SettledStatus)) = Cardinality(In(row, SettledStatus)) + 1
  BY <1>3, FiniteIn, FS_AddElement
<1>5. /\ Cardinality(In(row2, {"succeeded"})) =
           IF ok THEN Cardinality(In(row, {"succeeded"})) + 1 ELSE Cardinality(In(row, {"succeeded"}))
      /\ Cardinality(In(row2, {"failed"})) =
           IF ok THEN Cardinality(In(row, {"failed"})) ELSE Cardinality(In(row, {"failed"})) + 1
  <2>1. CASE ok
    <3>1. In(row2, {"succeeded"}) = In(row, {"succeeded"}) \cup {a}
      BY <1>2, <2>1 DEF In
    <3>2. In(row2, {"failed"}) = In(row, {"failed"})
      BY <1>2, <2>1 DEF In
    <3> QED BY <3>1, <3>2, <1>3, <2>1, FiniteIn, FS_AddElement
  <2>2. CASE ~ok
    <3>1. In(row2, {"succeeded"}) = In(row, {"succeeded"})
      BY <1>2, <2>2 DEF In
    <3>2. In(row2, {"failed"}) = In(row, {"failed"}) \cup {a}
      BY <1>2, <2>2 DEF In
    <3> QED BY <3>1, <3>2, <1>3, <2>2, FiniteIn, FS_AddElement
  <2> QED BY <2>1, <2>2
<1>6. In(row2, ActiveStatus) = {} <=> r.completed + 1 >= r.total
  <2> DEFINE A == In(row2, ActiveStatus)
             B == In(row2, SettledStatus)
             T == In(row2, ActiveStatus \cup SettledStatus)
  <2>1. T = A \cup B /\ A \cap B = {}
    BY DEF In, ActiveStatus, SettledStatus
  <2>2. r.completed + 1 = Cardinality(B) /\ r.total = Cardinality(T)
    BY <1>3, <1>4 DEF Tallies
  <2>3. IsFiniteSet(T) /\ B \subseteq T
    BY FiniteIn, <2>1
  <2> HIDE DEF A, B, T
  <2>4. Cardinality(B) <= Cardinality(T) /\ (Cardinality(B) = Cardinality(T) <=> B = T)
    BY <2>3, FS_Subset
  <2>5. A = {} <=> B = T
    BY <2>1
  <2>6. Cardinality(B) \in Nat /\ Cardinality(T) \in Nat
    BY <2>3, FS_Subset, FS_CardinalityType
  <2> QED BY <2>2, <2>4, <2>5, <2>6 DEF A
<1>7. In(row2, SettledStatus) # {}
  BY <1>3
<1>8. Tallies(r2, row2)
  BY <1>1, <1>3, <1>4, <1>5, <1>6, <1>7 DEF Tallies, ActiveStatus
<1> QED BY <1>8 DEF r2, row2

\* Expiring leases and requeueing keep the statuses of items well typed.
LEMMA ExpiredType ==
  ASSUME item \in [JobIds -> [Accounts -> ItemStatus]]
  PROVE  /\ Expired \in [JobIds -> [Accounts -> ItemStatus]]
         /\ \A j \in JobIds, a \in Accounts :
              Expired[j][a] = item[j][a] \/ {Expired[j][a], item[j][a]} \subseteq ActiveStatus
  BY DEF Expired, ItemStatus, ActiveStatus

\* A step of the queue keeps each job's counters in agreement with its items.
LEMMA CountersStep ==
  ASSUME TypeOK, InHand, CountersAgree, [Next]_vars
  PROVE  CountersAgree'
<1> USE DEF CountersAgree
<1>a. /\ job \in [JobIds -> JobRow] /\ item \in [JobIds -> [Accounts -> ItemStatus]]
      /\ worker \in [Workers -> TaskRow]
  BY DEF TypeOK
<1>1. CASE UNCHANGED <<job, item>>
  BY <1>1 DEF Tallies, In
<1>2. ASSUME NEW P \in SUBSET JobIds, JobAccepted(P) PROVE CountersAgree'
  <2>1. NewJob \in JobRow
    <3>1. Valid \in SUBSET Accounts /\ Cardinality(Valid) \in Nat
      BY AccountsAssumption, FS_Subset, FS_CardinalityType DEF Valid, Live
    <3>2. web \in CallRow
      BY DEF TypeOK
    <3> QED BY <3>1, <3>2 DEF NewJob, JobRow, CallRow
  <2>2. Tallies(NewJob, [a \in Accounts |-> IF a \in Valid THEN "queued" ELSE "none"])
    <3>1. Valid \in SUBSET Accounts /\ Valid # {}
      BY <1>2 DEF Valid, Live, JobAccepted, Admissible
    <3>2. /\ NewJob.status = "queued" /\ NewJob.total = Cardinality(Valid)
          /\ NewJob.completed = 0 /\ NewJob.succeeded = 0 /\ NewJob.failed = 0
      BY DEF NewJob
    <3> QED BY <2>1, <3>1, <3>2, NewTallies
  <2>3. ASSUME NEW j \in JobIds PROVE Tallies(job'[j], item'[j])
    BY <1>2, <2>2, BlankTallies DEF JobAccepted
  <2> QED BY <2>3 DEF Tallies, In
<1>3. ASSUME NEW P \in SUBSET JobIds, JobJoined(P) PROVE CountersAgree'
  <2>1. ASSUME NEW j \in JobIds PROVE Tallies(job'[j], item'[j])
    BY <1>3, BlankTallies DEF JobJoined
  <2> QED BY <2>1 DEF Tallies, In
<1>4. ASSUME NEW u \in Users, DeleteUser(u) PROVE CountersAgree'
  <2>1. ASSUME NEW j \in JobIds PROVE Tallies(job'[j], item'[j])
    BY <1>4, BlankTallies DEF DeleteUser
  <2> QED BY <2>1 DEF Tallies, In
<1>5. ASSUME NEW w \in Workers, NEW j \in JobIds, NEW a \in Accounts, Claim(w, j, a)
      PROVE CountersAgree'
  <2>1. Expired[j][a] = "queued" /\ job[j].status \in ActiveStatus
    BY <1>5 DEF Claim, Claimable
  <2>2. item' = [Expired EXCEPT ![j][a] = "running"]
    BY <1>5 DEF Claim
  <2>3. \A k \in JobIds : item'[k] \in [Accounts -> ItemStatus]
    BY <1>a, <2>2, ExpiredType DEF ItemStatus, ActiveStatus
  <2>4. \A k \in JobIds, b \in Accounts :
          item'[k][b] = item[k][b] \/ {item[k][b], item'[k][b]} \subseteq ActiveStatus
    BY <1>a, <2>1, <2>2, ExpiredType DEF ActiveStatus
  <2>5. In(item[j], ActiveStatus) # {}
    BY <1>a, <2>1, ExpiredType DEF In, ActiveStatus
  <2>6. job' = [job EXCEPT ![j] = [job[j] EXCEPT !.status = "running"]]
    BY <1>5 DEF Claim
  <2>7. ASSUME NEW k \in JobIds PROVE Tallies(job'[k], item'[k])
    <3>1. /\ Tallies(job[k], item[k]) /\ job[k] \in JobRow
          /\ item[k] \in [Accounts -> ItemStatus] /\ item'[k] \in [Accounts -> ItemStatus]
      BY <1>a, <2>3
    <3>2. CASE k = j
      <4>1. Tallies([job[k] EXCEPT !.status = "running"], item'[k])
        BY <3>1, <3>2, <2>4, <2>5, MovedTallies DEF ActiveStatus
      <4> QED BY <3>2, <4>1, <2>6, <1>a
    <3>3. CASE k # j
      <4>1. Tallies([job[k] EXCEPT !.status = job[k].status], item'[k])
        BY <3>1, <2>4, MovedTallies
      <4>2. [job[k] EXCEPT !.status = job[k].status] = job[k]
        BY <3>1 DEF JobRow
      <4> QED BY <3>3, <4>1, <4>2, <2>6, <1>a
    <3> QED BY <3>2, <3>3
  <2> QED BY <2>7 DEF Tallies, In
<1>6. ASSUME NEW w \in Workers, Settle(w) PROVE CountersAgree'
  <2> DEFINE j == worker[w].job
             a == worker[w].account
  <2>1. CASE ~StillRunning(j, a)
    <3>1. UNCHANGED <<job, item>>
      BY <1>6, <2>1 DEF Settle
    <3> QED BY <3>1, <1>1
  <2>2. CASE StillRunning(j, a)
    <3>1. j \in JobIds /\ a \in Accounts
      BY <1>6 DEF Settle, InHand
    <3>2. worker[w].ok \in BOOLEAN
      BY <1>a DEF TaskRow
    <3>3. /\ item' = [item EXCEPT ![j][a] = IF worker[w].ok THEN "succeeded" ELSE "failed"]
          /\ job' = [job EXCEPT ![j] = Counted(job[j], worker[w].ok)]
      BY <1>6, <2>2 DEF Settle
    <3> HIDE DEF j, a
    <3>4. item[j][a] = "running"
      BY <2>2 DEF StillRunning
    <3>5. Tallies(Counted(job[j], worker[w].ok),
                  [item[j] EXCEPT ![a] = IF worker[w].ok THEN "succeeded" ELSE "failed"])
      BY <1>a, <3>1, <3>2, <3>4, CountedTallies
    <3>6. ASSUME NEW k \in JobIds PROVE Tallies(job'[k], item'[k])
      BY <1>a, <3>1, <3>3, <3>5
    <3> QED BY <3>6 DEF Tallies, In
  <2> QED BY <2>1, <2>2
<1>7. CASE Start
  <2>1. ASSUME NEW k \in JobIds PROVE Tallies(job'[k], item'[k])
    <3>1. /\ Tallies(job[k], item[k]) /\ job[k] \in JobRow
          /\ item[k] \in [Accounts -> ItemStatus]
      BY <1>a
    <3>2. /\ item'[k] = [a \in Accounts |-> Requeued(item[k][a])]
          /\ job'[k] = [job[k] EXCEPT !.status = Requeued(job[k].status)]
      BY <1>7 DEF Start
    <3>3. item'[k] \in [Accounts -> ItemStatus]
      BY <3>1, <3>2 DEF Requeued, ItemStatus, ActiveStatus
    <3>4. \A a \in Accounts :
            item'[k][a] = item[k][a] \/ {item[k][a], item'[k][a]} \subseteq ActiveStatus
      BY <3>1, <3>2 DEF Requeued, ActiveStatus
    <3>5. Requeued(job[k].status) = job[k].status
          \/ (Requeued(job[k].status) \in ActiveStatus /\ In(item[k], ActiveStatus) # {})
      BY <3>1 DEF Requeued, Tallies, ActiveStatus
    <3> QED BY <3>1, <3>2, <3>3, <3>4, <3>5, MovedTallies
  <2> QED BY <2>1 DEF Tallies, In
<1> QED
  BY <1>1, <1>2, <1>3, <1>4, <1>5, <1>6, <1>7
     DEF Next, Web, Job, Environment, ClaimNext, FinishSync, vars, tables, process,
         ImportAccounts, CompleteDeviceFlow, RefreshAccounts, SyncMessages, RefreshPublicMail, JobRefused,
         DeleteAccounts, WebRestart, SyncEnds, RenewLease, LeaseLapses, CooldownEnds, Crash

\* The counters of every job agree with its items, and completed means that
\* none is left, in every reachable state.
THEOREM CountersCorrect == Spec => []CountersAgree
<1>1. Init => CountersAgree
  BY BlankTallies DEF Init, CountersAgree
<1>2. TypeOK /\ InHand /\ CountersAgree /\ [Next]_vars => CountersAgree'
  BY CountersStep
<1> QED BY <1>1, <1>2, TypeCorrect, PTL DEF Spec

-----------------------------------------------------------------------------
(* One active item per mailbox, and a flag that its item will clear        *)

\* Rows of jobs not created yet are blank, and a job's items are of accounts
\* of its owner.
Placed ==
  \A j \in JobIds :
    /\ j >= nextJob => item[j] = NoItems
    /\ \A a \in Accounts : item[j][a] # "none" => job[j].owner = OwnerOf[a]

\* A worker knows the mode of its job, and one about to settle an active item
\* of a full job has seen to the flag.
Acknowledged ==
  \A w \in Workers :
    LET j == worker[w].job
        a == worker[w].account
    IN  worker[w].pc # "idle" =>
          /\ j < nextJob
          /\ item[j][a] \in ActiveStatus =>
               /\ worker[w].mode = job[j].mode
               /\ worker[w].pc = "settle" /\ job[j].mode = "full" => a \notin pending

QueueInv ==
  /\ TypeOK /\ InHand /\ CountersAgree
  /\ Placed /\ OneActiveItemPerAccount /\ PendingHasJob /\ Acknowledged

\* An active item belongs to a job that is not completed.
LEMMA ActiveJobs ==
  ASSUME CountersAgree, TypeOK
  PROVE  \A j \in JobIds, a \in Accounts :
           item[j][a] \in ActiveStatus => job[j].status \in ActiveStatus
<1> SUFFICES ASSUME NEW j \in JobIds, NEW a \in Accounts, item[j][a] \in ActiveStatus
             PROVE  job[j].status \in ActiveStatus
  OBVIOUS
<1>1. a \in In(item[j], ActiveStatus) /\ item[j] # NoItems
  BY DEF In, ActiveStatus, NoItems
<1>2. job[j].status \in {"none", "queued", "running", "completed"}
  BY DEF TypeOK, JobRow
<1>3. Tallies(job[j], item[j])
  BY DEF CountersAgree
<1> QED BY <1>1, <1>2, <1>3 DEF Tallies, ActiveStatus

\* What a step may do without touching the invariant: drop flags, with them the
\* row of an account, and leave the jobs and the workers alone.
LEMMA QuietStep ==
  ASSUME QueueInv, UNCHANGED <<job, item, worker, nextJob>>, pending' \subseteq pending,
         \A a \in pending' : account'[a] = account[a]
  PROVE  (Placed /\ OneActiveItemPerAccount /\ PendingHasJob /\ Acknowledged)'
<1> USE DEF QueueInv
<1>1. Placed' /\ OneActiveItemPerAccount'
  BY DEF Placed, OneActiveItemPerAccount
<1>2. PendingHasJob'
  BY DEF PendingHasJob, HasFullItem
<1>3. Acknowledged'
  BY DEF Acknowledged
<1> QED BY <1>1, <1>2, <1>3

\* What a step that forgets the jobs in G does to the invariant, when none of
\* them keeps a flag alive.
LEMMA ForgettingStep ==
  ASSUME QueueInv, NEW G \in SUBSET JobIds, UNCHANGED <<worker, nextJob>>,
         item' = [j \in JobIds |-> IF j \in G THEN NoItems ELSE item[j]],
         job' = [j \in JobIds |-> IF j \in G THEN NoJob ELSE job[j]],
         pending' \subseteq pending,
         \A a \in pending' : account'[a] = account[a] /\ \A j \in G : item[j][a] \notin ActiveStatus
  PROVE  (Placed /\ OneActiveItemPerAccount /\ PendingHasJob /\ Acknowledged)'
<1> USE DEF QueueInv
<1>0. \A a \in Accounts : NoItems[a] = "none" /\ "none" \notin ActiveStatus
  BY DEF NoItems, ActiveStatus
<1>1. Placed'
  BY <1>0 DEF Placed
<1>2. OneActiveItemPerAccount'
  BY <1>0 DEF OneActiveItemPerAccount
<1>3. PendingHasJob'
  BY DEF PendingHasJob, HasFullItem
<1>4. Acknowledged'
  <2>a. \A w \in Workers : worker[w].pc # "idle" => worker[w].job < nextJob'
    BY DEF Acknowledged
  <2> SUFFICES ASSUME NEW w \in Workers, worker[w].pc # "idle",
                      item'[worker[w].job][worker[w].account] \in ActiveStatus
               PROVE  /\ worker[w].mode = job'[worker[w].job].mode
                      /\ worker[w].pc = "settle" /\ job'[worker[w].job].mode = "full"
                           => worker[w].account \notin pending'
    BY <2>a DEF Acknowledged
  <2>1. worker[w].job \in JobIds /\ worker[w].account \in Accounts
    BY DEF InHand
  <2>2. worker[w].job \notin G
    BY <1>0, <2>1
  <2> QED BY <2>1, <2>2 DEF Acknowledged
<1> QED BY <1>1, <1>2, <1>3, <1>4

\* Every step keeps what the queue promises and what that rests on.
LEMMA QueueStep ==
  ASSUME QueueInv, [Next]_vars
  PROVE  (Placed /\ OneActiveItemPerAccount /\ PendingHasJob /\ Acknowledged)'
<1> DEFINE Goal == (Placed /\ OneActiveItemPerAccount /\ PendingHasJob /\ Acknowledged)'
<1>a. /\ job \in [JobIds -> JobRow] /\ item \in [JobIds -> [Accounts -> ItemStatus]]
      /\ worker \in [Workers -> TaskRow] /\ pending \subseteq Accounts
      /\ nextJob \in Nat /\ web \in CallRow
      /\ account \in [Accounts -> {"absent", "live", "deleted"}]
  BY BoundsAssumption DEF QueueInv, TypeOK
<1>1. ASSUME NEW u \in Users, NEW ids \in SUBSET Accounts, ImportAccounts(u, ids) PROVE Goal
  BY <1>1, <1>a, QuietStep DEF ImportAccounts, process
<1>2. ASSUME NEW u \in Users, NEW ids \in SUBSET Accounts, RefreshAccounts(u, ids) PROVE Goal
  BY <1>2, QuietStep DEF RefreshAccounts, tables, process
<1>3. ASSUME NEW u \in Users, NEW ids \in SUBSET Accounts, DeleteAccounts(u, ids) PROVE Goal
  BY <1>3, <1>a, QuietStep DEF DeleteAccounts, process
<1>0. ASSUME NEW a \in Accounts, CompleteDeviceFlow(a) PROVE Goal
  BY <1>0, <1>a, QuietStep DEF CompleteDeviceFlow, process
<1>4. ASSUME NEW a \in Accounts, SyncMessages(a) PROVE Goal
  BY <1>4, QuietStep DEF SyncMessages, tables, process
<1>5. ASSUME NEW t \in Tokens, RefreshPublicMail(t) PROVE Goal
  BY <1>5, QuietStep DEF RefreshPublicMail, tables, process
<1>6. ASSUME NEW P \in SUBSET JobIds, JobAccepted(P) PROVE Goal
  <2> DEFINE new == nextJob
  <2>1. /\ new \in JobIds /\ item[new] = NoItems /\ new' = new + 1
        /\ \A j \in P : \A a \in Accounts : item[j][a] \notin ActiveStatus
    <3>1. new \in JobIds /\ new >= new
      BY <1>6, <1>a DEF JobAccepted, QueueInv, InHand
    <3>2. item[new] = NoItems
      BY <3>1 DEF QueueInv, Placed
    <3>3. \A j \in P : job[j].status = "completed"
      BY <1>6 DEF JobAccepted, Purged
    <3> QED BY <1>6, <3>1, <3>2, <3>3, ActiveJobs DEF JobAccepted, QueueInv, ActiveStatus
  <2>2. \A a \in Valid : a \in Accounts /\ account[a] = "live" /\ OwnerOf[a] = web.owner
    BY DEF Valid, Live, Owned
  <2>3. \A a \in Valid, j \in JobIds : item[j][a] \notin ActiveStatus
    <3> SUFFICES ASSUME NEW a \in Valid, NEW j \in JobIds, item[j][a] \in ActiveStatus
                 PROVE  FALSE
      OBVIOUS
    <3>1. job[j].owner = web.owner
      BY <2>2 DEF QueueInv, Placed, ActiveStatus
    <3>2. job[j].status \in ActiveStatus
      BY <2>2, ActiveJobs DEF QueueInv
    <3> QED BY <1>6, <3>1, <3>2 DEF JobAccepted, Admissible, Busy, ActiveOn
  <2>4. \A j \in JobIds, a \in Accounts :
          item'[j][a] = IF j = new THEN IF a \in Valid THEN "queued" ELSE "none"
                        ELSE IF j \in P THEN "none" ELSE item[j][a]
    BY <1>6 DEF JobAccepted, NoItems
  <2>5. \A j \in JobIds : job'[j] = IF j = new THEN NewJob
                                    ELSE IF j \in P THEN NoJob ELSE job[j]
    BY <1>6 DEF JobAccepted
  <2>6. NewJob.owner = web.owner /\ NewJob.mode = web.mode
    BY DEF NewJob
  <2>7. Placed'
    <3>1. \A j \in JobIds : j >= new' => item'[j] = NoItems
      <4> SUFFICES ASSUME NEW j \in JobIds, j >= new' PROVE item'[j] = NoItems
        OBVIOUS
      <4>1. j # new /\ j >= new
        BY <1>a, <2>1 DEF JobIds
      <4> QED BY <1>6, <4>1 DEF JobAccepted, QueueInv, Placed
    <3>2. \A j \in JobIds, a \in Accounts : item'[j][a] # "none" => job'[j].owner = OwnerOf[a]
      BY <2>2, <2>4, <2>5, <2>6 DEF QueueInv, Placed
    <3> QED BY <3>1, <3>2 DEF Placed
  <2>8. OneActiveItemPerAccount'
    <3>1. "none" \notin ActiveStatus
      BY DEF ActiveStatus
    <3> QED BY <2>3, <2>4, <3>1 DEF QueueInv, OneActiveItemPerAccount
  <2>9. PendingHasJob'
    <3> SUFFICES ASSUME NEW a \in pending' PROVE account'[a] = "live" /\ HasFullItem(a)'
      BY DEF PendingHasJob
    <3>1. account' = account
      BY <1>6 DEF JobAccepted
    <3>2. CASE a \in Valid /\ web.mode = "full"
      <4>1. item'[new][a] = "queued" /\ job'[new].mode = "full"
        BY <2>1, <2>2, <2>4, <2>5, <2>6, <3>2
      <4> QED BY <2>1, <2>2, <3>1, <3>2, <4>1 DEF HasFullItem, ActiveStatus
    <3>3. CASE ~(a \in Valid /\ web.mode = "full")
      <4>1. a \in pending /\ a \in Accounts
        BY <1>6, <1>a, <3>3 DEF JobAccepted
      <4>2. PICK j \in JobIds : job[j].mode = "full" /\ item[j][a] \in ActiveStatus
        BY <4>1 DEF QueueInv, PendingHasJob, HasFullItem
      <4>3. j # new /\ j \notin P
        BY <2>1, <4>1, <4>2 DEF NoItems, ActiveStatus
      <4>4. item'[j][a] = item[j][a] /\ job'[j] = job[j]
        BY <2>4, <2>5, <4>1, <4>3
      <4> QED BY <3>1, <4>1, <4>2, <4>4 DEF HasFullItem, QueueInv, PendingHasJob
    <3> QED BY <3>2, <3>3
  <2>10. Acknowledged'
    <3>a. \A w \in Workers : worker[w].pc # "idle" =>
            worker[w].job < new /\ worker[w].job < new'
      BY <2>1, <1>a DEF QueueInv, Acknowledged, InHand, JobIds
    <3> SUFFICES ASSUME NEW w \in Workers, worker[w].pc # "idle",
                        item'[worker[w].job][worker[w].account] \in ActiveStatus
                 PROVE  /\ worker[w].mode = job'[worker[w].job].mode
                        /\ worker[w].pc = "settle" /\ job'[worker[w].job].mode = "full"
                             => worker[w].account \notin pending'
      BY <1>6, <3>a DEF Acknowledged, JobAccepted, process
    <3> DEFINE j == worker[w].job
               a == worker[w].account
    <3>1. j \in JobIds /\ a \in Accounts
      BY DEF QueueInv, InHand
    <3>2. j # new
      BY <3>a, <3>1, <1>a DEF JobIds
    <3>3. item'[j][a] = item[j][a] /\ job'[j] = job[j] /\ item[j][a] \in ActiveStatus
      BY <2>4, <2>5, <3>1, <3>2 DEF ActiveStatus
    <3>4. a \notin Valid
      BY <2>3, <3>1, <3>3
    <3> QED BY <1>6, <3>3, <3>4 DEF JobAccepted, QueueInv, Acknowledged
  <2> QED BY <2>7, <2>8, <2>9, <2>10
<1>7. ASSUME NEW P \in SUBSET JobIds, JobJoined(P) PROVE Goal
  <2>1. \A j \in P : \A a \in Accounts : item[j][a] \notin ActiveStatus
    BY <1>7, ActiveJobs DEF JobJoined, Purged, QueueInv, ActiveStatus
  <2> QED BY <1>7, <1>a, <2>1, ForgettingStep DEF JobJoined, process
<1>8. CASE JobRefused
  BY <1>8, QuietStep DEF JobRefused, tables, process
<1>9. ASSUME NEW u \in Users, DeleteUser(u) PROVE Goal
  <2> DEFINE gone == {j \in JobIds : job[j].owner = u}
  <2>1. \A a \in pending' : a \in pending /\ a \in Accounts /\ OwnerOf[a] # u
    BY <1>9, <1>a DEF DeleteUser, Owned
  <2>2. \A j \in gone, a \in pending' : item[j][a] \notin ActiveStatus
    BY <2>1 DEF QueueInv, Placed, ActiveStatus
  <2>3. \A a \in pending' : account'[a] = account[a]
    BY <1>9, <2>1 DEF DeleteUser, Owned
  <2>4. /\ job' = [j \in JobIds |-> IF j \in gone THEN NoJob ELSE job[j]]
        /\ item' = [j \in JobIds |-> IF j \in gone THEN NoItems ELSE item[j]]
        /\ UNCHANGED <<worker, nextJob>> /\ pending' \subseteq pending
        /\ gone \in SUBSET JobIds
    BY <1>9 DEF DeleteUser, process
  <2> HIDE DEF gone
  <2> QED BY <2>2, <2>3, <2>4, ForgettingStep
<1>10. CASE WebRestart
  BY <1>10, QuietStep DEF WebRestart, process
<1>11. ASSUME NEW w \in Workers, NEW j \in JobIds, NEW a \in Accounts, Claim(w, j, a) PROVE Goal
  <2>1. item' = [Expired EXCEPT ![j][a] = "running"] /\ Expired[j][a] = "queued"
    BY <1>11 DEF Claim, Claimable
  <2>2. \A k \in JobIds, b \in Accounts :
          item'[k][b] = item[k][b] \/ {item[k][b], item'[k][b]} \subseteq ActiveStatus
    BY <1>a, <2>1, ExpiredType DEF ActiveStatus
  <2>3. \A k \in JobIds, b \in Accounts : item'[k][b] \in ActiveStatus <=> item[k][b] \in ActiveStatus
    BY <2>2
  <2>4. \A k \in JobIds : job'[k].owner = job[k].owner /\ job'[k].mode = job[k].mode
    BY <1>11, <1>a DEF Claim, JobRow
  <2>5. UNCHANGED <<account, pending, nextJob>>
    BY <1>11 DEF Claim
  <2>6. Placed'
    <3>1. ASSUME NEW k \in JobIds, k >= nextJob PROVE item'[k] = NoItems
      <4>1. item[k] = NoItems /\ \A b \in Accounts : item[k][b] = "none"
        BY <3>1 DEF QueueInv, Placed, NoItems
      <4>2. k # j /\ Expired[k] = [b \in Accounts |-> "none"]
        BY <1>a, <2>1, <4>1, ExpiredType DEF Expired, ActiveStatus
      <4> QED BY <1>a, <2>1, <4>2, ExpiredType DEF NoItems
    <3>2. ASSUME NEW k \in JobIds, NEW b \in Accounts, item'[k][b] # "none"
          PROVE  job'[k].owner = OwnerOf[b]
      <4>1. item[k][b] # "none"
        BY <2>2, <3>2 DEF ActiveStatus
      <4> QED BY <2>4, <4>1 DEF QueueInv, Placed
    <3> QED BY <3>1, <3>2, <2>5 DEF Placed
  <2>7. OneActiveItemPerAccount'
    BY <2>3 DEF QueueInv, OneActiveItemPerAccount
  <2>8. PendingHasJob'
    BY <1>a, <2>3, <2>4, <2>5 DEF QueueInv, PendingHasJob, HasFullItem
  <2>9. Acknowledged'
    <3>1. item[j] # NoItems /\ j < nextJob /\ item[j][a] \in ActiveStatus
      <4>1. item[j][a] \in ActiveStatus
        BY <1>a, <2>1, ExpiredType DEF ActiveStatus
      <4>2. item[j] # NoItems
        BY <4>1 DEF NoItems, ActiveStatus
      <4> QED BY <1>a, <4>1, <4>2 DEF QueueInv, Placed, JobIds
    <3> SUFFICES ASSUME NEW v \in Workers, worker'[v].pc # "idle"
                 PROVE  /\ worker'[v].job < nextJob'
                        /\ item'[worker'[v].job][worker'[v].account] \in ActiveStatus =>
                             /\ worker'[v].mode = job'[worker'[v].job].mode
                             /\ worker'[v].pc = "settle" /\ job'[worker'[v].job].mode = "full"
                                  => worker'[v].account \notin pending'
      BY DEF Acknowledged
    <3>2. CASE v = w
      <4>1. /\ worker'[v].job = j /\ worker'[v].account = a /\ worker'[v].mode = job[j].mode
            /\ worker'[v].pc = "settle" => account[a] # "live"
        BY <1>11, <1>a, <3>2 DEF Claim
      <4>2. account[a] # "live" => a \notin pending
        BY DEF QueueInv, PendingHasJob
      <4> QED BY <2>4, <2>5, <3>1, <4>1, <4>2
    <3>3. CASE v # w
      <4>1. worker'[v] = worker[v]
        BY <1>11, <1>a, <3>3 DEF Claim
      <4>2. worker[v].job \in JobIds /\ worker[v].account \in Accounts
        BY <4>1 DEF QueueInv, InHand
      <4> QED BY <2>3, <2>4, <2>5, <4>1, <4>2 DEF QueueInv, Acknowledged
    <3> QED BY <3>2, <3>3
  <2> QED BY <2>6, <2>7, <2>8, <2>9
<1>12. ASSUME NEW w \in Workers, NEW ok \in BOOLEAN, SyncEnds(w, ok) PROVE Goal
  <2>1. UNCHANGED <<account, job, item, nextJob>> /\ pending' \subseteq pending
    BY <1>12 DEF SyncEnds
  <2>2. /\ worker[w].pc = "sync" /\ pending' = pending \ Unflagged(w)
        /\ worker' = [worker EXCEPT ![w].pc = "settle", ![w].ok = ok]
    BY <1>12 DEF SyncEnds
  <2>3. Placed' /\ OneActiveItemPerAccount' /\ PendingHasJob'
    BY <2>1 DEF QueueInv, Placed, OneActiveItemPerAccount, PendingHasJob, HasFullItem
  <2>4. Acknowledged'
    <3> SUFFICES ASSUME NEW v \in Workers, worker'[v].pc # "idle"
                 PROVE  /\ worker'[v].job < nextJob'
                        /\ item'[worker'[v].job][worker'[v].account] \in ActiveStatus =>
                             /\ worker'[v].mode = job'[worker'[v].job].mode
                             /\ worker'[v].pc = "settle" /\ job'[worker'[v].job].mode = "full"
                                  => worker'[v].account \notin pending'
      BY DEF Acknowledged
    <3>1. CASE v = w
      <4>1. /\ worker'[v].job = worker[w].job /\ worker'[v].account = worker[w].account
            /\ worker'[v].mode = worker[w].mode
        BY <1>a, <2>2, <3>1 DEF TaskRow
      <4>2. worker[w].mode = "full" => worker[w].account \notin pending'
        BY <2>2 DEF Unflagged
      <4> QED BY <2>1, <2>2, <3>1, <4>1, <4>2 DEF QueueInv, Acknowledged
    <3>2. CASE v # w
      <4>1. worker'[v] = worker[v]
        BY <1>a, <2>2, <3>2
      <4> QED BY <2>1, <4>1 DEF QueueInv, Acknowledged
    <3> QED BY <3>1, <3>2
  <2> QED BY <2>3, <2>4
<1>13. ASSUME NEW w \in Workers, Settle(w) PROVE Goal
  <2> DEFINE j == worker[w].job
             a == worker[w].account
  <2>1. UNCHANGED <<account, pending, nextJob>> /\ worker' = [worker EXCEPT ![w] = Idle]
    BY <1>13 DEF Settle
  <2>2. worker[w].pc = "settle" /\ j \in JobIds /\ a \in Accounts
    BY <1>13 DEF Settle, QueueInv, InHand
  <2>3. \A k \in JobIds : job'[k].owner = job[k].owner /\ job'[k].mode = job[k].mode
    <3>1. \A r \in JobRow, ok \in BOOLEAN :
            Counted(r, ok).owner = r.owner /\ Counted(r, ok).mode = r.mode
      BY DEF Counted, JobRow
    <3>2. worker[w].ok \in BOOLEAN
      BY <1>a DEF TaskRow
    <3>3. job' = job \/ job' = [job EXCEPT ![j] = Counted(job[j], worker[w].ok)]
      BY <1>13 DEF Settle
    <3> HIDE DEF j
    <3> QED BY <1>a, <2>2, <3>1, <3>2, <3>3
  <2>4. \A k \in JobIds, b \in Accounts :
          \/ item'[k][b] = item[k][b]
          \/ k = j /\ b = a /\ item[j][a] = "running" /\ item'[k][b] \in SettledStatus
    <3>1. CASE ~StillRunning(j, a)
      BY <1>13, <3>1 DEF Settle
    <3>2. CASE StillRunning(j, a)
      <4> DEFINE v == IF worker[w].ok THEN "succeeded" ELSE "failed"
      <4>1. item' = [item EXCEPT ![j][a] = v] /\ v \in SettledStatus
        BY <1>13, <3>2 DEF Settle, SettledStatus
      <4>2. item[j][a] = "running"
        BY <3>2 DEF StillRunning
      <4> HIDE DEF v, j, a
      <4> QED BY <1>a, <2>2, <4>1, <4>2
    <3> QED BY <3>1, <3>2
  <2>5. \A k \in JobIds, b \in Accounts :
          item'[k][b] \in ActiveStatus => item'[k][b] = item[k][b]
    BY <2>4 DEF ActiveStatus, SettledStatus
  <2>6. Placed'
    <3>1. ASSUME NEW k \in JobIds, k >= nextJob PROVE item'[k] = NoItems
      <4>1. item[k] = NoItems
        BY <3>1 DEF QueueInv, Placed
      <4>2. item[j][a] # "running" \/ j # k
        BY <2>2, <4>1 DEF NoItems
      <4> QED BY <1>13, <1>a, <4>1, <4>2 DEF Settle, StillRunning
    <3>2. \A k \in JobIds, b \in Accounts : item'[k][b] # "none" => job'[k].owner = OwnerOf[b]
      BY <2>2, <2>3, <2>4 DEF QueueInv, Placed
    <3> QED BY <2>1, <3>1, <3>2 DEF Placed
  <2>7. OneActiveItemPerAccount'
    BY <2>5 DEF QueueInv, OneActiveItemPerAccount
  <2>8. PendingHasJob'
    <3> SUFFICES ASSUME NEW b \in pending' PROVE account'[b] = "live" /\ HasFullItem(b)'
      BY DEF PendingHasJob
    <3>1. b \in pending /\ b \in Accounts /\ account'[b] = "live"
      BY <1>a, <2>1 DEF QueueInv, PendingHasJob
    <3>2. PICK k \in JobIds : job[k].mode = "full" /\ item[k][b] \in ActiveStatus
      BY <3>1 DEF QueueInv, PendingHasJob, HasFullItem
    <3>3. item'[k][b] = item[k][b]
      <4> SUFFICES ASSUME k = j, b = a PROVE FALSE
        BY <2>4, <3>1
      <4> QED BY <2>2, <3>1, <3>2 DEF QueueInv, Acknowledged
    <3> QED BY <2>3, <3>1, <3>2, <3>3 DEF HasFullItem
  <2>9. Acknowledged'
    <3> SUFFICES ASSUME NEW v \in Workers, worker'[v].pc # "idle"
                 PROVE  /\ worker'[v].job < nextJob'
                        /\ item'[worker'[v].job][worker'[v].account] \in ActiveStatus =>
                             /\ worker'[v].mode = job'[worker'[v].job].mode
                             /\ worker'[v].pc = "settle" /\ job'[worker'[v].job].mode = "full"
                                  => worker'[v].account \notin pending'
      BY DEF Acknowledged
    <3>1. v # w /\ worker'[v] = worker[v]
      BY <1>a, <2>1 DEF Idle
    <3>2. worker[v].job \in JobIds /\ worker[v].account \in Accounts
      BY <3>1 DEF QueueInv, InHand
    <3> QED BY <2>1, <2>3, <2>5, <3>1, <3>2 DEF QueueInv, Acknowledged
  <2> QED BY <2>6, <2>7, <2>8, <2>9
<1>14. ASSUME NEW w \in Workers, RenewLease(w) PROVE Goal
  BY <1>14, QuietStep DEF RenewLease, process
<1>15. ASSUME NEW j \in JobIds, NEW a \in Accounts, LeaseLapses(j, a) PROVE Goal
  BY <1>15, QuietStep DEF LeaseLapses
<1>16. ASSUME NEW j \in JobIds, CooldownEnds(j) PROVE Goal
  BY <1>16, QuietStep DEF CooldownEnds, process
<1>17. CASE Crash
  <2>1. UNCHANGED <<account, pending, job, item, nextJob>>
        /\ \A w \in Workers : worker'[w].pc = "idle"
    BY <1>17 DEF Crash, tables, Idle
  <2> QED BY <2>1 DEF QueueInv, Placed, OneActiveItemPerAccount, PendingHasJob, HasFullItem, Acknowledged
<1>18. CASE Start
  <2>1. UNCHANGED <<account, pending, worker, nextJob>>
    BY <1>18 DEF Start
  <2>2. \A k \in JobIds : job'[k].owner = job[k].owner /\ job'[k].mode = job[k].mode
    BY <1>18, <1>a DEF Start, JobRow
  <2>3. \A k \in JobIds, b \in Accounts : item'[k][b] = Requeued(item[k][b])
    BY <1>18 DEF Start
  <2>4. \A k \in JobIds, b \in Accounts :
          /\ item'[k][b] \in ActiveStatus <=> item[k][b] \in ActiveStatus
          /\ item'[k][b] = "none" <=> item[k][b] = "none"
    BY <2>3 DEF Requeued, ActiveStatus
  <2>5. Placed'
    <3>1. ASSUME NEW k \in JobIds, k >= nextJob PROVE item'[k] = NoItems
      BY <1>18, <3>1 DEF Start, Requeued, QueueInv, Placed, NoItems
    <3> QED BY <2>1, <2>2, <2>4, <3>1 DEF QueueInv, Placed
  <2>6. OneActiveItemPerAccount'
    BY <2>4 DEF QueueInv, OneActiveItemPerAccount
  <2>7. PendingHasJob'
    BY <1>a, <2>1, <2>2, <2>4 DEF QueueInv, PendingHasJob, HasFullItem
  <2>8. Acknowledged'
    <3>1. \A w \in Workers : worker[w].pc # "idle" =>
            worker[w].job \in JobIds /\ worker[w].account \in Accounts
      BY DEF QueueInv, InHand
    <3> QED BY <2>1, <2>2, <2>4, <3>1 DEF QueueInv, Acknowledged
  <2> QED BY <2>5, <2>6, <2>7, <2>8
<1>19. CASE UNCHANGED vars
  BY <1>19, QuietStep DEF vars
<1> QED
  BY <1>0, <1>1, <1>2, <1>3, <1>4, <1>5, <1>6, <1>7, <1>8, <1>9, <1>10, <1>11, <1>12,
     <1>13, <1>14, <1>15, <1>16, <1>17, <1>18, <1>19
     DEF Next, Web, Job, Environment, ClaimNext, FinishSync

\* The inductive invariant of the queue.
THEOREM QueueCorrect == Spec => []QueueInv
<1>1. Init => Placed /\ OneActiveItemPerAccount /\ PendingHasJob /\ Acknowledged
  BY DEF Init, Placed, OneActiveItemPerAccount, PendingHasJob, Acknowledged, NoItems, Idle,
         ActiveStatus
<1>2. TypeOK /\ InHand /\ CountersAgree /\ (TypeOK /\ InHand /\ CountersAgree)'
      /\ (Placed /\ OneActiveItemPerAccount /\ PendingHasJob /\ Acknowledged) /\ [Next]_vars
      => (Placed /\ OneActiveItemPerAccount /\ PendingHasJob /\ Acknowledged)'
  BY QueueStep DEF QueueInv
<1>3. QueueInv <=> /\ TypeOK /\ InHand /\ CountersAgree
                   /\ (Placed /\ OneActiveItemPerAccount /\ PendingHasJob /\ Acknowledged)
  BY DEF QueueInv
<1> QED BY <1>1, <1>2, <1>3, TypeCorrect, CountersCorrect, PTL DEF Spec

\* No mailbox ever has two active items, whatever handlers, links, crashes and
\* lapsed leases interleave.
THEOREM RefreshesDeduplicated == Spec => []OneActiveItemPerAccount
<1>1. QueueInv => OneActiveItemPerAccount
  BY DEF QueueInv
<1> QED BY <1>1, QueueCorrect, PTL

\* A full_refresh_pending flag always has an active item that will clear it.
THEOREM FlagsHaveJobs == Spec => []PendingHasJob
<1>1. QueueInv => PendingHasJob
  BY DEF QueueInv
<1> QED BY <1>1, QueueCorrect, PTL

-----------------------------------------------------------------------------
(* Workers and the items they hold                                         *)

\* A worker with nothing to do has nothing in hand, and a process that is down
\* has no workers.
Hands ==
  /\ \A w \in Workers : worker[w].pc = "idle" => worker[w] = Idle
  /\ up \/ \A w \in Workers : worker[w] = Idle

\* The row of the account is gone, and no job has anything left to do for it.
Deserted(a) == account[a] = "deleted" /\ \A j \in JobIds : item[j][a] \notin ActiveStatus

\* While no lease has outlived its holder, a worker's item is running, unless
\* the account went with its owner while the worker was on it.
InCharge ==
  lapses = 0 =>
    /\ lapsed = {}
    /\ \A w \in Workers :
         worker[w] # Idle => \/ item[worker[w].job][worker[w].account] = "running"
                             \/ Deserted(worker[w].account)

WorkersInv == Hands /\ RunningItemsHeld /\ InCharge /\ WorkersApart

\* What a step may do to items without any worker noticing: running items stay,
\* unless they go with the account for good.
LEMMA UnnoticedStep ==
  ASSUME QueueInv, WorkersInv, UNCHANGED <<worker, up>>,
         \A j \in JobIds, a \in Accounts : item'[j][a] = "running" => item[j][a] = "running",
         \A j \in JobIds, a \in Accounts :
           item[j][a] = "running" => item'[j][a] = "running" \/ Deserted(a)',
         \A a \in Accounts : Deserted(a) => Deserted(a)',
         (lapses' = lapses /\ lapsed' \subseteq lapsed) \/ lapses' # 0
  PROVE  WorkersInv'
<1> USE DEF QueueInv, WorkersInv
<1>1. Hands'
  BY DEF Hands
<1>2. RunningItemsHeld'
  BY DEF RunningItemsHeld
<1>3. InCharge'
  <2> SUFFICES ASSUME lapses' = 0
               PROVE  /\ lapsed' = {}
                      /\ \A w \in Workers :
                           worker'[w] # Idle =>
                             \/ item'[worker'[w].job][worker'[w].account] = "running"
                             \/ Deserted(worker[w].account)'
    BY DEF InCharge
  <2>1. lapses = 0 /\ lapsed' = {}
    BY DEF InCharge
  <2> SUFFICES ASSUME NEW w \in Workers, worker[w] # Idle
               PROVE  \/ item'[worker[w].job][worker[w].account] = "running"
                      \/ Deserted(worker[w].account)'
    BY <2>1
  <2>2. PICK j \in JobIds, a \in Accounts : worker[w].job = j /\ worker[w].account = a
    BY DEF Hands, InHand
  <2>3. item[j][a] = "running" \/ Deserted(a)
    BY <2>1, <2>2 DEF InCharge
  <2> QED BY <2>2, <2>3
<1>4. WorkersApart'
  BY DEF WorkersApart
<1> QED BY <1>1, <1>2, <1>3, <1>4

\* Every step keeps the workers apart and their items held.
LEMMA WorkersStep ==
  ASSUME QueueInv, WorkersInv, [Next]_vars
  PROVE  WorkersInv'
<1>a. /\ job \in [JobIds -> JobRow] /\ item \in [JobIds -> [Accounts -> ItemStatus]]
      /\ worker \in [Workers -> TaskRow]
      /\ nextJob \in Nat /\ lapses \in Nat /\ up \in BOOLEAN
      /\ account \in [Accounts -> {"absent", "live", "deleted"}]
  BY BoundsAssumption DEF QueueInv, TypeOK
<1>b. Idle.pc = "idle" /\ Idle.job = 0 /\ Idle.account = None /\ None \notin Accounts
      /\ 0 \notin JobIds
  BY NoneAssumption DEF Idle, JobIds
<1>c. \A w \in Workers : worker[w] # Idle =>
        worker[w].job \in JobIds /\ worker[w].account \in Accounts
  BY DEF WorkersInv, Hands, QueueInv, InHand
\* Items, workers and leases stay as they are, and deleted accounts deleted.
<1>1. CASE /\ UNCHANGED <<item, worker, up>>
           /\ \A a \in Accounts : account[a] = "deleted" => account'[a] = "deleted"
           /\ (lapses' = lapses /\ lapsed' \subseteq lapsed) \/ lapses' # 0
  <2>1. \A a \in Accounts : Deserted(a) => Deserted(a)'
    BY <1>1 DEF Deserted
  <2> QED BY <1>1, <2>1, UnnoticedStep
<1>2. ASSUME NEW P \in SUBSET JobIds, JobAccepted(P) PROVE WorkersInv'
  <2>1. /\ UNCHANGED <<worker, up, lapses, lapsed, account>>
        /\ \A j \in JobIds, a \in Accounts :
             item'[j][a] = IF j = nextJob THEN IF a \in Valid THEN "queued" ELSE "none"
                           ELSE IF j \in P THEN "none" ELSE item[j][a]
    BY <1>2 DEF JobAccepted, NoItems, process
  <2>2. \A a \in Valid : account[a] = "live"
    BY DEF Valid, Live
  <2>3. \A j \in P : \A a \in Accounts : item[j][a] \notin ActiveStatus
    BY <1>2, ActiveJobs DEF JobAccepted, Purged, QueueInv, ActiveStatus
  <2>4. \A a \in Accounts : nextJob \in JobIds => item[nextJob][a] = "none"
    BY <1>a DEF QueueInv, Placed, NoItems
  <2>5. \A a \in Accounts : Deserted(a) => Deserted(a)'
    BY <2>1, <2>2 DEF Deserted, ActiveStatus
  <2> QED BY <2>1, <2>3, <2>4, <2>5, UnnoticedStep DEF ActiveStatus
<1>3. ASSUME NEW P \in SUBSET JobIds, JobJoined(P) PROVE WorkersInv'
  <2>1. /\ UNCHANGED <<worker, up, lapses, lapsed, account>>
        /\ \A j \in JobIds, a \in Accounts :
             item'[j][a] = IF j \in P THEN "none" ELSE item[j][a]
    BY <1>3 DEF JobJoined, NoItems, process
  <2>2. \A j \in P : \A a \in Accounts : item[j][a] \notin ActiveStatus
    BY <1>3, ActiveJobs DEF JobJoined, Purged, QueueInv, ActiveStatus
  <2>3. \A a \in Accounts : Deserted(a) => Deserted(a)'
    BY <2>1 DEF Deserted, ActiveStatus
  <2> QED BY <2>1, <2>2, <2>3, UnnoticedStep DEF ActiveStatus
<1>4. ASSUME NEW u \in Users, DeleteUser(u) PROVE WorkersInv'
  <2>1. /\ UNCHANGED <<worker, up, lapses>> /\ lapsed' \subseteq lapsed
        /\ \A j \in JobIds, a \in Accounts :
             item'[j][a] = IF job[j].owner = u THEN "none" ELSE item[j][a]
        /\ \A a \in Accounts :
             account'[a] = IF OwnerOf[a] = u THEN "deleted" ELSE account[a]
    BY <1>4 DEF DeleteUser, NoItems, process, Owned
  <2>2. \A j \in JobIds, a \in Accounts : item[j][a] # "none" => job[j].owner = OwnerOf[a]
    BY DEF QueueInv, Placed
  <2>3. \A a \in Accounts : Deserted(a) => Deserted(a)'
    BY <2>1 DEF Deserted, ActiveStatus
  <2>4. \A a \in Accounts : OwnerOf[a] = u => Deserted(a)'
    <3> SUFFICES ASSUME NEW a \in Accounts, OwnerOf[a] = u PROVE Deserted(a)'
      OBVIOUS
    <3>1. \A k \in JobIds : item'[k][a] = "none"
      BY <2>1, <2>2
    <3> QED BY <2>1, <3>1 DEF Deserted, ActiveStatus
  <2> QED BY <2>1, <2>2, <2>3, <2>4, UnnoticedStep
<1>5. ASSUME NEW w \in Workers, NEW j \in JobIds, NEW a \in Accounts, Claim(w, j, a)
      PROVE  WorkersInv'
  <2>1. /\ up /\ worker[w] = Idle /\ Expired[j][a] = "queued"
        /\ item' = [Expired EXCEPT ![j][a] = "running"]
        /\ lapsed' = {} /\ UNCHANGED <<up, account, lapses>>
    BY <1>5 DEF Claim, Claimable
  <2>2. /\ \A v \in Workers : v # w => worker'[v] = worker[v]
        /\ worker'[w].pc # "idle" /\ worker'[w].job = j /\ worker'[w].account = a
    BY <1>5, <1>a DEF Claim
  <2>3. \A k \in JobIds, b \in Accounts :
          item'[k][b] = IF k = j /\ b = a THEN "running"
                        ELSE IF <<k, b>> \in lapsed /\ item[k][b] = "running" THEN "queued"
                        ELSE item[k][b]
    BY <1>a, <2>1, ExpiredType DEF Expired
  <2>a. /\ up /\ worker[w] = Idle /\ UNCHANGED <<up, account, lapses>> /\ lapsed' = {}
        /\ item'[j][a] = "running"
        /\ \A k \in JobIds, b \in Accounts :
             item'[k][b] = "running" => (k = j /\ b = a) \/ item[k][b] = "running"
    BY <2>1, <2>3
  <2>4. Hands'
    BY <2>1, <2>2 DEF WorkersInv, Hands
  <2>5. RunningItemsHeld'
    <3> SUFFICES ASSUME NEW k \in JobIds, NEW b \in Accounts, item'[k][b] = "running"
                 PROVE  \E v \in Workers : worker'[v].job = k /\ worker'[v].account = b
      BY DEF RunningItemsHeld
    <3>1. CASE k = j /\ b = a
      BY <2>2, <3>1
    <3>2. CASE ~(k = j /\ b = a)
      <4>1. PICK v \in Workers : worker[v].job = k /\ worker[v].account = b
        BY <2>a, <3>2 DEF WorkersInv, RunningItemsHeld
      <4> QED BY <1>b, <2>a, <2>2, <4>1
    <3> QED BY <3>1, <3>2
  <2>6. ASSUME lapses = 0
        PROVE  /\ lapsed = {} /\ item[j][a] = "queued"
               /\ \A k \in JobIds, b \in Accounts : k # j \/ b # a => item'[k][b] = item[k][b]
    <3>1. lapsed = {}
      BY <2>6 DEF WorkersInv, InCharge
    <3>2. item[j][a] = "queued"
      BY <2>1, <3>1 DEF Expired
    <3> QED BY <2>3, <3>1, <3>2
  <2>7. InCharge'
    <3> SUFFICES ASSUME lapses = 0, NEW v \in Workers, worker'[v] # Idle
                 PROVE  \/ item'[worker'[v].job][worker'[v].account] = "running"
                        \/ Deserted(worker[v].account)'
      BY <2>a DEF InCharge
    <3>1. CASE v = w
      BY <2>2, <2>a, <3>1
    <3>2. CASE v # w
      <4>1. PICK k \in JobIds, b \in Accounts : worker[v].job = k /\ worker[v].account = b
        BY <1>c, <2>2, <3>2
      <4>2. item[k][b] = "running" \/ Deserted(b)
        BY <2>2, <3>2, <4>1 DEF WorkersInv, InCharge
      <4>3. CASE item[k][b] = "running"
        <5>1. item'[k][b] = "running"
          BY <2>a, <2>6, <4>3
        <5> QED BY <2>2, <3>2, <4>1, <5>1
      <4>4. CASE Deserted(b)
        <5>1. b # a
          BY <2>6, <4>4 DEF Deserted, ActiveStatus
        <5>2. Deserted(b)'
          BY <2>a, <2>6, <4>4, <5>1 DEF Deserted
        <5>3. Deserted(worker[v].account)'
          BY <2>2, <3>2, <4>1, <5>2
        <5> QED BY <5>3
      <4> QED BY <4>2, <4>3, <4>4
    <3> QED BY <3>1, <3>2
  <2>8. WorkersApart'
    <3>1. ASSUME lapses = 0, NEW v \in Workers, v # w, worker[v] # Idle
          PROVE  worker[v].account # a
      <4>1. PICK k \in JobIds, b \in Accounts : worker[v].job = k /\ worker[v].account = b
        BY <1>c, <3>1
      <4>2. item[k][b] = "running" \/ Deserted(b)
        BY <3>1, <4>1 DEF WorkersInv, InCharge
      <4> SUFFICES ASSUME b = a PROVE FALSE
        BY <4>1
      <4>3. item[j][a] = "queued" /\ item[k][a] = "running"
        BY <2>6, <3>1, <4>2 DEF Deserted, ActiveStatus
      <4>4. k = j
        BY <4>3 DEF QueueInv, OneActiveItemPerAccount, ActiveStatus
      <4> QED BY <4>3, <4>4
    <3> SUFFICES ASSUME lapses = 0, NEW v \in Workers, NEW x \in Workers, v # x,
                        worker'[v] # Idle
                 PROVE  worker'[v].account # worker'[x].account
      BY <2>1 DEF WorkersApart
    <3>2. CASE v = w
      <4>1. worker'[v].account = a /\ worker'[x] = worker[x]
        BY <2>2, <3>2
      <4>2. CASE worker[x] = Idle
        BY <1>b, <4>1, <4>2
      <4>3. CASE worker[x] # Idle
        BY <3>1, <3>2, <4>1, <4>3
      <4> QED BY <4>2, <4>3
    <3>3. CASE x = w
      <4>1. worker'[x].account = a /\ worker'[v] = worker[v]
        BY <2>2, <3>3
      <4> QED BY <3>1, <3>3, <4>1
    <3>4. CASE v # w /\ x # w
      BY <2>2, <3>4 DEF WorkersInv, WorkersApart
    <3> QED BY <3>2, <3>3, <3>4
  <2> QED BY <2>4, <2>5, <2>7, <2>8 DEF WorkersInv
<1>6. ASSUME NEW w \in Workers, NEW ok \in BOOLEAN, SyncEnds(w, ok) PROVE WorkersInv'
  <2>0. UNCHANGED <<account, item, lapsed, lapses, up>>
    BY <1>6 DEF SyncEnds
  <2>1. /\ worker[w].pc = "sync"
        /\ worker' = [worker EXCEPT ![w].pc = "settle", ![w].ok = ok]
    BY <1>6 DEF SyncEnds
  <2>2. /\ \A v \in Workers : v # w => worker'[v] = worker[v]
        /\ worker'[w].pc = "settle"
    BY <1>a, <2>1 DEF TaskRow
  <2>3. \A v \in Workers : /\ worker'[v].job = worker[v].job
                           /\ worker'[v].account = worker[v].account
                           /\ worker'[v] # Idle <=> worker[v] # Idle
    <3>1. worker'[w].job = worker[w].job /\ worker'[w].account = worker[w].account
      BY <1>a, <2>1 DEF TaskRow
    <3> QED BY <1>b, <2>1, <2>2, <3>1
  <2>4. Hands'
    BY <2>0, <2>1, <2>2, <2>3 DEF WorkersInv, Hands
  <2>5. RunningItemsHeld'
    <3> SUFFICES ASSUME NEW k \in JobIds, NEW b \in Accounts, item'[k][b] = "running", up'
                 PROVE  \E v \in Workers : worker'[v].job = k /\ worker'[v].account = b
      BY DEF RunningItemsHeld
    <3>1. PICK v \in Workers : worker[v].job = k /\ worker[v].account = b
      BY <2>0 DEF WorkersInv, RunningItemsHeld
    <3> QED BY <2>3, <3>1
  <2>6. InCharge'
    <3> SUFFICES ASSUME lapses = 0, NEW v \in Workers, worker[v] # Idle
                 PROVE  \/ item'[worker[v].job][worker[v].account] = "running"
                        \/ Deserted(worker[v].account)'
      BY <2>0, <2>3 DEF InCharge, WorkersInv
    <3>1. PICK k \in JobIds, b \in Accounts : k = worker[v].job /\ b = worker[v].account
      BY <1>c
    <3>2. Deserted(b) => Deserted(b)'
      BY <2>0 DEF Deserted
    <3>3. item[k][b] = "running" \/ Deserted(b)
      BY <3>1 DEF WorkersInv, InCharge
    <3>4. worker'[v].account = b
      BY <2>3, <3>1
    <3> QED BY <2>0, <3>1, <3>2, <3>3, <3>4
  <2>7. WorkersApart'
    <3> SUFFICES ASSUME lapses = 0, NEW v \in Workers, NEW x \in Workers, v # x,
                        worker'[v] # Idle
                 PROVE  worker'[v].account # worker'[x].account
      BY <2>0 DEF WorkersApart
    <3> QED BY <2>3 DEF WorkersInv, WorkersApart
  <2> QED BY <2>4, <2>5, <2>6, <2>7 DEF WorkersInv
<1>7. ASSUME NEW w \in Workers, Settle(w) PROVE WorkersInv'
  <2>0. worker[w] # Idle /\ up
    <3>1. worker[w].pc = "settle"
      BY <1>7 DEF Settle
    <3> QED BY <1>b, <3>1 DEF WorkersInv, Hands
  <2>1. PICK j \in JobIds, a \in Accounts : worker[w].job = j /\ worker[w].account = a
    BY <1>c, <2>0
  <2>2. /\ UNCHANGED <<account, lapses, up>> /\ lapsed' \subseteq lapsed
        /\ worker' = [worker EXCEPT ![w] = Idle]
    BY <1>7 DEF Settle
  <2>3. /\ \A v \in Workers : v # w => worker'[v] = worker[v]
        /\ worker'[w] = Idle
    BY <1>a, <2>2
  <2>4. /\ item'[j][a] # "running"
        /\ \A k \in JobIds, b \in Accounts : k # j \/ b # a => item'[k][b] = item[k][b]
    <3>1. CASE ~StillRunning(j, a)
      BY <1>7, <2>1, <3>1 DEF Settle, StillRunning
    <3>2. CASE StillRunning(j, a)
      <4> DEFINE s == IF worker[w].ok THEN "succeeded" ELSE "failed"
      <4>1. item' = [item EXCEPT ![j][a] = s] /\ s # "running"
        BY <1>7, <2>1, <3>2 DEF Settle
      <4> HIDE DEF s
      <4> QED BY <1>a, <4>1
    <3> QED BY <3>1, <3>2
  <2>5. Hands'
    BY <2>0, <2>2, <2>3 DEF WorkersInv, Hands
  <2>6. RunningItemsHeld'
    <3> SUFFICES ASSUME NEW k \in JobIds, NEW b \in Accounts, item'[k][b] = "running"
                 PROVE  \E v \in Workers : worker'[v].job = k /\ worker'[v].account = b
      BY DEF RunningItemsHeld
    <3>1. k # j \/ b # a
      BY <2>4
    <3>2. PICK v \in Workers : worker[v].job = k /\ worker[v].account = b
      BY <2>0, <2>4, <3>1 DEF WorkersInv, RunningItemsHeld
    <3> QED BY <2>1, <2>3, <3>1, <3>2
  <2>7. InCharge'
    <3> SUFFICES ASSUME lapses = 0, NEW v \in Workers, v # w, worker[v] # Idle
                 PROVE  \/ item'[worker[v].job][worker[v].account] = "running"
                        \/ Deserted(worker[v].account)'
      BY <2>2, <2>3 DEF InCharge, WorkersInv
    <3>1. PICK k \in JobIds, b \in Accounts : k = worker[v].job /\ b = worker[v].account
      BY <1>c
    <3>2. b # a
      BY <2>1, <3>1 DEF WorkersInv, WorkersApart
    <3>3. Deserted(b) => Deserted(b)'
      BY <2>2, <2>4, <3>2 DEF Deserted
    <3>4. item[k][b] = "running" \/ Deserted(b)
      BY <3>1 DEF WorkersInv, InCharge
    <3>5. worker'[v].account = b
      BY <2>3, <3>1
    <3>6. item'[k][b] = "running" \/ Deserted(b)'
      BY <2>4, <3>2, <3>3, <3>4
    <3> QED BY <3>1, <3>5, <3>6
  <2>8. WorkersApart'
    <3> SUFFICES ASSUME lapses = 0, NEW v \in Workers, NEW x \in Workers, v # x,
                        worker'[v] # Idle
                 PROVE  worker'[v].account # worker'[x].account
      BY <2>2 DEF WorkersApart
    <3>1. v # w /\ worker'[v] = worker[v] /\ worker[v].account \in Accounts
      BY <1>c, <2>3
    <3> QED BY <1>b, <2>3, <3>1 DEF WorkersInv, WorkersApart
  <2> QED BY <2>5, <2>6, <2>7, <2>8 DEF WorkersInv
<1>8. CASE Crash
  BY <1>8, <1>b DEF Crash, tables, WorkersInv, Hands, RunningItemsHeld, InCharge, WorkersApart
<1>9. CASE Start
  <2>1. /\ UNCHANGED <<worker, lapses>> /\ lapsed' = {}
        /\ \A v \in Workers : worker[v] = Idle
        /\ \A k \in JobIds, b \in Accounts : item'[k][b] = Requeued(item[k][b])
    BY <1>9 DEF Start, WorkersInv, Hands
  <2>2. \A k \in JobIds, b \in Accounts : item'[k][b] # "running"
    BY <2>1 DEF Requeued
  <2> QED BY <1>b, <2>1, <2>2 DEF WorkersInv, Hands, RunningItemsHeld, InCharge, WorkersApart
<1>10. CASE UNCHANGED vars
  BY <1>10, <1>1 DEF vars
<1>11. CASE \E u \in Users, ids \in SUBSET Accounts :
              ImportAccounts(u, ids) \/ RefreshAccounts(u, ids) \/ DeleteAccounts(u, ids)
  BY <1>11, <1>1 DEF ImportAccounts, RefreshAccounts, DeleteAccounts, tables, process
<1>12. CASE \E a \in Accounts : CompleteDeviceFlow(a) \/ SyncMessages(a)
  BY <1>12, <1>1, <1>a DEF CompleteDeviceFlow, SyncMessages, tables, process
<1>13. CASE JobRefused \/ WebRestart \/ \E t \in Tokens : RefreshPublicMail(t)
  BY <1>13, <1>1 DEF JobRefused, WebRestart, RefreshPublicMail, tables, process
<1>14. CASE \E w \in Workers : RenewLease(w)
  BY <1>14, <1>1 DEF RenewLease, process
<1>15. ASSUME NEW j \in JobIds, CooldownEnds(j) PROVE WorkersInv'
  BY <1>15, <1>1 DEF CooldownEnds, process
<1>16. ASSUME NEW j \in JobIds, NEW a \in Accounts, LeaseLapses(j, a) PROVE WorkersInv'
  <2>1. lapses' # 0
    BY <1>16, <1>a DEF LeaseLapses
  <2> QED BY <1>16, <1>1, <2>1 DEF LeaseLapses
<1> QED
  BY <1>2, <1>3, <1>4, <1>5, <1>6, <1>7, <1>8, <1>9, <1>10, <1>11, <1>12, <1>13, <1>14, <1>15,
     <1>16
     DEF Next, Web, Job, Environment, ClaimNext, FinishSync

\* Who holds which item, in every reachable state.
THEOREM WorkersCorrect == Spec => []WorkersInv
<1>1. Init => WorkersInv
  BY DEF Init, WorkersInv, Hands, RunningItemsHeld, InCharge, WorkersApart
<1>2. QueueInv /\ WorkersInv /\ [Next]_vars => WorkersInv'
  BY WorkersStep
<1> QED BY <1>1, <1>2, QueueCorrect, PTL DEF Spec

\* No running item is left behind by a process that died.
THEOREM NoOrphanedItems == Spec => []RunningItemsHeld
<1>1. WorkersInv => RunningItemsHeld
  BY DEF WorkersInv
<1> QED BY <1>1, WorkersCorrect, PTL

\* Two workers are on one mailbox only after a lease has outlived its holder.
THEOREM WorkersKeptApart == Spec => []WorkersApart
<1>1. WorkersInv => WorkersApart
  BY DEF WorkersInv
<1> QED BY <1>1, WorkersCorrect, PTL

\* A session that ends drops the flag of its own account only, and while no lease
\* has lapsed the one active item of a flagged account is the one in its hands.
LEMMA FlagStep ==
  ASSUME QueueInv, WorkersInv, [Next]_vars, lapses = 0,
         NEW w \in Workers, NEW a \in Accounts, NEW j \in JobIds,
         worker[w].pc = "sync", worker'[w].pc = "settle", a \in pending \ pending',
         job[j].mode = "full", item[j][a] \in ActiveStatus
  PROVE  j = worker[w].job
<1>a. worker \in [Workers -> TaskRow] /\ Idle.pc = "idle"
  BY DEF QueueInv, TypeOK, Idle
\* Nothing but the end of this session moves it from sync to settle.
<1>1. PICK ok \in BOOLEAN : SyncEnds(w, ok)
  <2>1. worker'[w] # worker[w]
    OBVIOUS
  <2>2. ~Web /\ ~Environment /\ ~UNCHANGED vars
    BY <1>a, <2>1
       DEF Web, Environment, vars, ImportAccounts, RefreshAccounts, DeleteAccounts,
           CompleteDeviceFlow, SyncMessages, RefreshPublicMail, JobAccepted, JobJoined,
           JobRefused, DeleteUser, WebRestart, LeaseLapses, CooldownEnds, Crash, Start,
           tables, process
  <2>3. ASSUME NEW v \in Workers,
               ClaimNext(v) \/ Settle(v) \/ RenewLease(v)
               \/ (v # w /\ FinishSync(v))
        PROVE  FALSE
    BY <1>a, <2>1, <2>3 DEF ClaimNext, Claim, Settle, RenewLease, FinishSync, SyncEnds, process
  <2> QED BY <2>2, <2>3 DEF Next, Job, FinishSync
<1>2. a = worker[w].account
  BY <1>1 DEF SyncEnds, Unflagged
<1>3. account[a] = "live"
  BY DEF QueueInv, PendingHasJob
<1>4. worker[w] # Idle /\ worker[w].job \in JobIds
  BY <1>a DEF QueueInv, InHand
<1>5. item[worker[w].job][a] = "running"
  BY <1>2, <1>3, <1>4 DEF WorkersInv, InCharge, Deserted
<1> QED BY <1>4, <1>5 DEF QueueInv, OneActiveItemPerAccount, ActiveStatus

\* No session clears the flag that another job has set, as long as no lease lapses.
THEOREM FlagsLeftToOthers == Spec => FlagsOfOthersStay
<1>1. QueueInv /\ WorkersInv /\ [Next]_vars
        => [lapses = 0 =>
              \A w \in Workers, a \in Accounts, j \in JobIds :
                /\ worker[w].pc = "sync" /\ worker'[w].pc = "settle"
                /\ a \in pending \ pending'
                /\ job[j].mode = "full" /\ item[j][a] \in ActiveStatus
                => j = worker[w].job]_vars
  BY FlagStep
<1> QED BY <1>1, QueueCorrect, WorkersCorrect, PTL DEF Spec, FlagsOfOthersStay

-----------------------------------------------------------------------------
(* What a step means to the owner of a job                                 *)

\* Items are claimed, expire or are requeued, and nothing else.
SameLedger ==
  /\ nextJob' = nextJob
  /\ \A j \in JobIds :
       /\ job'[j].owner = job[j].owner
       /\ \A a \in Accounts :
            item'[j][a] = item[j][a] \/ {item[j][a], item'[j][a]} \subseteq ActiveStatus

\* An item is done.
Settles(j, a) ==
  /\ item[j][a] = "running"
  /\ \E s \in SettledStatus : item' = [item EXCEPT ![j][a] = s]
  /\ nextJob' = nextJob
  /\ \A k \in JobIds : job'[k].owner = job[k].owner

\* Jobs are created, forgotten and withdrawn, items done: every other step
\* leaves what an owner is told unchanged.
LEMMA StepKinds ==
  ASSUME QueueInv, [Next]_vars
  PROVE  \/ SameLedger
         \/ \E P \in SUBSET JobIds : JobAccepted(P) \/ JobJoined(P)
         \/ \E u \in Users : DeleteUser(u)
         \/ \E j \in JobIds, a \in Accounts : Settles(j, a)
<1>a. /\ job \in [JobIds -> JobRow] /\ item \in [JobIds -> [Accounts -> ItemStatus]]
      /\ worker \in [Workers -> TaskRow]
  BY DEF QueueInv, TypeOK
<1>1. CASE UNCHANGED <<job, item, nextJob>>
  BY <1>1 DEF SameLedger
<1>2. ASSUME NEW w \in Workers, NEW j \in JobIds, NEW a \in Accounts, Claim(w, j, a)
      PROVE  SameLedger
  <2>1. item' = [Expired EXCEPT ![j][a] = "running"] /\ Expired[j][a] = "queued"
    BY <1>2 DEF Claim, Claimable
  <2>2. \A k \in JobIds, b \in Accounts :
          item'[k][b] = item[k][b] \/ {item[k][b], item'[k][b]} \subseteq ActiveStatus
    BY <1>a, <2>1, ExpiredType DEF ActiveStatus
  <2>3. \A k \in JobIds : job'[k].owner = job[k].owner
    BY <1>2, <1>a DEF Claim, JobRow
  <2>4. nextJob' = nextJob
    BY <1>2 DEF Claim
  <2> QED BY <2>2, <2>3, <2>4 DEF SameLedger
<1>3. CASE Start
  <2>1. \A k \in JobIds, b \in Accounts : item'[k][b] = Requeued(item[k][b])
    BY <1>3 DEF Start
  <2>2. \A k \in JobIds : job'[k].owner = job[k].owner
    BY <1>3, <1>a DEF Start, JobRow
  <2>3. nextJob' = nextJob
    BY <1>3 DEF Start
  <2> QED BY <2>1, <2>2, <2>3 DEF SameLedger, Requeued, ActiveStatus
<1>4. ASSUME NEW w \in Workers, Settle(w)
      PROVE  SameLedger \/ \E j \in JobIds, a \in Accounts : Settles(j, a)
  <2>1. PICK j \in JobIds, a \in Accounts : worker[w].job = j /\ worker[w].account = a
    BY <1>4 DEF Settle, QueueInv, InHand
  <2>2. CASE ~StillRunning(j, a)
    <3>1. UNCHANGED <<job, item, nextJob>>
      BY <1>4, <2>1, <2>2 DEF Settle
    <3> QED BY <3>1 DEF SameLedger
  <2>3. CASE StillRunning(j, a)
    <3>1. /\ item' = [item EXCEPT ![j][a] = IF worker[w].ok THEN "succeeded" ELSE "failed"]
          /\ job' = [job EXCEPT ![j] = Counted(job[j], worker[w].ok)]
          /\ nextJob' = nextJob /\ item[j][a] = "running"
      BY <1>4, <2>1, <2>3 DEF Settle, StillRunning
    <3>2. \A r \in JobRow, ok \in BOOLEAN : Counted(r, ok).owner = r.owner
      BY DEF Counted, JobRow
    <3>3. worker[w].ok \in BOOLEAN
      BY <1>a DEF TaskRow
    <3>4. \A k \in JobIds : job'[k].owner = job[k].owner
      BY <1>a, <3>1, <3>2, <3>3
    <3> QED BY <3>1, <3>4 DEF Settles, SettledStatus
  <2> QED BY <2>2, <2>3
<1> QED
  BY <1>1, <1>2, <1>3, <1>4
     DEF Next, Web, Job, Environment, ClaimNext, FinishSync, vars, tables, process,
         ImportAccounts, CompleteDeviceFlow, RefreshAccounts, SyncMessages, RefreshPublicMail,
         JobRefused, DeleteAccounts, WebRestart, SyncEnds, RenewLease, LeaseLapses,
         CooldownEnds, Crash

-----------------------------------------------------------------------------
(* Admission                                                               *)

\* The active items of an owner can be counted.
LEMMA FiniteItems ==
  ASSUME NEW u
  PROVE  IsFiniteSet(ActiveItems(u)) /\ Cardinality(ActiveItems(u)) \in Nat
<1>1. IsFiniteSet(JobIds)
  BY BoundsAssumption, FS_Interval DEF JobIds
<1>2. IsFiniteSet(JobIds \X Accounts)
  BY <1>1, AccountsAssumption, FS_Product
<1> QED BY <1>2, FS_Subset, FS_CardinalityType DEF ActiveItems

\* The items of a job are as many as its mailboxes.
LEMMA ItemsOfJob ==
  ASSUME NEW V \in SUBSET Accounts, NEW j
  PROVE  /\ IsFiniteSet({<<j, a>> : a \in V})
         /\ Cardinality({<<j, a>> : a \in V}) = Cardinality(V)
<1> DEFINE f == [a \in V |-> <<j, a>>]
           T == {<<j, a>> : a \in V}
<1>1. IsFiniteSet(V)
  BY AccountsAssumption, FS_Subset
<1>2. /\ f \in [V -> T] /\ DOMAIN f = V
      /\ \A a, b \in V : f[a] = f[b] => a = b
      /\ \A t \in T : \E a \in V : f[a] = t
  OBVIOUS
<1>3. f \in Bijection(V, T)
  <2> HIDE DEF f, T
  <2> QED BY <1>2 DEF Bijection, Injection, Surjection, IsInjective
<1> QED BY <1>1, <1>3, FS_Bijection, FS_CardinalityType DEF ExistsBijection

\* No step brings an owner over the limit.
LEMMA AdmissionStep ==
  ASSUME QueueInv, AdmissionBound, [Next]_vars
  PROVE  AdmissionBound'
<1>0. MaxActive \in Nat
  BY BoundsAssumption
<1>a. \A u \in Users : IsFiniteSet(ActiveItems(u)) /\ Cardinality(ActiveItems(u)) <= MaxActive
  BY FiniteItems DEF AdmissionBound
<1>b. \A j \in JobIds, a \in Accounts : item[j][a] \in ActiveStatus => job[j].status \in ActiveStatus
  BY ActiveJobs DEF QueueInv
\* Nobody gets an active item.
<1>1. ASSUME \A j \in JobIds, a \in Accounts :
               item'[j][a] \in ActiveStatus =>
                 item[j][a] \in ActiveStatus /\ job'[j].owner = job[j].owner
      PROVE  AdmissionBound'
  <2> SUFFICES ASSUME NEW u \in Users PROVE Cardinality(ActiveItems(u))' <= MaxActive
    BY DEF AdmissionBound
  <2>1. ActiveItems(u)' \subseteq ActiveItems(u)
    <3> SUFFICES ASSUME NEW j \in JobIds, NEW a \in Accounts, ActiveOn(j, a, u)'
                 PROVE  ActiveOn(j, a, u)
      BY DEF ActiveItems
    <3> QED BY <1>1, <1>b DEF ActiveOn
  <2>2. PICK S : S = ActiveItems(u)'
    OBVIOUS
  <2>3. Cardinality(S) <= Cardinality(ActiveItems(u)) /\ Cardinality(S) \in Nat
    BY <1>a, <2>1, <2>2, FS_Subset, FS_CardinalityType
  <2> QED BY <1>0, <1>a, <2>2, <2>3, FiniteItems
<1>2. CASE SameLedger
  <2>1. \A j \in JobIds, a \in Accounts :
          item'[j][a] \in ActiveStatus =>
            item[j][a] \in ActiveStatus /\ job'[j].owner = job[j].owner
    BY <1>2 DEF SameLedger
  <2> QED BY <1>1, <2>1
<1>3. ASSUME NEW P \in SUBSET JobIds, JobJoined(P) PROVE AdmissionBound'
  <2>1. \A j \in JobIds, a \in Accounts :
          item'[j][a] \in ActiveStatus =>
            item[j][a] \in ActiveStatus /\ job'[j].owner = job[j].owner
    BY <1>3 DEF JobJoined, NoItems, ActiveStatus
  <2> QED BY <1>1, <2>1
<1>4. ASSUME NEW u \in Users, DeleteUser(u) PROVE AdmissionBound'
  <2>1. \A j \in JobIds, a \in Accounts :
          item'[j][a] \in ActiveStatus =>
            item[j][a] \in ActiveStatus /\ job'[j].owner = job[j].owner
    BY <1>4 DEF DeleteUser, NoItems, ActiveStatus
  <2> QED BY <1>1, <2>1
<1>5. ASSUME NEW j \in JobIds, NEW a \in Accounts, Settles(j, a) PROVE AdmissionBound'
  <2>1. PICK s \in SettledStatus : item' = [item EXCEPT ![j][a] = s]
    BY <1>5 DEF Settles
  <2>2. s \notin ActiveStatus
    BY DEF SettledStatus, ActiveStatus
  <2>3. item \in [JobIds -> [Accounts -> ItemStatus]]
    BY DEF QueueInv, TypeOK
  <2>4. \A k \in JobIds, b \in Accounts : item'[k][b] \in ActiveStatus => item[k][b] \in ActiveStatus
    BY <2>1, <2>2, <2>3
  <2> QED BY <1>1, <1>5, <2>4 DEF Settles
<1>6. ASSUME NEW P \in SUBSET JobIds, JobAccepted(P) PROVE AdmissionBound'
  <2> SUFFICES ASSUME NEW u \in Users PROVE Cardinality(ActiveItems(u))' <= MaxActive
    BY DEF AdmissionBound
  <2> DEFINE New == {<<nextJob, a>> : a \in Valid}
  <2>1. /\ \A j \in JobIds, a \in Accounts :
             item'[j][a] = IF j = nextJob THEN IF a \in Valid THEN "queued" ELSE "none"
                           ELSE IF j \in P THEN "none" ELSE item[j][a]
        /\ \A j \in JobIds : job'[j] = IF j = nextJob THEN NewJob
                                       ELSE IF j \in P THEN NoJob ELSE job[j]
        /\ NewJob.owner = web.owner /\ HasRoom
    BY <1>6 DEF JobAccepted, NoItems, NewJob, Admissible
  <2>2. ActiveItems(u)' \subseteq IF u = web.owner THEN ActiveItems(u) \cup New ELSE ActiveItems(u)
    <3> SUFFICES ASSUME NEW j \in JobIds, NEW a \in Accounts, ActiveOn(j, a, u)'
                 PROVE  IF u = web.owner THEN ActiveOn(j, a, u) \/ <<j, a>> \in New
                                         ELSE ActiveOn(j, a, u)
      BY DEF ActiveItems
    <3>1. item'[j][a] \in ActiveStatus /\ job'[j].owner = u
      BY DEF ActiveOn
    <3>2. CASE j = nextJob
      BY <2>1, <3>1, <3>2 DEF ActiveStatus
    <3>3. CASE j # nextJob
      <4>1. item[j][a] \in ActiveStatus /\ job[j].owner = u
        BY <2>1, <3>1, <3>3 DEF ActiveStatus
      <4> QED BY <1>b, <4>1 DEF ActiveOn
    <3> QED BY <3>2, <3>3
  <2>3. PICK S : S = ActiveItems(u)'
    OBVIOUS
  <2>4. CASE u = web.owner
    <3>1. Valid \in SUBSET Accounts /\ Cardinality(Valid) \in Nat
      BY AccountsAssumption, FS_Subset, FS_CardinalityType DEF Valid, Live
    <3>2. IsFiniteSet(New) /\ Cardinality(New) = Cardinality(Valid)
      BY <3>1, ItemsOfJob
    <3> HIDE DEF New
    <3>3. /\ IsFiniteSet(ActiveItems(u) \cup New)
          /\ Cardinality(ActiveItems(u) \cup New) <= Cardinality(ActiveItems(u)) + Cardinality(Valid)
      <4>1. /\ IsFiniteSet(ActiveItems(u) \cup New)
            /\ Cardinality(ActiveItems(u) \cup New) =
                 Cardinality(ActiveItems(u)) + Cardinality(New) - Cardinality(ActiveItems(u) \cap New)
        BY <1>a, <3>2, FS_Union
      <4>2. Cardinality(ActiveItems(u) \cap New) \in Nat
        BY <1>a, FS_Intersection, FS_CardinalityType
      <4> QED BY <3>1, <3>2, <4>1, <4>2, FiniteItems
    <3>4. S \subseteq ActiveItems(u) \cup New
      BY <2>2, <2>3, <2>4
    <3>5. Cardinality(S) <= Cardinality(ActiveItems(u) \cup New) /\ Cardinality(S) \in Nat
          /\ Cardinality(ActiveItems(u) \cup New) \in Nat
      BY <3>3, <3>4, FS_Subset, FS_CardinalityType
    <3>6. Cardinality(ActiveItems(u)) + Cardinality(Valid) <= MaxActive
      BY <2>1, <2>4 DEF HasRoom
    <3>7. Cardinality(S) <= MaxActive
      BY <1>0, <3>1, <3>3, <3>5, <3>6, FiniteItems
    <3> QED BY <2>3, <3>7
  <2>5. CASE u # web.owner
    <3>1. Cardinality(S) <= Cardinality(ActiveItems(u)) /\ Cardinality(S) \in Nat
      BY <1>a, <2>2, <2>3, <2>5, FS_Subset, FS_CardinalityType
    <3> QED BY <1>0, <1>a, <2>3, <3>1, FiniteItems
  <2> QED BY <2>4, <2>5
<1> QED BY <1>2, <1>3, <1>4, <1>5, <1>6, StepKinds

\* No owner ever has more than MAX_ACTIVE_REFRESH_ITEMS_PER_OWNER active items,
\* though the limit is read only when a job is created.
THEOREM OwnersLimited == Spec => []AdmissionBound
<1>1. Init => AdmissionBound
  <2> SUFFICES ASSUME Init, NEW u \in Users PROVE Cardinality(ActiveItems(u)) <= MaxActive
    BY DEF AdmissionBound
  <2>1. ActiveItems(u) = {}
    BY DEF Init, ActiveItems, ActiveOn, NoItems, ActiveStatus
  <2> QED BY <2>1, BoundsAssumption, FS_EmptySet
<1>2. QueueInv /\ AdmissionBound /\ [Next]_vars => AdmissionBound'
  BY AdmissionStep
<1> QED BY <1>1, <1>2, QueueCorrect, PTL DEF Spec

=============================================================================
