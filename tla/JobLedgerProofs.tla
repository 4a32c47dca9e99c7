--------------------------- MODULE JobLedgerProofs ---------------------------
(***************************************************************************)
(* The refresh-job queue implements the ledger of JobLedger: each step of  *)
(* the web process, a worker or the environment opens, forgets, decides or *)
(* withdraws in the ledger, or leaves the ledger as it was.                *)
(***************************************************************************)
EXTENDS RefreshJobsProofs

\* The refinement mapping of RefreshJobs, one name per variable of the ledger.
Verdict ==
  [j \in JobIds |-> [a \in Accounts |->
     IF item[j][a] \in ActiveStatus THEN "todo" ELSE item[j][a]]]
Report ==
  [j \in JobIds |->
     [total |-> job[j].total, succeeded |-> job[j].succeeded,
      failed |-> job[j].failed, done |-> job[j].status = "completed"]]
Client == [j \in JobIds |-> job[j].owner]
Used == 1 .. (nextJob - 1)

\* Both modules count alike.
LEMMA SameCardinality == \A S : Ledger!Cardinality(S) = Cardinality(S)
  BY DEF Ledger!Cardinality, Cardinality

\* What the report says of a job is the tally of its verdicts.
LEMMA ReportIsTally ==
  ASSUME TypeOK, CountersAgree
  PROVE  Report = [j \in JobIds |-> Ledger!Tally(Verdict[j])]
<1> SUFFICES ASSUME NEW j \in JobIds PROVE Report[j] = Ledger!Tally(Verdict[j])
  BY DEF Report
<1>1. /\ item[j] \in [Accounts -> ItemStatus] /\ job[j] \in JobRow
      /\ Tallies(job[j], item[j])
  BY DEF TypeOK, CountersAgree
<1>2. \A a \in Accounts :
        Verdict[j][a] = IF item[j][a] \in ActiveStatus THEN "todo" ELSE item[j][a]
  BY DEF Verdict
<1>3. {a \in Accounts : Verdict[j][a] # "none"} = In(item[j], ActiveStatus \cup SettledStatus)
  BY <1>1, <1>2 DEF In, ItemStatus, ActiveStatus, SettledStatus
<1>4. /\ Ledger!With(Verdict[j], "succeeded") = In(item[j], {"succeeded"})
      /\ Ledger!With(Verdict[j], "failed") = In(item[j], {"failed"})
      /\ Ledger!With(Verdict[j], "todo") = In(item[j], ActiveStatus)
  BY <1>1, <1>2 DEF Ledger!With, In, ItemStatus, ActiveStatus, SettledStatus
<1>5. Verdict[j] = Ledger!Blank <=> In(item[j], ActiveStatus \cup SettledStatus) = {}
  <2>1. Verdict[j] = Ledger!Blank <=> \A a \in Accounts : Verdict[j][a] = "none"
    BY DEF Verdict, Ledger!Blank
  <2> QED BY <1>3, <2>1
<1>6. In(item[j], ActiveStatus \cup SettledStatus)
        = In(item[j], ActiveStatus) \cup In(item[j], SettledStatus)
  BY DEF In
<1>7. (job[j].status = "completed")
        = (Verdict[j] # Ledger!Blank /\ Ledger!With(Verdict[j], "todo") = {})
  <2>1. job[j].status \in {"none", "queued", "running", "completed"}
    BY <1>1 DEF JobRow
  <2>2. job[j].status = "none" => In(item[j], ActiveStatus \cup SettledStatus) = {}
    BY <1>1 DEF Tallies, In, NoItems, ActiveStatus, SettledStatus
  <2> QED BY <1>1, <1>4, <1>5, <1>6, <2>1, <2>2 DEF Tallies, ActiveStatus
<1>8. Report[j] = [total |-> job[j].total, succeeded |-> job[j].succeeded,
                   failed |-> job[j].failed, done |-> job[j].status = "completed"]
  BY DEF Report
<1> QED BY <1>1, <1>3, <1>4, <1>7, <1>8, SameCardinality DEF Ledger!Tally, Tallies

\* After a step too, which is what the ledger's actions say of the report.
LEMMA StepReported ==
  ASSUME TypeOK', CountersAgree'
  PROVE  Report' = [j \in JobIds |-> Ledger!Tally(Verdict'[j])]
<1>1. (TypeOK /\ CountersAgree => Report = [j \in JobIds |-> Ledger!Tally(Verdict[j])])'
  BY ReportIsTally, PTL
<1> QED BY <1>1

\* The verdicts after a step, item by item.
LEMMA NextVerdict ==
  ASSUME NEW V, V = Verdict', NEW f \in [JobIds -> [Accounts -> {"todo"} \cup ItemStatus]],
         \A j \in JobIds, a \in Accounts :
           f[j][a] = IF item'[j][a] \in ActiveStatus THEN "todo" ELSE item'[j][a]
  PROVE  V = f
<1>1. V = [j \in JobIds |-> [a \in Accounts |->
             IF item'[j][a] \in ActiveStatus THEN "todo" ELSE item'[j][a]]]
  BY DEF Verdict
<1> QED BY <1>1

\* A step of the queue is a step of the ledger, or none.
LEMMA LedgerStep ==
  ASSUME QueueInv, QueueInv', [Next]_vars
  PROVE  [Ledger!Next]_(Ledger!vars)
<1>a. /\ job \in [JobIds -> JobRow] /\ item \in [JobIds -> [Accounts -> ItemStatus]]
      /\ item' \in [JobIds -> [Accounts -> ItemStatus]] /\ nextJob \in Nat
  BY BoundsAssumption DEF QueueInv, TypeOK
<1>b. \A j \in JobIds, a \in Accounts :
        Verdict[j][a] = IF item[j][a] \in ActiveStatus THEN "todo" ELSE item[j][a]
  BY DEF Verdict
<1>c. \A j \in JobIds : Report[j].done <=> job[j].status = "completed"
  BY DEF Report
<1>d. Ledger!Reported
  <2>1. Report' = [j \in JobIds |-> Ledger!Tally(Verdict'[j])]
    BY StepReported DEF QueueInv
  <2> QED BY <2>1 DEF Ledger!Reported, Report, Verdict
<1>e. Verdict \in [JobIds -> [Accounts -> {"todo"} \cup ItemStatus]]
  BY <1>a DEF Verdict
<1>f. "none" \notin ActiveStatus /\ "none" \in ItemStatus
      /\ SettledStatus \subseteq ItemStatus /\ SettledStatus \cap ActiveStatus = {}
  BY DEF ItemStatus, ActiveStatus, SettledStatus
<1>1. CASE SameLedger
  <2>1. Verdict' = Verdict
    BY <1>1, <1>b, <1>e, NextVerdict DEF SameLedger
  <2>2. Report' = Report
    BY <2>1, ReportIsTally, StepReported DEF QueueInv
  <2>3. Client' = Client /\ Used' = Used
    BY <1>1 DEF Client, Used, SameLedger
  <2> QED BY <2>1, <2>2, <2>3 DEF Ledger!vars, Verdict, Report, Client, Used
<1>2. ASSUME NEW P \in SUBSET JobIds, JobAccepted(P) PROVE Ledger!Next
  <2> DEFINE new == nextJob
             row == [a \in Accounts |-> IF a \in Valid THEN "todo" ELSE "none"]
             f == [k \in JobIds |-> IF k = new THEN row
                                    ELSE IF k \in P THEN Ledger!Blank ELSE Verdict[k]]
  <2>1. /\ \A j \in JobIds, a \in Accounts :
             item'[j][a] = IF j = new THEN IF a \in Valid THEN "queued" ELSE "none"
                           ELSE IF j \in P THEN "none" ELSE item[j][a]
        /\ job' = [j \in JobIds |-> IF j = new THEN NewJob
                                    ELSE IF j \in P THEN NoJob ELSE job[j]]
        /\ NewJob.owner = web.owner /\ NoJob.owner = None
        /\ new' = new + 1 /\ Valid # {} /\ Valid \in SUBSET Accounts
    BY <1>2 DEF JobAccepted, NoItems, NewJob, NoJob, Admissible, Valid, Live
  <2>2. new \in JobIds /\ new \notin Used
    BY <1>2, <1>a DEF JobAccepted, QueueInv, InHand, Used
  <2>3. web.owner \in Users
    BY <2>1, OwnerAssumption DEF Valid, Live, Owned
  <2>4. \A a \in Valid : ~\E j \in JobIds : Verdict[j][a] = "todo"
    <3> SUFFICES ASSUME NEW a \in Valid, NEW j \in JobIds, Verdict[j][a] = "todo"
                 PROVE  FALSE
      OBVIOUS
    <3>1. a \in Accounts /\ OwnerOf[a] = web.owner
      BY DEF Valid, Live, Owned
    <3>2. item[j][a] \in ActiveStatus
      BY <1>a, <1>b, <3>1 DEF ItemStatus, SettledStatus
    <3>3. job[j].owner = web.owner /\ job[j].status \in ActiveStatus
      BY <1>f, <3>1, <3>2, ActiveJobs DEF QueueInv, Placed
    <3> QED BY <1>2, <3>2, <3>3 DEF JobAccepted, Admissible, Busy, ActiveOn
  <2>5. \A k \in P : Report[k].done
    BY <1>2, <1>c DEF JobAccepted, Purged
  <2>6. Verdict' = f
    <3>1. f \in [JobIds -> [Accounts -> {"todo"} \cup ItemStatus]]
      BY <1>e, <1>f DEF Ledger!Blank
    <3>2. \A j \in JobIds, a \in Accounts :
            f[j][a] = IF item'[j][a] \in ActiveStatus THEN "todo" ELSE item'[j][a]
      BY <1>b, <1>f, <2>1 DEF Ledger!Blank, ActiveStatus
    <3> HIDE DEF f
    <3> QED BY <3>1, <3>2, NextVerdict
  <2>7. Client' = [k \in JobIds |-> IF k = new THEN web.owner
                                    ELSE IF k \in P THEN None ELSE Client[k]]
    BY <2>1 DEF Client
  <2>8. Used' = Used \cup {new}
    BY <1>a, <2>1, <2>2 DEF Used, JobIds
  <2>9. PICK n \in JobIds, o \in Users, S \in SUBSET Accounts :
               n = new /\ o = web.owner /\ S = Valid
    BY <2>1, <2>2, <2>3
  <2>10. Ledger!Open(n, o, S, P)
    <3>1. /\ n \notin Used /\ S # {} /\ Used' = Used \cup {n}
          /\ \A a \in S : ~\E j \in JobIds : Verdict[j][a] = "todo"
      BY <2>1, <2>2, <2>4, <2>8, <2>9
    <3>2. Verdict' = [k \in JobIds |->
                        IF k = n THEN [a \in Accounts |-> IF a \in S THEN "todo" ELSE "none"]
                        ELSE IF k \in P THEN Ledger!Blank ELSE Verdict[k]]
      BY <2>6, <2>9
    <3>3. Client' = [k \in JobIds |-> IF k = n THEN o ELSE IF k \in P THEN None ELSE Client[k]]
      BY <2>7, <2>9
    <3> QED BY <1>d, <2>5, <3>1, <3>2, <3>3
            DEF Ledger!Open, Ledger!Todo, Verdict, Report, Client, Used
  <2> QED BY <2>10 DEF Ledger!Next
<1>3. ASSUME NEW P \in SUBSET JobIds, JobJoined(P) PROVE Ledger!Next
  <2> DEFINE f == [k \in JobIds |-> IF k \in P THEN Ledger!Blank ELSE Verdict[k]]
  <2>1. /\ \A j \in JobIds, a \in Accounts :
             item'[j][a] = IF j \in P THEN "none" ELSE item[j][a]
        /\ job' = [j \in JobIds |-> IF j \in P THEN NoJob ELSE job[j]]
        /\ NoJob.owner = None /\ nextJob' = nextJob
    BY <1>3 DEF JobJoined, NoItems, NoJob
  <2>2. \A k \in P : Report[k].done
    BY <1>3, <1>c DEF JobJoined, Purged
  <2>3. Verdict' = f
    <3>1. f \in [JobIds -> [Accounts -> {"todo"} \cup ItemStatus]]
      BY <1>e, <1>f DEF Ledger!Blank
    <3>2. \A j \in JobIds, a \in Accounts :
            f[j][a] = IF item'[j][a] \in ActiveStatus THEN "todo" ELSE item'[j][a]
      BY <1>b, <1>f, <2>1 DEF Ledger!Blank
    <3> HIDE DEF f
    <3> QED BY <3>1, <3>2, NextVerdict
  <2>4. Client' = [k \in JobIds |-> IF k \in P THEN None ELSE Client[k]]
    BY <2>1 DEF Client
  <2>5. Used' = Used
    BY <2>1 DEF Used
  <2>6. Ledger!Forget(P)
    BY <1>d, <2>2, <2>3, <2>4, <2>5 DEF Ledger!Forget, Verdict, Report, Client, Used
  <2> QED BY <2>6 DEF Ledger!Next
<1>4. ASSUME NEW u \in Users, DeleteUser(u) PROVE Ledger!Next
  <2> DEFINE gone == {j \in JobIds : Client[j] = u}
             f == [k \in JobIds |-> IF k \in gone THEN Ledger!Blank ELSE Verdict[k]]
  <2>1. gone = {j \in JobIds : job[j].owner = u}
    BY DEF Client
  <2>2. /\ \A j \in JobIds, a \in Accounts :
             item'[j][a] = IF j \in gone THEN "none" ELSE item[j][a]
        /\ job' = [j \in JobIds |-> IF j \in gone THEN NoJob ELSE job[j]]
        /\ NoJob.owner = None /\ nextJob' = nextJob
    BY <1>4, <2>1 DEF DeleteUser, NoItems, NoJob
  <2>3. Verdict' = f
    <3> HIDE DEF gone
    <3>1. f \in [JobIds -> [Accounts -> {"todo"} \cup ItemStatus]]
      BY <1>e, <1>f DEF Ledger!Blank
    <3>2. \A j \in JobIds, a \in Accounts :
            f[j][a] = IF item'[j][a] \in ActiveStatus THEN "todo" ELSE item'[j][a]
      BY <1>b, <1>f, <2>2 DEF Ledger!Blank
    <3> HIDE DEF f
    <3> QED BY <3>1, <3>2, NextVerdict
  <2>4. Client' = [k \in JobIds |-> IF k \in gone THEN None ELSE Client[k]]
    <3> HIDE DEF gone
    <3> QED BY <2>2 DEF Client
  <2>5. Used' = Used
    BY <2>2 DEF Used
  <2>6. Ledger!Withdraw(u)
    BY <1>d, <2>3, <2>4, <2>5 DEF Ledger!Withdraw, Verdict, Report, Client, Used
  <2> QED BY <2>6 DEF Ledger!Next
<1>5. ASSUME NEW j \in JobIds, NEW a \in Accounts, Settles(j, a) PROVE Ledger!Next
  <2>1. PICK s \in SettledStatus : item' = [item EXCEPT ![j][a] = s]
    BY <1>5 DEF Settles
  <2> DEFINE f == [Verdict EXCEPT ![j][a] = s]
  <2>2. Verdict[j][a] = "todo"
    BY <1>5, <1>b DEF Settles, ActiveStatus
  <2>3. Verdict' = f
    <3>1. f \in [JobIds -> [Accounts -> {"todo"} \cup ItemStatus]]
      BY <1>e, <1>f
    <3>2. ASSUME NEW k \in JobIds, NEW b \in Accounts
          PROVE  f[k][b] = IF item'[k][b] \in ActiveStatus THEN "todo" ELSE item'[k][b]
      <4>1. CASE k = j /\ b = a
        <5>1. f[k][b] = s /\ item'[k][b] = s
          BY <1>a, <1>e, <2>1, <4>1
        <5> QED BY <1>f, <5>1
      <4>2. CASE ~(k = j /\ b = a)
        <5>1. f[k][b] = Verdict[k][b] /\ item'[k][b] = item[k][b]
          BY <1>a, <1>e, <2>1, <4>2
        <5> QED BY <1>b, <5>1
      <4> QED BY <4>1, <4>2
    <3> HIDE DEF f
    <3> QED BY <3>1, <3>2, NextVerdict
  <2>4. Client' = Client /\ Used' = Used
    BY <1>5 DEF Settles, Client, Used
  <2>5. Ledger!Decide(j, a, s)
    BY <1>d, <2>2, <2>3, <2>4 DEF Ledger!Decide, Verdict, Report, Client, Used
  <2> QED BY <2>5 DEF Ledger!Next, SettledStatus
<1> QED BY <1>1, <1>2, <1>3, <1>4, <1>5, StepKinds

\* Through every handler, crash, requeue and lapsed lease the queue keeps the
\* promise of JobLedger: one verdict per mailbox, given once, a report that is
\* the tally of verdicts, jobs that only a purge or their owner's end removes.
THEOREM QueueImplementsLedger == Spec => LedgerSpec
<1>1. Init => Ledger!Init
  <2> SUFFICES ASSUME Init PROVE Ledger!Init
    OBVIOUS
  <2>1. Verdict = [j \in JobIds |-> Ledger!Blank]
    BY DEF Init, Verdict, Ledger!Blank, NoItems, ActiveStatus
  <2>2. Report = [j \in JobIds |-> Ledger!Tally(Ledger!Blank)]
    <3>1. \A j \in JobIds : Verdict[j] = Ledger!Blank
      BY <2>1
    <3>2. Report = [j \in JobIds |-> Ledger!Tally(Verdict[j])]
      <4>1. TypeOK /\ CountersAgree
        <5>1. \A j \in JobIds : job[j] = NoJob /\ item[j] = NoItems
          BY DEF Init
        <5>2. CountersAgree
          BY <5>1, BlankTallies DEF CountersAgree
        <5>3. TypeOK
          <6>1. 1 \in 1 .. (MaxJobs + 1) /\ 0 \in Nat
            BY BoundsAssumption
          <6> QED BY <6>1, RowTypes DEF Init, TypeOK
        <5> QED BY <5>2, <5>3
      <4> QED BY <4>1, ReportIsTally
    <3> QED BY <3>1, <3>2
  <2>3. Client = [j \in JobIds |-> None] /\ Used = {}
    BY DEF Init, Client, Used, NoJob
  <2> QED BY <2>1, <2>2, <2>3 DEF Ledger!Init, Verdict, Report, Client, Used
<1>2. QueueInv /\ QueueInv' /\ [Next]_vars => [Ledger!Next]_(Ledger!vars)
  BY LedgerStep
<1> QED BY <1>1, <1>2, QueueCorrect, PTL DEF Spec, LedgerSpec, Ledger!Spec

=============================================================================
