----------------------------- MODULE JobLedger -----------------------------
(***************************************************************************)
(* What the refresh-job queue promises to the browser that polls it, with  *)
(* no claims, leases, workers or crashes: a job is a set of mailboxes,     *)
(* each gets one verdict, once, and the report is the tally of verdicts.   *)
(***************************************************************************)
EXTENDS Naturals, FiniteSets

CONSTANTS Accounts, Users, None, JobIds

VARIABLES
  verdict,   \* by job and account
  report,    \* what _refresh_job_response says of a job
  client,    \* the owner of a job
  used       \* ids of jobs ever created

vars == <<verdict, report, client, used>>

Blank == [a \in Accounts |-> "none"]
With(row, v) == {a \in Accounts : row[a] = v}

\* The report of a job whose verdicts are row.
Tally(row) ==
  [total |-> Cardinality({a \in Accounts : row[a] # "none"}),
   succeeded |-> Cardinality(With(row, "succeeded")),
   failed |-> Cardinality(With(row, "failed")),
   done |-> row # Blank /\ With(row, "todo") = {}]

Init ==
  /\ verdict = [j \in JobIds |-> Blank]
  /\ report = [j \in JobIds |-> Tally(Blank)]
  /\ client = [j \in JobIds |-> None]
  /\ used = {}

Todo(a) == \E j \in JobIds : verdict[j][a] = "todo"

Reported == report' = [j \in JobIds |-> Tally(verdict'[j])]

\* A new job for mailboxes that no other job still has to do; jobs that are
\* done may be forgotten by the way.
Open(j, u, S, P) ==
  /\ j \notin used /\ S # {} /\ \A a \in S : ~Todo(a)
  /\ \A k \in P : report[k].done
  /\ verdict' = [k \in JobIds |->
       IF k = j THEN [a \in Accounts |-> IF a \in S THEN "todo" ELSE "none"]
       ELSE IF k \in P THEN Blank ELSE verdict[k]]
  /\ client' = [k \in JobIds |-> IF k = j THEN u ELSE IF k \in P THEN None ELSE client[k]]
  /\ used' = used \cup {j}
  /\ Reported

Forget(P) ==
  /\ \A k \in P : report[k].done
  /\ verdict' = [k \in JobIds |-> IF k \in P THEN Blank ELSE verdict[k]]
  /\ client' = [k \in JobIds |-> IF k \in P THEN None ELSE client[k]]
  /\ UNCHANGED used
  /\ Reported

\* The verdict of a mailbox is given once.
Decide(j, a, v) ==
  /\ verdict[j][a] = "todo"
  /\ verdict' = [verdict EXCEPT ![j][a] = v]
  /\ UNCHANGED <<client, used>>
  /\ Reported

\* The jobs of a deleted owner go, done or not.
Withdraw(u) ==
  LET gone == {j \in JobIds : client[j] = u}
  IN  /\ verdict' = [k \in JobIds |-> IF k \in gone THEN Blank ELSE verdict[k]]
      /\ client' = [k \in JobIds |-> IF k \in gone THEN None ELSE client[k]]
      /\ UNCHANGED used
      /\ Reported

Next ==
  \/ \E j \in JobIds, u \in Users, S \in SUBSET Accounts, P \in SUBSET JobIds :
       Open(j, u, S, P)
  \/ \E P \in SUBSET JobIds : Forget(P)
  \/ \E j \in JobIds, a \in Accounts, v \in {"succeeded", "failed"} : Decide(j, a, v)
  \/ \E u \in Users : Withdraw(u)

Spec == Init /\ [][Next]_vars

=============================================================================
