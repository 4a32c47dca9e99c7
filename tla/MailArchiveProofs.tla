------------------------- MODULE MailArchiveProofs -------------------------
(* Proofs about MailArchive, for every size of mailbox, batch and archive,  *)
(* any number of callers and of crashes, failures and epochs.               *)
EXTENDS MailArchive, TLAPS, FiniteSetTheorems, WellFoundedInduction

\* A non-empty set of UIDs has a highest one, which Max picks.
LEMMA HighestUid ==
  ASSUME NEW S \in SUBSET Uids, S # {}
  PROVE  Max(S) \in S /\ \A u \in S : Max(S) >= u
<1>1. MaxUid \in Nat
  BY LimitsAssumption
<1> DEFINE T == {MaxUid - u : u \in S}
<1>2. T \subseteq Nat /\ T # {}
  <2>1. \A u \in S : MaxUid - u \in Nat
    BY <1>1 DEF Uids
  <2>2. PICK u \in S : TRUE
    OBVIOUS
  <2>3. MaxUid - u \in T
    BY <2>2
  <2> QED
    BY <2>1, <2>3
<1>3. PICK x \in T : \A y \in T : ~(<<y, x>> \in OpToRel(<, Nat))
  <2> HIDE DEF T
  <2> QED
    BY <1>2, NatLessThanWellFounded, WFMin
<1>4. \A y \in T : ~(y < x)
  BY <1>2, <1>3 DEF OpToRel
<1>5. PICK u \in S : x = MaxUid - u
  OBVIOUS
<1>6. \A v \in S : u >= v
  BY <1>1, <1>4, <1>5 DEF Uids
<1> QED
  BY <1>5, <1>6 DEF Max

\* The sets of pcs and rows that TypeOK is about.
PCs == {"idle", "wait", "token", "finish", "prune"} \cup InThread
SessionRow ==
  [pc : PCs, validity : 0 .. MaxEpoch, last : 0 .. MaxUid, rebuilding : BOOLEAN,
   reset : BOOLEAN, todo : SUBSET Uids, batch : SUBSET Uids, detached : BOOLEAN]

\* A session that does nothing, and one that starts, are sessions.
LEMMA SessionsStart ==
  ASSUME TypeOK
  PROVE  /\ Idle \in SessionRow /\ [Idle EXCEPT !.pc = "wait"] \in SessionRow
         /\ CurrentCursor \in CursorRow
         /\ Started \in SessionRow /\ [Started EXCEPT !.detached = TRUE] \in SessionRow
<1>1. 0 \in 0 .. MaxEpoch /\ 0 \in 0 .. MaxUid
  BY LimitsAssumption
<1>2. Idle \in SessionRow
  BY <1>1 DEF Idle, SessionRow, PCs, InThread
<1>3. CurrentCursor \in CursorRow
  BY DEF CurrentCursor, TypeOK
<1>4. ASSUME NEW v \in 0 .. MaxEpoch, NEW l \in 0 .. MaxUid, NEW b \in BOOLEAN
      PROVE  [Idle EXCEPT !.pc = "select", !.validity = v, !.last = l, !.rebuilding = b]
               \in SessionRow
  BY <1>2 DEF SessionRow, PCs, InThread
<1>5. CurrentCursor.validity \in 0 .. MaxEpoch /\ CurrentCursor.last \in 0 .. MaxUid
  BY <1>3 DEF CursorRow
<1>6. Started \in SessionRow
  BY <1>4, <1>5 DEF Started
<1> QED
  BY <1>2, <1>3, <1>6 DEF SessionRow, PCs, InThread

\* last_uid after a batch is a UID of the mailbox or the one before.
LEMMA LastIsUid ==
  ASSUME NEW batch \in SUBSET Uids, NEW todo, NEW last \in 0 .. MaxUid
  PROVE  LastUid(last, batch, todo) \in 0 .. MaxUid
<1>1. Uids \subseteq 0 .. MaxUid
  BY LimitsAssumption DEF Uids
<1> QED
  BY <1>1, HighestUid DEF LastUid

\* A batch and what is selected are sets of UIDs.
LEMMA SelectionTypes ==
  /\ \A S : \A n : S \subseteq Uids => Newest(S, n) \subseteq Uids /\ Oldest(S, n) \subseteq S
  /\ \A n : inbox \subseteq Uids => Unseen(n) \subseteq Uids
BY DEF Newest, Oldest, Unseen

\* Rows stay rows when a batch is stored in them or some are deleted.
LEMMA RowTypes ==
  ASSUME NEW rows \in [Uids -> 0 .. MaxEpoch], NEW s \in SessionRow
  PROVE  With(rows, s) \in [Uids -> 0 .. MaxEpoch]
BY DEF With, SessionRow

\* Every step keeps the types.
LEMMA TypeStep ==
  ASSUME TypeOK, [Next]_vars
  PROVE  TypeOK'
<1> USE DEF CursorRow
<1>0. /\ session \in [Callers -> SessionRow]
      /\ TypeOK' <=>
           /\ (inbox \subseteq Uids /\ epoch \in Epochs /\ uidnext \in 1 .. (MaxUid + 1))'
           /\ (archive \in [Uids -> 0 .. MaxEpoch] /\ staged \in [Uids -> 0 .. MaxEpoch])'
           /\ (staging \in CursorRow /\ cursor \in CursorRow)'
           /\ (rescanned \in [archive : SUBSET Uids, staged : SUBSET Uids])'
           /\ (release \in [web : 0 .. MaxUpgrades, worker : 0 .. MaxUpgrades])'
           /\ (phase \in {"up", "stopping", "down"} /\ lock \in Callers \cup {NoOne})'
           /\ session' \in [Callers -> SessionRow]
           /\ ({failures, kills, stops} \subseteq Nat)'
  BY DEF TypeOK, SessionRow, PCs
<1> DEFINE
      Same == UNCHANGED <<inbox, epoch, uidnext, release, phase, failures, kills, stops>>
      Tables == UNCHANGED <<archive, staged, staging, cursor, rescanned>>
<1>1. MaxUid \in Nat /\ MaxEpoch \in Nat \ {0}
  BY LimitsAssumption
<1>2. \A c \in Callers : session[c] \in SessionRow
  BY <1>0
<1>3. ASSUME NEW c \in Callers, NEW s \in SessionRow, Goto(c, s)
      PROVE  session' \in [Callers -> SessionRow]
  BY <1>0, <1>3 DEF Goto
<1>4. ASSUME NEW c \in Callers, Release(c)
      PROVE  lock' \in Callers \cup {NoOne}
  BY <1>4 DEF Release, TypeOK
<1>5. NoMessages \in [Uids -> 0 .. MaxEpoch] /\ NoCursor \in CursorRow
  BY <1>1 DEF NoMessages, NoCursor
<1>6. CASE Server
  <2>1. CASE Deliver
    <3>1. inbox' \subseteq Uids /\ uidnext' \in 1 .. (MaxUid + 1)
      BY <1>1, <2>1 DEF Deliver, TypeOK, Uids
    <3> QED
      BY <1>0, <2>1, <3>1 DEF Deliver, TypeOK, tables, budget
  <2>2. CASE \E u \in Uids : Expunge(u)
    BY <1>0, <2>2 DEF Expunge, TypeOK, tables, budget
  <2>3. ASSUME NEW k \in 0 .. MaxUid, ChangeValidity(k)
        PROVE  TypeOK'
    <3>1. epoch' \in Epochs
      BY <1>1, <2>3 DEF ChangeValidity, TypeOK, Epochs
    <3>2. inbox' \subseteq Uids /\ uidnext' \in 1 .. (MaxUid + 1)
      BY <1>1, <2>3 DEF ChangeValidity, Uids
    <3> QED
      BY <1>0, <2>3, <3>1, <3>2 DEF ChangeValidity, TypeOK, tables, budget
  <2> QED
    BY <1>6, <2>1, <2>2, <2>3 DEF Server
<1>7. ASSUME NEW c \in Callers, Ask(c) \/ Step(c) \/ Fail(c)
      PROVE  TypeOK'
  <2> DEFINE r == session[c]
  <2>0. /\ r \in SessionRow /\ r.validity \in 0 .. MaxEpoch /\ r.last \in 0 .. MaxUid
        /\ r.todo \subseteq Uids /\ r.batch \subseteq Uids
    BY <1>2 DEF SessionRow
  <2>00. ASSUME NEW s \in SessionRow, Goto(c, s), Tables, Same,
                lock' \in Callers \cup {NoOne}
         PROVE  TypeOK'
    BY <1>0, <1>3, <2>00 DEF TypeOK
  <2>1. CASE Ask(c)
    BY <1>0, <1>3, <2>1, SessionsStart DEF Ask, Quiet, TypeOK, server, tables, budget
  <2>2. CASE Acquire(c)
    <3>1. [r EXCEPT !.pc = "token"] \in SessionRow
      BY <2>0 DEF SessionRow, PCs, InThread
    <3> QED
      BY <2>2, <2>00, <3>1 DEF Acquire, Quiet, server, tables, budget
  <2>3. CASE ReadCursor(c)
    BY <1>0, <1>3, <2>3, SessionsStart DEF ReadCursor, Quiet, TypeOK, server, tables, budget
  <2>4. CASE Select(c)
    <3>1. PICK reset \in BOOLEAN, after \in 0 .. MaxUid, todo \in SUBSET Uids :
            Goto(c, [r EXCEPT !.pc = "fetch", !.validity = epoch, !.reset = reset,
                              !.last = after, !.todo = todo])
      <4> DEFINE reset == ResetNeeded(r.validity)
                 after == IF reset THEN 0 ELSE r.last
                 todo == Newest(Unseen(after), MaxMessages)
      <4>1. reset \in BOOLEAN /\ after \in 0 .. MaxUid
        BY <1>1, <2>0 DEF ResetNeeded
      <4>2. todo \in SUBSET Uids
        BY SelectionTypes DEF TypeOK
      <4>3. Goto(c, [r EXCEPT !.pc = "fetch", !.validity = epoch, !.reset = reset,
                              !.last = after, !.todo = todo])
        BY <2>4 DEF Select
      <4> QED
        BY <4>1, <4>2, <4>3
    <3>2. epoch \in 0 .. MaxEpoch
      BY <1>1 DEF TypeOK, Epochs
    <3>3. [r EXCEPT !.pc = "fetch", !.validity = epoch, !.reset = reset,
                    !.last = after, !.todo = todo] \in SessionRow
      BY <2>0, <3>2 DEF SessionRow, PCs, InThread
    <3>4. Tables /\ Same /\ lock' \in Callers \cup {NoOne}
      BY <2>4 DEF Select, Quiet, TypeOK, server, tables, budget
    <3> QED
      BY <2>00, <3>1, <3>3, <3>4
  <2>5. CASE Fetch(c)
    <3>1. PICK pc \in PCs, batch \in SUBSET Uids :
            Goto(c, [r EXCEPT !.pc = pc, !.batch = batch, !.todo = @ \ batch])
      <4>1. Oldest(r.todo, BatchSize) \in SUBSET Uids
        BY <2>0, SelectionTypes
      <4> QED
        BY <2>5, <4>1 DEF Fetch, PCs, InThread
    <3>2. [r EXCEPT !.pc = pc, !.batch = batch, !.todo = @ \ batch] \in SessionRow
      BY <2>0 DEF SessionRow
    <3>3. Tables /\ Same /\ lock' \in Callers \cup {NoOne}
      BY <2>5 DEF Fetch, Quiet, TypeOK, server, tables, budget
    <3> QED
      BY <2>00, <3>1, <3>2, <3>3
  <2>6. CASE FetchFails(c)
    BY <1>0, <1>3, <1>4, <2>6, SessionsStart DEF FetchFails, Quiet, TypeOK, server, tables, budget
  <2>7. CASE BeginRebuild(c)
    <3>1. [r EXCEPT !.pc = "store", !.rebuilding = TRUE, !.reset = FALSE] \in SessionRow
      BY <2>0 DEF SessionRow, PCs, InThread
    <3>2. session' \in [Callers -> SessionRow]
      BY <1>3, <2>7, <3>1 DEF BeginRebuild
    <3>3. (staging \in CursorRow /\ staged \in [Uids -> 0 .. MaxEpoch])'
      BY <1>1, <1>5, <2>0, <2>7 DEF BeginRebuild
    <3>4. (rescanned \in [archive : SUBSET Uids, staged : SUBSET Uids])'
      BY <2>7 DEF BeginRebuild, TypeOK
    <3> QED
      BY <1>0, <2>7, <3>2, <3>3, <3>4 DEF BeginRebuild, Quiet, TypeOK, server, budget
  <2>8. CASE Store(c)
    <3>1. PICK last \in 0 .. MaxUid : Goto(c, [r EXCEPT !.pc = "advance", !.last = last])
      BY <2>0, <2>8, LastIsUid DEF Store
    <3>2. [r EXCEPT !.pc = "advance", !.last = last] \in SessionRow
      BY <2>0 DEF SessionRow, PCs, InThread
    <3>3. session' \in [Callers -> SessionRow]
      BY <1>3, <3>1, <3>2
    <3>4. (archive \in [Uids -> 0 .. MaxEpoch] /\ staged \in [Uids -> 0 .. MaxEpoch])'
      BY <2>0, <2>8, RowTypes DEF Store, TypeOK
    <3>5. \A uids \in SUBSET Uids : Reread(uids, r) \in SUBSET Uids
      BY <2>0 DEF Reread
    <3>6. (rescanned \in [archive : SUBSET Uids, staged : SUBSET Uids])'
      BY <2>8, <3>5 DEF Store, TypeOK
    <3> QED
      BY <1>0, <2>8, <3>3, <3>4, <3>6 DEF Store, Quiet, TypeOK, server, budget
  <2>9. CASE Advance(c)
    <3>1. PICK s \in SessionRow : Goto(c, s)
      <4>1. /\ [r EXCEPT !.pc = "fetch", !.batch = {}] \in SessionRow
            /\ [r EXCEPT !.pc = "finish", !.batch = {}] \in SessionRow
        BY <2>0 DEF SessionRow, PCs, InThread
      <4> QED
        BY <2>9, <4>1, SessionsStart DEF Advance
    <3>2. (staging \in CursorRow /\ cursor \in CursorRow)'
      BY <2>0, <2>9 DEF Advance, TypeOK
    <3> QED
      BY <1>0, <1>3, <2>9, <3>1, <3>2 DEF Advance, Quiet, TypeOK, server, budget
  <2>10. CASE Finish(c)
    <3>1. session' \in [Callers -> SessionRow] /\ lock' \in Callers \cup {NoOne}
      <4>1. [r EXCEPT !.pc = "prune"] \in SessionRow
        BY <2>0 DEF SessionRow, PCs, InThread
      <4> QED
        BY <1>3, <1>4, <2>10, <4>1, SessionsStart DEF Finish, TypeOK
    <3>2. CASE Tables
      BY <1>0, <2>10, <3>1, <3>2 DEF Finish, Quiet, TypeOK, server, budget
    <3>3. CASE ~Tables
      <4>1. /\ archive' = staged /\ staged' = NoMessages /\ staging' = NoCursor
            /\ cursor' = [validity |-> r.validity, last |-> r.last]
            /\ rescanned' = [archive |-> rescanned.staged, staged |-> {}]
        BY <2>10, <3>3 DEF Finish, tables
      <4>2. (rescanned \in [archive : SUBSET Uids, staged : SUBSET Uids])'
        BY <4>1 DEF TypeOK
      <4>3. (staging \in CursorRow /\ cursor \in CursorRow)'
        BY <1>5, <2>0, <4>1
      <4>4. (archive \in [Uids -> 0 .. MaxEpoch] /\ staged \in [Uids -> 0 .. MaxEpoch])'
        BY <1>5, <4>1 DEF TypeOK
      <4> QED
        BY <1>0, <2>10, <3>1, <4>2, <4>3, <4>4 DEF Finish, Quiet, TypeOK, server, budget
    <3> QED
      BY <3>2, <3>3
  <2>11. CASE Prune(c)
    <3>1. archive' \in [Uids -> 0 .. MaxEpoch]
      BY <1>1, <2>11 DEF Prune, TypeOK
    <3> QED
      BY <1>0, <1>3, <1>4, <2>11, <3>1, SessionsStart DEF Prune, Quiet, TypeOK, server, budget
  <2>12. CASE Fail(c)
    BY <1>0, <1>3, <1>4, <2>12, SessionsStart DEF Fail, TypeOK, server, tables
  <2> QED
    BY <1>7, <2>1, <2>2, <2>3, <2>4, <2>5, <2>6, <2>7, <2>8, <2>9, <2>10, <2>11, <2>12 DEF Step
<1>8. CASE Process
  <2>1. CASE Start
    <3>1. (release \in [web : 0 .. MaxUpgrades, worker : 0 .. MaxUpgrades])'
      BY <2>1 DEF Start, TypeOK
    <3> QED
      BY <1>0, <2>1, <3>1 DEF Start, TypeOK, server, tables, budget
  <2>2. CASE Kill
    BY <1>0, <2>2, SessionsStart DEF Kill, TypeOK, server, tables
  <2>3. ASSUME NEW handover \in BOOLEAN, Stop(handover)
        PROVE  TypeOK'
    <3>1. \A c \in Callers : [session[c] EXCEPT !.detached = TRUE] \in SessionRow
      BY <1>2 DEF SessionRow
    <3>2. session' \in [Callers -> SessionRow]
      BY <1>0, <2>3, <3>1, SessionsStart DEF Stop
    <3>3. lock' \in Callers \cup {NoOne} /\ stops' \in Nat /\ phase' = "stopping"
      BY <2>3 DEF Stop, TypeOK
    <3>4. UNCHANGED <<server, tables, release, failures, kills>>
      BY <2>3 DEF Stop
    <3> QED
      BY <1>0, <3>2, <3>3, <3>4 DEF TypeOK, server, tables
  <2>4. CASE Exit
    BY <1>0, <2>4 DEF Exit, TypeOK, server, tables, budget
  <2>5. CASE Upgrade
    <3>1. (release \in [web : 0 .. MaxUpgrades, worker : 0 .. MaxUpgrades])'
      <4>1. release.web + 1 \in 0 .. MaxUpgrades
        BY <2>5, UpgradesAssumption DEF Upgrade, TypeOK
      <4> QED
        BY <2>5, <4>1 DEF Upgrade, TypeOK
    <3>2. (cursor \in CursorRow)'
      BY <1>1, <2>5 DEF Upgrade, RescanFrom, TypeOK
    <3>3. (rescanned \in [archive : SUBSET Uids, staged : SUBSET Uids])'
      BY <2>5 DEF Upgrade, TypeOK
    <3> QED
      BY <1>0, <1>5, <2>5, <3>1, <3>2, <3>3 DEF Upgrade, TypeOK, server, budget
  <2> QED
    BY <1>8, <2>1, <2>2, <2>3, <2>4, <2>5 DEF Process
<1>9. CASE PruneSome
  <2>1. archive' \in [Uids -> 0 .. MaxEpoch]
    BY <1>1, <1>9 DEF PruneSome, BatchPrune, TypeOK
  <2> QED
    BY <1>0, <1>9, <2>1 DEF PruneSome, BatchPrune, Quiet, TypeOK, server, budget
<1>10. CASE UNCHANGED vars
  BY <1>0, <1>10 DEF vars, server, tables, budget, TypeOK
<1> QED
  BY <1>6, <1>7, <1>8, <1>9, <1>10 DEF Next, Sync

\* The first state has the types.
LEMMA InitTypes == Init => TypeOK
<1>1. Idle \in SessionRow
  BY LimitsAssumption DEF Idle, SessionRow, PCs, InThread
<1>2. SessionRow =
        [pc : {"idle", "wait", "token", "finish", "prune"} \cup InThread,
         validity : 0 .. MaxEpoch, last : 0 .. MaxUid, rebuilding : BOOLEAN,
         reset : BOOLEAN, todo : SUBSET Uids, batch : SUBSET Uids, detached : BOOLEAN]
  BY DEF SessionRow, PCs
<1>3. NoMessages \in [Uids -> 0 .. MaxEpoch] /\ NoCursor \in CursorRow
  BY LimitsAssumption DEF NoMessages, NoCursor, CursorRow
<1>4. [validity |-> FirstValidity, last |-> 0] \in CursorRow
  BY LimitsAssumption, ValidityAssumption DEF CursorRow
<1>5. 0 \in 0 .. MaxUpgrades /\ 1 \in Epochs /\ 1 \in 1 .. (MaxUid + 1)
  BY LimitsAssumption, UpgradesAssumption DEF Epochs
<1> QED
  BY <1>1, <1>2, <1>3, <1>4, <1>5 DEF Init, TypeOK

\* What is stored, and what a session carries with it, are UIDs and values of
\* UIDVALIDITY; a pc is one of the code's await points.
THEOREM TypeCorrect == Spec => []TypeOK
<1> QED
  BY InitTypes, TypeStep, PTL DEF Spec

-----------------------------------------------------------------------------
(* The invariant                                                           *)

\* The setting of the safety theorems.  Without any of its conditions the code does
\* go wrong.  The worker of an old release must not write on when the new web
\* process has started.  And if UIDVALIDITY changes, the mailbox must have been
\* synchronised before, or there is nothing to compare the new one with, and no
\* stop may hand the mailbox over while a thread still rebuilds it.
Setting == ~SideBySide /\ (MaxEpoch = 1 \/ (FirstValidity = 1 /\ ~Handovers))

\* MaxMessages newer messages have been delivered since u was.
Outnumbered(u) == uidnext - 1 - u >= MaxMessages

\* u is in the rows, under the present epoch, and has been read by the new
\* release if there is one; or it need not be.
Kept(rows, read, u) ==
  (rows[u] = epoch /\ (release.web = 1 => u \in read)) \/ Outnumbered(u)

\* Rows of one epoch, which are UIDs of the mailbox if the epoch lasts.
Uniform(rows, validity) ==
  \A u \in Uids : rows[u] # 0 => rows[u] = validity /\ (validity = epoch => u < uidnext)

\* Everything up to last is kept, if the epoch lasts.
Reached(rows, read, validity, last) ==
  validity = epoch =>
    /\ last < uidnext
    /\ \A u \in inbox : u <= last => Kept(rows, read, u)

\* What a session still has to store comes after its cursor, in order, and leaves
\* no gap there.
Pending(s) ==
  /\ \A b \in s.batch, t \in s.todo : b < t
  /\ \A t \in s.todo : s.last < t
  /\ \A b \in s.batch : s.last < b <=> s.pc # "advance"
  /\ s.validity = epoch =>
       /\ \A w \in s.todo \cup s.batch : w < uidnext
       /\ \A u \in inbox, w \in s.todo \cup s.batch :
            s.last < u /\ u < w => u \in s.todo \cup s.batch \/ Outnumbered(u)

\* A session works on the rows and on the UIDVALIDITY of the cursor it has read.
Linked(s) ==
  IF s.rebuilding
    THEN s.validity = staging.validity /\ Reached(staged, rescanned.staged, s.validity, s.last)
    ELSE /\ Home(s.validity) = Home(cursor.validity)
         /\ Reached(archive, rescanned.archive, Home(s.validity), s.last)
         /\ ~Handovers => cursor.last <= s.last

\* Between the cursor's read and the end of the rebuild; and past the lock.
Busy == InThread \cup {"finish"}
Inside == Busy \cup {"token", "prune"}

\* What a session relies on, step by step.
SessionOK(s) ==
  /\ s.pc \in Busy => Home(s.validity) \in 1 .. epoch
  /\ s.pc \in Busy /\ s.validity = 0 => s.pc = "select" /\ ~s.rebuilding /\ MaxEpoch = 1
  /\ s.pc \in Busy /\ ~s.reset => Linked(s)
  /\ s.reset => s.pc \in {"fetch", "begin"} /\ s.last = 0 /\ Home(cursor.validity) < s.validity
  /\ s.pc = "begin" => s.reset
  /\ s.pc \in {"select", "fetch"} => s.batch = {}
  /\ s.pc \in {"fetch", "begin", "store", "advance"} => Pending(s)

\* One session at a time is past the lock, and has it while the worker is up,
\* unless a stop hands the mailbox over.
LockHeld ==
  ~Handovers =>
    /\ \A c, d \in Callers : session[c].pc \in Inside /\ session[d].pc \in Inside => c = d
    /\ phase = "up" => \A c \in Callers : session[c].pc \in Inside => lock = c

\* The worker runs the release that was current when it started, and there is
\* no session without it.
Processes ==
  /\ phase # "down" => release.worker = release.web
  /\ phase = "down" => \A c \in Callers : At(c, "idle")

\* A rebuild is for a later UIDVALIDITY than the archive has.
Validities ==
  /\ cursor.validity = 0 => MaxEpoch = 1
  /\ Home(cursor.validity) \in 1 .. epoch
  /\ staging.validity <= epoch
  /\ staging.validity # 0 => Home(cursor.validity) < staging.validity

\* The cursors speak for their rows.
TablesOK ==
  /\ Validities
  /\ Uniform(archive, Home(cursor.validity))
  /\ Uniform(staged, staging.validity)
  /\ Reached(archive, rescanned.archive, Home(cursor.validity), cursor.last)
  /\ Reached(staged, rescanned.staged, staging.validity, staging.last)

\* The inductive invariant.
ArchiveInv ==
  /\ TypeOK
  /\ \A u \in inbox : u < uidnext
  /\ Processes
  /\ LockHeld
  /\ TablesOK
  /\ \A c \in Callers : SessionOK(session[c])
-----------------------------------------------------------------------------
(* Counting UIDs                                                           *)

\* Between u and n there are n - 1 - u numbers.
LEMMA FewBetween ==
  ASSUME NEW u \in Nat, NEW n \in Nat, u < n,
         NEW S, \A v \in S : v \in Nat /\ u < v /\ v < n
  PROVE  IsFiniteSet(S) /\ Cardinality(S) \in Nat /\ Cardinality(S) <= n - 1 - u
<1>1. S \subseteq (u + 1) .. (n - 1)
  OBVIOUS
<1>2. /\ IsFiniteSet((u + 1) .. (n - 1))
      /\ Cardinality((u + 1) .. (n - 1)) = IF u + 1 > n - 1 THEN 0 ELSE n - 1 - (u + 1) + 1
  BY FS_Interval
<1>3. IsFiniteSet(S) /\ Cardinality(S) <= Cardinality((u + 1) .. (n - 1))
  BY <1>1, <1>2, FS_Subset
<1> QED
  BY <1>2, <1>3, FS_CardinalityType

\* Sets of UIDs are finite.
LEMMA UidsFinite == \A S \in SUBSET Uids : IsFiniteSet(S) /\ Cardinality(S) \in Nat
<1>1. IsFiniteSet(Uids)
  BY LimitsAssumption, FS_Interval DEF Uids
<1> QED
  BY <1>1, FS_Subset, FS_CardinalityType

\* A batch is stored in the order of the UIDs.
LEMMA OldestFirst ==
  ASSUME NEW S \in SUBSET Uids, NEW n \in Nat,
         NEW b \in Oldest(S, n), NEW t \in S \ Oldest(S, n)
  PROVE  b < t
<1> DEFINE Under(w) == {v \in S : v < w}
<1>1. Cardinality(Under(b)) < n /\ ~(Cardinality(Under(t)) < n)
  BY DEF Oldest
<1>2. b \in S /\ b # t /\ b \in Nat /\ t \in Nat /\ \A v \in S : v \in Nat
  BY <1>1, LimitsAssumption DEF Oldest, Uids
<1>3. ASSUME t < b PROVE FALSE
  <2>1. Under(t) \subseteq Under(b)
    <3>1. \A v \in S : v < t => v < b
      BY <1>2, <1>3
    <3> QED
      BY <3>1
  <2>2. IsFiniteSet(Under(b)) /\ Under(b) \in SUBSET Uids /\ Under(t) \in SUBSET Uids
    BY UidsFinite
  <2>3. Cardinality(Under(t)) <= Cardinality(Under(b))
    <3> HIDE DEF Under
    <3> QED
      BY <2>1, <2>2, FS_Subset
  <2>4. Cardinality(Under(t)) \in Nat /\ Cardinality(Under(b)) \in Nat
    <3> HIDE DEF Under
    <3> QED
      BY <2>2, UidsFinite
  <2> HIDE DEF Under
  <2> QED
    BY <1>1, <2>3, <2>4
<1> QED
  BY <1>2, <1>3

\* An unseen message that is not selected is outnumbered.
LEMMA SelectedOrOutnumbered ==
  ASSUME TypeOK, \A w \in inbox : w < uidnext, NEW after \in Nat,
         NEW u \in inbox, after < u
  PROVE  u \in Newest(Unseen(after), MaxMessages) \/ Outnumbered(u)
<1> DEFINE Newer == {v \in Unseen(after) : v > u}
<1>1. u \in Nat /\ uidnext \in Nat /\ u < uidnext /\ inbox \subseteq Nat
  BY LimitsAssumption DEF TypeOK, Uids
<1>2. \A v \in Newer : v \in Nat /\ u < v /\ v < uidnext
  BY <1>1 DEF Unseen
<1>3. Cardinality(Newer) \in Nat /\ Cardinality(Newer) <= uidnext - 1 - u
  <2> HIDE DEF Newer
  <2> QED
    BY <1>1, <1>2, FewBetween
<1>4. u \in Unseen(after)
  BY DEF Unseen
<1>5. u \in Newest(Unseen(after), MaxMessages) <=> Cardinality(Newer) < MaxMessages
  BY <1>4 DEF Newest
<1> HIDE DEF Newer
<1> QED
  BY <1>1, <1>3, <1>5, SizesAssumption DEF Outnumbered

\* Pruning deletes what is outnumbered only.
LEMMA BeyondOutnumbered ==
  ASSUME TypeOK, \A v \in Uids : archive[v] # 0 => v < uidnext, NEW u \in Beyond
  PROVE  Outnumbered(u)
<1> DEFINE Newer == {v \in Stored : v > u}
<1>1. u \in Nat /\ uidnext \in Nat /\ u < uidnext
  BY LimitsAssumption DEF TypeOK, Uids, Beyond, Stored
<1>2. \A v \in Newer : v \in Nat /\ u < v /\ v < uidnext
  BY LimitsAssumption DEF Stored, Uids
<1>3. Cardinality(Newer) \in Nat /\ Cardinality(Newer) <= uidnext - 1 - u
  <2> HIDE DEF Newer
  <2> QED
    BY <1>1, <1>2, FewBetween
<1>4. Cardinality(Newer) >= MaxMessages
  BY DEF Beyond
<1> HIDE DEF Newer
<1> QED
  BY <1>1, <1>3, <1>4, SizesAssumption DEF Outnumbered

-----------------------------------------------------------------------------
(* What the code's writes do to the rows                                   *)

\* A UIDVALIDITY stands for itself, 0 for the first.
LEMMA HomeIs ==
  ASSUME NEW v \in Nat
  PROVE  Home(v) \in Nat \ {0} /\ (v # 0 => Home(v) = v) /\ (v = 0 => Home(v) = 1)
BY DEF Home

\* The types that the arithmetic below needs.
LEMMA Types ==
  ASSUME TypeOK
  PROVE  /\ epoch \in Nat \ {0} /\ uidnext \in Nat \ {0}
         /\ \A u \in Uids : u \in Nat /\ u > 0
         /\ inbox \subseteq Uids
         /\ staging.validity \in Nat /\ staging.last \in Nat
         /\ cursor.validity \in Nat /\ cursor.last \in Nat
         /\ release.web \in {0, 1} /\ release.worker \in {0, 1}
         /\ archive \in [Uids -> Nat] /\ staged \in [Uids -> Nat]
         /\ MaxMessages \in Nat
         /\ \A c \in Callers :
              /\ session[c] \in SessionRow
              /\ session[c].validity \in Nat /\ session[c].last \in Nat
              /\ session[c].rebuilding \in BOOLEAN /\ session[c].reset \in BOOLEAN
              /\ session[c].todo \subseteq Uids /\ session[c].batch \subseteq Uids
<1>1. \A c \in Callers : session[c] \in SessionRow
  BY DEF TypeOK, SessionRow, PCs
<1>2. \A c \in Callers :
              /\ session[c].validity \in Nat /\ session[c].last \in Nat
              /\ session[c].rebuilding \in BOOLEAN /\ session[c].reset \in BOOLEAN
              /\ session[c].todo \subseteq Uids /\ session[c].batch \subseteq Uids
  BY <1>1, LimitsAssumption DEF SessionRow
<1>3. /\ staging.validity \in Nat /\ staging.last \in Nat
      /\ cursor.validity \in Nat /\ cursor.last \in Nat
  BY LimitsAssumption DEF TypeOK, CursorRow
<1>4. release.web \in {0, 1} /\ release.worker \in {0, 1}
  BY UpgradesAssumption DEF TypeOK
<1>5. archive \in [Uids -> Nat] /\ staged \in [Uids -> Nat]
  BY LimitsAssumption DEF TypeOK
<1>6. epoch \in Nat \ {0} /\ uidnext \in Nat \ {0}
  BY LimitsAssumption DEF TypeOK, Epochs
<1>7. MaxMessages \in Nat
  BY SizesAssumption
<1>8. inbox \subseteq Uids /\ \A u \in Uids : u \in Nat /\ u > 0
  BY LimitsAssumption DEF TypeOK, Uids
<1> QED
  BY <1>1, <1>2, <1>3, <1>4, <1>5, <1>6, <1>7, <1>8

\* The same of the fields of any session.
LEMMA RowFields ==
  ASSUME NEW s \in SessionRow
  PROVE  /\ s.validity \in Nat /\ s.last \in Nat
         /\ s.rebuilding \in BOOLEAN /\ s.reset \in BOOLEAN
         /\ s.todo \subseteq Uids /\ s.batch \subseteq Uids
BY LimitsAssumption DEF SessionRow

\* After SELECT a session has a UIDVALIDITY of the mailbox.
LEMMA Connected ==
  ASSUME TypeOK, NEW s \in SessionRow, SessionOK(s), s.pc \in Busy, s.pc # "select"
  PROVE  s.validity \in 1 .. epoch /\ Home(s.validity) = s.validity
<1>1. s.validity \in Nat /\ epoch \in Nat
  BY RowFields, Types
<1>2. s.validity # 0 /\ Home(s.validity) \in 1 .. epoch
  BY DEF SessionOK
<1> QED
  BY <1>1, <1>2, HomeIs

\* A batch of the same epoch takes nothing away from what is kept.
LEMMA StoreKeeps ==
  ASSUME TypeOK, release.worker = release.web,
         NEW s \in SessionRow, NEW rows \in [Uids -> Nat], NEW read, NEW validity, NEW last,
         Reached(rows, read, validity, last), validity = epoch => s.validity = epoch
  PROVE  Reached(With(rows, s), Reread(read, s), validity, last)
<1>1. SUFFICES ASSUME validity = epoch, NEW u \in inbox, u <= last, Kept(rows, read, u)
               PROVE  Kept(With(rows, s), Reread(read, s), u)
  BY DEF Reached
<1>2. u \in Uids
  BY Types
<1>3. With(rows, s)[u] = IF u \in s.batch THEN s.validity ELSE rows[u]
  BY <1>2 DEF With
<1>4. release.web = 1 /\ u \in read => u \in Reread(read, s)
  BY DEF Reread
<1>5. release.web = 1 /\ u \in s.batch => u \in Reread(read, s)
  BY DEF Reread
<1> QED
  BY <1>1, <1>3, <1>4 DEF Kept

\* A session that has stored its batch has kept everything up to its last UID.
LEMMA StoreReaches ==
  ASSUME TypeOK, release.worker = release.web,
         NEW s \in SessionRow, NEW rows \in [Uids -> Nat], NEW read,
         Reached(rows, read, s.validity, s.last), Pending(s), s.pc # "advance"
  PROVE  Reached(With(rows, s), Reread(read, s), s.validity, LastUid(s.last, s.batch, s.todo))
<1> DEFINE last == LastUid(s.last, s.batch, s.todo)
<1>1. SUFFICES ASSUME s.validity = epoch
               PROVE  /\ last < uidnext
                      /\ \A u \in inbox : u <= last => Kept(With(rows, s), Reread(read, s), u)
  BY DEF Reached
<1>2. /\ s.last \in Nat /\ s.batch \subseteq Uids /\ s.todo \subseteq Uids
      /\ Uids \subseteq Nat /\ inbox \subseteq Uids /\ uidnext \in Nat
  BY RowFields, Types
<1>3. CASE s.batch = {}
  <2>1. last = s.last
    BY <1>3 DEF LastUid
  <2> QED
    BY <1>1, <2>1, StoreKeeps DEF Reached
<1>4. CASE s.batch # {}
  <2>1. last \in s.batch /\ \A b \in s.batch : b <= last
    BY <1>2, <1>4, HighestUid DEF LastUid
  <2>2. last < uidnext
    BY <1>1, <2>1 DEF Pending
  <2>4. last \in Nat
    BY <1>2, <2>1
  <2> HIDE DEF last
  <2>3. ASSUME NEW u \in inbox, u <= last
        PROVE  Kept(With(rows, s), Reread(read, s), u)
    <3>1. CASE u <= s.last
      BY <1>1, <3>1, StoreKeeps DEF Reached
    <3>2. CASE u \in s.batch
      <4>1. With(rows, s)[u] = epoch
        BY <1>1, <1>2, <3>2 DEF With
      <4>2. release.web = 1 => u \in Reread(read, s)
        BY <3>2 DEF Reread
      <4> QED
        BY <4>1, <4>2 DEF Kept
    <3>3. CASE s.last < u /\ u \notin s.batch
      <4>1. u < last /\ u \in Nat /\ last \in Nat
        BY <1>2, <2>1, <2>3, <2>4, <3>3
      <4>2. u \notin s.todo
        BY <2>1, <4>1 DEF Pending
      <4>3. Outnumbered(u)
        BY <1>1, <2>1, <3>3, <4>1, <4>2 DEF Pending
      <4> QED
        BY <4>3 DEF Kept
    <3>4. u \in Nat /\ s.last \in Nat
      BY <1>2
    <3> QED
      BY <3>1, <3>2, <3>3, <3>4
  <2> QED
    BY <2>2, <2>3
<1> QED
  BY <1>3, <1>4

\* Rows stay of one epoch when a batch of that epoch is stored.
LEMMA StoreUniform ==
  ASSUME TypeOK, NEW s \in SessionRow, NEW rows \in [Uids -> Nat],
         Uniform(rows, s.validity), Pending(s)
  PROVE  Uniform(With(rows, s), s.validity)
BY DEF Uniform, With, Pending

\* Deleting rows beyond the limit takes nothing away that must be kept.
LEMMA PruneKeeps ==
  ASSUME TypeOK, Uniform(archive, Home(cursor.validity)), NEW S \in SUBSET Beyond,
         NEW rows, rows = [u \in Uids |-> IF u \in S THEN 0 ELSE archive[u]],
         NEW read
  PROVE  /\ Uniform(rows, Home(cursor.validity))
         /\ \A last : Reached(archive, read, Home(cursor.validity), last)
                        => Reached(rows, read, Home(cursor.validity), last)
<1>1. Uniform(rows, Home(cursor.validity))
  BY DEF Uniform
<1>2. ASSUME Home(cursor.validity) = epoch, NEW u \in inbox, Kept(archive, read, u)
      PROVE  Kept(rows, read, u)
  <2>1. \A v \in Uids : archive[v] # 0 => v < uidnext
    BY <1>2 DEF Uniform
  <2>2. u \in S => Outnumbered(u)
    BY <2>1, BeyondOutnumbered
  <2>3. u \in Uids
    BY Types
  <2> QED
    BY <1>2, <2>2, <2>3 DEF Kept
<1> QED
  BY <1>1, <1>2 DEF Reached

-----------------------------------------------------------------------------
(* What the steps have in common                                           *)

\* A row of the next state is that of a session.
LEMMA RowIsSession ==
  ASSUME NEW d \in Callers, NEW s, session'[d] = s, SessionOK(s)'
  PROVE  SessionOK(session[d])'
BY DEF SessionOK, Linked, Pending, Reached, Kept, Outnumbered, Busy, InThread

\* A step that leaves the mailbox and the tables alone disturbs nothing in them.
LEMMA Unmoved ==
  ASSUME UNCHANGED <<server, tables>>, release'.web = release.web
  PROVE  /\ TablesOK => TablesOK'
         /\ \A s : SessionOK(s) => SessionOK(s)'
BY DEF server, tables, TablesOK, Validities, Uniform, SessionOK, Linked, Pending, Reached,
       Kept, Outnumbered, Busy, InThread

\* A session that waits or prunes relies on nothing.
LEMMA Parked ==
  ASSUME NEW s, s.pc \in {"idle", "wait", "token", "prune"}, ~s.reset
  PROVE  SessionOK(s) /\ SessionOK(s)'
BY DEF SessionOK, Busy, InThread

\* The others are not inside, or UIDVALIDITY does not change.
LEMMA Alone ==
  ASSUME Setting, ArchiveInv, NEW c \in Callers, session[c].pc \in Inside,
         NEW d \in Callers, d # c
  PROVE  \/ session[d].pc \in {"idle", "wait"} /\ ~session[d].reset
         \/ MaxEpoch = 1 /\ Handovers
<1>1. session[d].pc \in PCs
  BY Types DEF ArchiveInv, SessionRow
<1>2. CASE ~Handovers
  <2>1. session[d].pc \notin Inside
    BY <1>2 DEF ArchiveInv, LockHeld
  <2>2. session[d].pc \in {"idle", "wait"}
    BY <1>1, <2>1 DEF PCs, Inside, Busy
  <2>3. SessionOK(session[d])
    BY DEF ArchiveInv
  <2> QED
    BY <2>2, <2>3 DEF SessionOK
<1> QED
  BY <1>2 DEF Setting

\* Without a change of UIDVALIDITY no session rebuilds.
LEMMA Plain ==
  ASSUME ArchiveInv, MaxEpoch = 1
  PROVE  /\ epoch = 1 /\ Home(cursor.validity) = 1 /\ staging.validity = 0
         /\ \A d \in Callers :
              /\ ~session[d].reset
              /\ session[d].pc \in Busy => ~session[d].rebuilding /\ Home(session[d].validity) = 1
<1>1. epoch = 1
  BY DEF ArchiveInv, TypeOK, Epochs
<1>2. Home(cursor.validity) = 1 /\ staging.validity = 0
  BY <1>1, Types DEF ArchiveInv, TablesOK, Validities
<1>3. ASSUME NEW d \in Callers
      PROVE  /\ ~session[d].reset
             /\ session[d].pc \in Busy => ~session[d].rebuilding /\ Home(session[d].validity) = 1
  <2>1. /\ SessionOK(session[d]) /\ session[d].rebuilding \in BOOLEAN
        /\ session[d].validity \in Nat
    BY Types DEF ArchiveInv
  <2>2. session[d].pc \in Busy => Home(session[d].validity) = 1
    BY <1>1, <2>1, HomeIs DEF SessionOK
  <2>3. ~session[d].reset
    BY <1>2, <2>1, <2>2, HomeIs DEF SessionOK, Busy, InThread
  <2> QED
    BY <1>2, <2>1, <2>2, <2>3, HomeIs DEF SessionOK, Linked
<1> QED
  BY <1>1, <1>2, <1>3

\* A session that starts works on the cursor it has just read.
LEMMA StartedOK ==
  ASSUME TypeOK, TablesOK
  PROVE  SessionOK(Started) /\ SessionOK([Started EXCEPT !.detached = TRUE])
<1>2. PICK b \in BOOLEAN : b = (staging.validity # 0)
  OBVIOUS
<1>3. Started = [Idle EXCEPT !.pc = "select", !.validity = CurrentCursor.validity,
                             !.last = CurrentCursor.last, !.rebuilding = b]
  BY <1>2 DEF Started
<1>4. /\ Started.pc = "select" /\ Started.validity = CurrentCursor.validity
      /\ Started.last = CurrentCursor.last /\ Started.rebuilding = b
      /\ Started.reset = FALSE /\ Started.batch = {} /\ Started \in SessionRow
  <2>1. PICK v, l : v = CurrentCursor.validity /\ l = CurrentCursor.last
    OBVIOUS
  <2>2. PICK s : s = Started
    OBVIOUS
  <2>3. s = [Idle EXCEPT !.pc = "select", !.validity = v, !.last = l, !.rebuilding = b]
    BY <1>3, <2>1, <2>2
  <2>4. /\ s.pc = "select" /\ s.validity = v /\ s.last = l /\ s.rebuilding = b
        /\ s.reset = FALSE /\ s.batch = {}
    BY <2>3 DEF Idle
  <2>5. Started \in SessionRow
    BY SessionsStart
  <2> QED
    BY <2>1, <2>2, <2>4, <2>5
<1>7. /\ Home(CurrentCursor.validity) \in 1 .. epoch
      /\ CurrentCursor.validity = 0 => MaxEpoch = 1 /\ ~b
  <2>1. /\ Validities /\ epoch \in Nat /\ staging.validity \in Nat /\ cursor.validity \in Nat
        /\ CurrentCursor = IF staging.validity # 0 THEN staging ELSE cursor
    BY Types DEF CurrentCursor, TablesOK
  <2>2. staging.validity # 0 => Home(staging.validity) \in 1 .. epoch
    BY <2>1, HomeIs DEF Validities
  <2> QED
    BY <1>2, <2>1, <2>2 DEF Validities
<1>8. Linked(Started)
  <2>1. CASE staging.validity # 0
    BY <1>2, <1>4, <2>1 DEF Linked, CurrentCursor, TablesOK
  <2>2. CASE staging.validity = 0
    <3>1. Started.rebuilding = FALSE
      BY <1>2, <1>4, <2>2
    <3>2. Started.validity = cursor.validity /\ Started.last = cursor.last /\ cursor.last \in Nat
      BY <1>4, <2>2, Types DEF CurrentCursor
    <3> QED
      BY <3>1, <3>2 DEF Linked, TablesOK
  <2> QED
    BY <2>1, <2>2
<1>5. SessionOK(Started)
  BY <1>4, <1>7, <1>8 DEF SessionOK
<1>6. \A s \in SessionRow : SessionOK(s) => SessionOK([s EXCEPT !.detached = TRUE])
  BY DEF SessionOK, SessionRow, Linked, Pending
<1> QED
  BY <1>4, <1>5, <1>6

\* The lock and the process after a step of a session.
LEMMA Locking ==
  ASSUME ArchiveInv, NEW c \in Callers, Ask(c) \/ Step(c) \/ Fail(c)
  PROVE  Processes' /\ LockHeld' /\ phase # "down" /\ release.worker = release.web
<1>1. /\ phase' = phase /\ stops' = stops /\ release' = release
      /\ \E s : session' = [session EXCEPT ![c] = s]
  BY DEF Ask, Step, Fail, Acquire, ReadCursor, Select, Fetch, FetchFails, BeginRebuild, Store,
         Advance, Finish, Prune, Quiet, Goto, budget
<1>2. phase # "down"
  BY DEF ArchiveInv, Processes, At, Ask, Step, Fail, Acquire, ReadCursor, Select, Fetch,
         FetchFails, BeginRebuild, Store, Advance, Finish, Prune
<1>3. Processes' /\ release.worker = release.web
  BY <1>1, <1>2 DEF ArchiveInv, Processes
<1>4. session \in [Callers -> SessionRow]
  BY DEF ArchiveInv, TypeOK, SessionRow, PCs
<1>5. \/ lock' = lock /\ (session'[c].pc \in Inside => session[c].pc \in Inside)
      \/ lock' = c /\ lock = NoOne /\ phase = "up"
      \/ lock' = (IF lock = c THEN NoOne ELSE lock) /\ session'[c] = Idle
  <2>1. \A s \in SessionRow : \A pc : [s EXCEPT !.pc = pc].pc = pc
    BY DEF SessionRow
  <2> USE DEF Goto, At, Inside, Busy, InThread
  <2>2. CASE Ask(c)
    BY <1>4, <2>2 DEF Ask, Idle
  <2>3. CASE Acquire(c)
    BY <2>3 DEF Acquire, LockFree
  <2>4. CASE Fail(c) \/ FetchFails(c) \/ Prune(c)
    BY <1>4, <2>4 DEF Fail, FetchFails, Prune, Release
  <2>5. CASE ReadCursor(c) \/ Select(c) \/ Fetch(c) \/ BeginRebuild(c) \/ Store(c) \/ Advance(c)
    <3>1. lock' = lock /\ session[c].pc \in Inside
      BY <2>5 DEF ReadCursor, Select, Fetch, BeginRebuild, Store, Advance
    <3> QED
      BY <3>1
  <2>6. CASE Finish(c)
    <3>1. session[c].pc \in Inside
      BY <2>6 DEF Finish
    <3>2. lock' = lock \/ (lock' = (IF lock = c THEN NoOne ELSE lock) /\ session'[c] = Idle)
      BY <1>4, <2>6 DEF Finish, Release
    <3> QED
      BY <3>1, <3>2
  <2> QED
    BY <2>2, <2>3, <2>4, <2>5, <2>6 DEF Step
<1>6. Idle.pc \notin Inside
  BY DEF Idle, Inside, Busy, InThread
<1>7. ASSUME ~Handovers
      PROVE  /\ \A d, e \in Callers :
                  session'[d].pc \in Inside /\ session'[e].pc \in Inside => d = e
             /\ phase = "up" => \A d \in Callers : session'[d].pc \in Inside => lock' = d
  <2>1. \A d \in Callers : d # c => session'[d] = session[d]
    BY <1>1, <1>4
  <2>2. /\ \A d, e \in Callers : session[d].pc \in Inside /\ session[e].pc \in Inside => d = e
        /\ phase = "up" => \A d \in Callers : session[d].pc \in Inside => lock = d
    BY <1>7 DEF ArchiveInv, LockHeld
  <2>3. CASE lock' = lock /\ (session'[c].pc \in Inside => session[c].pc \in Inside)
    BY <2>1, <2>2, <2>3
  <2>4. CASE lock' = c /\ lock = NoOne /\ phase = "up"
    BY <2>1, <2>2, <2>4, CallersAssumption
  <2>5. CASE lock' = (IF lock = c THEN NoOne ELSE lock) /\ session'[c] = Idle
    <3>1. session'[c].pc \notin Inside
      BY <1>6, <2>5
    <3> QED
      BY <2>1, <2>2, <2>5, <3>1
  <2> QED
    BY <1>5, <2>3, <2>4, <2>5
<1> QED
  BY <1>1, <1>2, <1>3, <1>7 DEF ArchiveInv, LockHeld

-----------------------------------------------------------------------------
(* The steps of a session                                                  *)

\* SELECT and the search: what is not selected is outnumbered.
LEMMA SelectOK ==
  ASSUME ArchiveInv, NEW c \in Callers, Select(c), NEW s, s = session'[c]
  PROVE  SessionOK(s)
<1> DEFINE r == session[c]
           reset == ResetNeeded(r.validity)
           after == IF reset THEN 0 ELSE r.last
           todo == Newest(Unseen(after), MaxMessages)
<1>1. /\ TypeOK /\ TablesOK /\ \A u \in inbox : u < uidnext
      /\ SessionOK(r) /\ r.pc = "select" /\ r \in SessionRow
      /\ session \in [Callers -> SessionRow]
  BY Types DEF ArchiveInv, Select, At, TypeOK, SessionRow, PCs
<1>2. /\ Home(r.validity) \in 1 .. epoch /\ r.validity \in Nat
      /\ (r.validity = 0 => ~r.rebuilding /\ MaxEpoch = 1)
      /\ ~r.reset /\ Linked(r) /\ r.batch = {}
      /\ r.rebuilding \in BOOLEAN /\ r.last \in Nat
  BY <1>1, RowFields DEF SessionOK, Busy, InThread
<1>3. s = [r EXCEPT !.pc = "fetch", !.validity = epoch, !.reset = reset,
                    !.last = after, !.todo = todo]
  BY <1>1 DEF Select, Goto
<1>4. reset \in BOOLEAN /\ after \in Nat
  BY <1>2 DEF ResetNeeded
<1>5. /\ \A t \in todo : t \in inbox /\ after < t /\ t < uidnext
      /\ \A u \in inbox : after < u => u \in todo \/ Outnumbered(u)
  <2>1. \A t \in todo : t \in inbox /\ t > after
    BY DEF Newest, Unseen
  <2>2. \A u \in inbox : after < u => u \in todo \/ Outnumbered(u)
    <3> HIDE DEF after
    <3> QED
      BY <1>1, <1>4, SelectedOrOutnumbered
  <2>3. \A t \in todo : t \in Nat
    BY <1>1, <2>1, Types
  <2> QED
    BY <1>1, <1>4, <2>1, <2>2, <2>3
<1>13. epoch \in Nat \ {0} /\ Home(epoch) = epoch /\ Home(r.validity) \in Nat
       /\ (r.validity # 0 => Home(r.validity) = r.validity)
       /\ Home(cursor.validity) \in Nat
  BY <1>1, <1>2, Types, HomeIs
<1>6. reset => Home(cursor.validity) < epoch
  <2>1. reset => Home(r.validity) < epoch
    BY <1>2, <1>13 DEF ResetNeeded
  <2>2. Home(cursor.validity) <= Home(r.validity)
    <3>1. CASE r.rebuilding
      <4>1. r.validity = staging.validity /\ r.validity # 0
        BY <1>2, <3>1 DEF Linked
      <4> QED
        BY <1>1, <1>13, <4>1 DEF TablesOK, Validities
    <3>2. CASE ~r.rebuilding
      BY <1>2, <1>13, <3>2 DEF Linked
    <3> QED
      BY <3>1, <3>2
  <2> QED
    BY <1>2, <1>13, <2>1, <2>2
<1>7. ~reset => Home(r.validity) = epoch /\ after = r.last /\ (r.rebuilding => r.validity = epoch)
  <2>1. MaxEpoch = 1 => epoch = 1
    BY <1>1 DEF TypeOK, Epochs
  <2>2. r.validity = 0 => Home(r.validity) = 1
    BY <1>2, HomeIs
  <2> QED
    BY <1>2, <1>13, <2>1, <2>2 DEF ResetNeeded
<1>8. reset => after = 0
  OBVIOUS
<1>9. epoch \in 1 .. epoch
  BY <1>1, Types
<1> HIDE DEF reset, after, todo
<1>10. /\ s.pc = "fetch" /\ s.validity = epoch /\ s.reset = reset /\ s.last = after
       /\ s.todo = todo /\ s.batch = {} /\ s.rebuilding = r.rebuilding
  BY <1>1, <1>2, <1>3 DEF SessionRow
<1>11. Pending(s)
  BY <1>5, <1>10 DEF Pending
<1>12. ~reset => Linked(s)
  <2>1. CASE r.rebuilding
    BY <1>2, <1>7, <1>10, <2>1 DEF Linked
  <2>2. CASE ~r.rebuilding
    BY <1>2, <1>7, <1>10, <1>13, <2>2 DEF Linked
  <2> QED
    BY <1>2, <2>1, <2>2
<1> QED
  BY <1>4, <1>6, <1>8, <1>9, <1>10, <1>11, <1>12, <1>13 DEF SessionOK, Busy, InThread

\* A batch is the lower end of what is still to be stored.
LEMMA FetchOK ==
  ASSUME ArchiveInv, NEW c \in Callers, Fetch(c), NEW s, s = session'[c]
  PROVE  SessionOK(s)
<1> DEFINE r == session[c]
           batch == Oldest(r.todo, BatchSize)
           pc == IF r.reset THEN "begin" ELSE "store"
<1>1. /\ TypeOK /\ SessionOK(r) /\ r.pc = "fetch" /\ r \in SessionRow
      /\ session \in [Callers -> SessionRow]
  BY Types DEF ArchiveInv, Fetch, At, TypeOK, SessionRow, PCs
<1>2. /\ r.validity \in 1 .. epoch /\ (~r.reset => Linked(r)) /\ r.batch = {} /\ Pending(r)
      /\ r.rebuilding \in BOOLEAN /\ r.reset \in BOOLEAN /\ r.todo \subseteq Uids
      /\ (r.reset => r.last = 0 /\ Home(cursor.validity) < r.validity)
      /\ Home(r.validity) = r.validity
  <2>1. r.pc \in Busy /\ r.validity \in 1 .. epoch /\ Home(r.validity) = r.validity
    BY <1>1, Connected DEF Busy, InThread
  <2> QED
    BY <1>1, <2>1, RowFields DEF SessionOK
<1>3. s = [r EXCEPT !.pc = pc, !.batch = batch, !.todo = @ \ batch]
  BY <1>1 DEF Fetch, Goto
<1>4. batch \subseteq r.todo /\ \A b \in batch, t \in r.todo \ batch : b < t
  BY <1>2, SelectionTypes, OldestFirst, SizesAssumption
<1>5. pc \in {"begin", "store"} /\ (pc = "begin" <=> r.reset)
  BY <1>2
<1> HIDE DEF batch, pc
<1>6. /\ s.pc = pc /\ s.validity = r.validity /\ s.reset = r.reset /\ s.last = r.last
      /\ s.todo = r.todo \ batch /\ s.batch = batch /\ s.rebuilding = r.rebuilding
  BY <1>1, <1>3 DEF SessionRow
<1>7. s.todo \cup s.batch = r.todo
  BY <1>4, <1>6
<1>8. Pending(s)
  <2>1. r.todo \cup r.batch = r.todo
    BY <1>2
  <2> QED
    BY <1>2, <1>4, <1>5, <1>6, <1>7, <2>1 DEF Pending
<1>9. ~r.reset => Linked(s)
  BY <1>2, <1>6 DEF Linked
<1> QED
  BY <1>2, <1>5, <1>6, <1>8, <1>9 DEF SessionOK, Busy, InThread

\* The steps of a session before it writes anything, and its failures.
LEMMA LocalStep ==
  ASSUME ArchiveInv, NEW c \in Callers,
         \/ Ask(c) \/ Acquire(c) \/ ReadCursor(c) \/ Select(c) \/ Fetch(c)
         \/ FetchFails(c) \/ Fail(c)
  PROVE  TablesOK' /\ \A d \in Callers : SessionOK(session[d])'
<1>1. UNCHANGED <<server, tables>> /\ release'.web = release.web
  BY DEF Ask, Acquire, ReadCursor, Select, Fetch, FetchFails, Fail, Quiet
<1>2. /\ TypeOK /\ TablesOK /\ \A d \in Callers : SessionOK(session[d])
      /\ session \in [Callers -> SessionRow]
  BY DEF ArchiveInv, TypeOK, SessionRow, PCs
<1>3. PICK s : s = session'[c]
  OBVIOUS
<1>4. \A t : t.pc \in {"idle", "wait", "token", "prune"} /\ ~t.reset => SessionOK(t)
  BY Parked
<1>5. SessionOK(s)
  <2>1. CASE Ask(c)
    <3>1. s.pc = "wait" /\ ~s.reset
      BY <1>2, <1>3, <2>1 DEF Ask, Goto, Idle
    <3> QED
      BY <1>4, <3>1
  <2>2. CASE Acquire(c)
    <3>1. ~session[c].reset /\ session[c] \in SessionRow
      BY <1>2, <2>2 DEF Acquire, At, SessionOK
    <3>2. s.pc = "token" /\ ~s.reset
      BY <1>2, <1>3, <2>2, <3>1 DEF Acquire, Goto, SessionRow
    <3> QED
      BY <1>4, <3>2
  <2>3. CASE ReadCursor(c)
    <3>1. s = Started
      BY <1>2, <1>3, <2>3 DEF ReadCursor, Goto
    <3> QED
      BY <1>2, <3>1, StartedOK
  <2>4. CASE Select(c)
    BY <1>3, <2>4, SelectOK
  <2>5. CASE Fetch(c)
    BY <1>3, <2>5, FetchOK
  <2>6. CASE FetchFails(c) \/ Fail(c)
    <3>1. s = Idle
      BY <1>2, <1>3, <2>6 DEF FetchFails, Fail, Goto
    <3>2. Idle.pc = "idle" /\ ~Idle.reset
      BY DEF Idle
    <3> QED
      BY <1>4, <3>1, <3>2
  <2> QED
    BY <2>1, <2>2, <2>3, <2>4, <2>5, <2>6
<1>6. SessionOK(s)' /\ TablesOK'
  BY <1>1, <1>2, <1>5, Unmoved
<1>7. ASSUME NEW d \in Callers, d # c
      PROVE  SessionOK(session[d])'
  <2>1. session'[d] = session[d]
    BY <1>2, <1>7 DEF Ask, Acquire, ReadCursor, Select, Fetch, FetchFails, Fail, Goto
  <2>2. PICK t : t = session[d]
    OBVIOUS
  <2>3. SessionOK(t)
    BY <1>2, <2>2
  <2>4. SessionOK(t)'
    BY <1>1, <2>3, Unmoved
  <2> QED
    BY <2>1, <2>2, <2>4, RowIsSession
<1> QED
  BY <1>3, <1>6, <1>7, RowIsSession

\* The tables after a step that leaves the mailbox alone.
LEMMA TablesWritten ==
  ASSUME UNCHANGED server, release'.web = release.web,
         NEW ar, NEW sd, NEW rd, NEW st, NEW cu,
         archive' = ar, staged' = sd, rescanned' = rd, staging' = st, cursor' = cu,
         cu.validity = 0 => MaxEpoch = 1,
         Home(cu.validity) \in 1 .. epoch, st.validity <= epoch,
         st.validity # 0 => Home(cu.validity) < st.validity,
         Uniform(ar, Home(cu.validity)), Uniform(sd, st.validity),
         Reached(ar, rd.archive, Home(cu.validity), cu.last),
         Reached(sd, rd.staged, st.validity, st.last)
  PROVE  TablesOK'
<1>1. Validities'
  BY DEF Validities, Home, server
<1>2. Uniform(archive, Home(cursor.validity))' /\ Uniform(staged, staging.validity)'
  BY DEF Uniform, server
<1>3. /\ Reached(archive, rescanned.archive, Home(cursor.validity), cursor.last)'
      /\ Reached(staged, rescanned.staged, staging.validity, staging.last)'
  BY DEF Reached, Kept, Outnumbered, server
<1> QED
  BY <1>1, <1>2, <1>3 DEF TablesOK

\* A session that goes on after a step that leaves the mailbox alone.
LEMMA SessionWritten ==
  ASSUME UNCHANGED server, release'.web = release.web,
         NEW ar, NEW sd, NEW rd, NEW st, NEW cu,
         archive' = ar, staged' = sd, rescanned' = rd, staging' = st, cursor' = cu,
         NEW s, Home(s.validity) \in 1 .. epoch, ~s.reset, s.pc \notin {"begin"},
         s.validity = 0 => s.pc = "select" /\ ~s.rebuilding /\ MaxEpoch = 1,
         s.pc \in {"select", "fetch"} => s.batch = {},
         s.pc \in {"fetch", "store", "advance"} => Pending(s),
         s.rebuilding => /\ s.validity = st.validity
                         /\ Reached(sd, rd.staged, s.validity, s.last),
         ~s.rebuilding => /\ Home(s.validity) = Home(cu.validity)
                          /\ Reached(ar, rd.archive, Home(s.validity), s.last)
                          /\ ~Handovers => cu.last <= s.last
  PROVE  SessionOK(s)'
<1>1. s.pc \in {"fetch", "store", "advance"} => Pending(s)'
  BY DEF Pending, Outnumbered, server
<1>2. Linked(s)'
  <2>1. CASE s.rebuilding
    BY <2>1 DEF Linked, Reached, Kept, Outnumbered, server
  <2>2. CASE ~s.rebuilding
    BY <2>2 DEF Linked, Reached, Kept, Outnumbered, server
  <2> QED
    BY <2>1, <2>2
<1> QED
  BY <1>1, <1>2 DEF SessionOK, Busy, InThread, server

\* The sessions of the others, when one of them writes.
LEMMA OthersOK ==
  ASSUME Setting, ArchiveInv, NEW c \in Callers, session[c].pc \in Inside,
         NEW d \in Callers, d # c, session'[d] = session[d],
         UNCHANGED server, release'.web = release.web,
         NEW ar, NEW rd, NEW cu, archive' = ar, rescanned' = rd, cursor' = cu,
         MaxEpoch = 1 =>
           /\ Home(cu.validity) = Home(cursor.validity)
           /\ \A last : Reached(archive, rescanned.archive, Home(cursor.validity), last)
                          => Reached(ar, rd.archive, Home(cursor.validity), last)
  PROVE  SessionOK(session[d])'
<1>1. PICK t : t = session[d]
  OBVIOUS
<1>2. SessionOK(t)'
  <2>1. CASE t.pc \in {"idle", "wait"} /\ ~t.reset
    BY <2>1, Parked
  <2>2. CASE MaxEpoch = 1 /\ Handovers
    <3>1. /\ epoch = 1 /\ Home(cursor.validity) = 1 /\ ~t.reset
          /\ t.pc \in Busy => ~t.rebuilding /\ Home(t.validity) = 1
      BY <1>1, <2>2, Plain
    <3>2. SessionOK(t) /\ t.pc \in PCs
      BY <1>1, Types DEF ArchiveInv, SessionRow
    <3>3. CASE t.pc \in Busy
      <4>1. Linked(t) /\ Reached(archive, rescanned.archive, Home(cursor.validity), t.last)
        BY <3>1, <3>2, <3>3 DEF SessionOK, Linked
      <4>2. Reached(ar, rd.archive, Home(t.validity), t.last) /\ Home(t.validity) = Home(cu.validity)
        BY <2>2, <3>1, <3>3, <4>1
      <4>3. PICK sd, st : sd = staged' /\ st = staging'
        OBVIOUS
      <4>4. /\ Home(t.validity) \in 1 .. epoch /\ t.pc # "begin"
            /\ t.validity = 0 => t.pc = "select" /\ ~t.rebuilding /\ MaxEpoch = 1
            /\ t.pc \in {"select", "fetch"} => t.batch = {}
            /\ t.pc \in {"fetch", "store", "advance"} => Pending(t)
        BY <3>1, <3>2, <3>3 DEF SessionOK
      <4> QED
        BY <2>2, <3>1, <3>3, <4>2, <4>3, <4>4, SessionWritten
    <3>4. CASE t.pc \notin Busy
      <4>1. t.pc \in {"idle", "wait", "token", "prune"}
        BY <3>2, <3>4 DEF PCs, Busy
      <4> QED
        BY <3>1, <4>1, Parked
    <3> QED
      BY <3>3, <3>4
  <2> QED
    BY <1>1, <2>1, <2>2, Alone
<1> QED
  BY <1>1, <1>2, RowIsSession

\* begin_mail_archive_rebuild: an empty replacement for a later UIDVALIDITY.
LEMMA BeginStep ==
  ASSUME Setting, ArchiveInv, NEW c \in Callers, BeginRebuild(c)
  PROVE  TablesOK' /\ \A d \in Callers : SessionOK(session[d])'
<1> DEFINE r == session[c]
<1>1. /\ TypeOK /\ TablesOK /\ SessionOK(r) /\ r.pc = "begin" /\ r \in SessionRow
      /\ session \in [Callers -> SessionRow]
  BY Types DEF ArchiveInv, BeginRebuild, At, TypeOK, SessionRow, PCs
<1>2. /\ r.reset /\ r.last = 0 /\ Home(cursor.validity) < r.validity /\ r.validity \in 1 .. epoch
      /\ Pending(r) /\ Home(r.validity) = r.validity
  <2>1. r.validity \in 1 .. epoch /\ Home(r.validity) = r.validity
    BY <1>1, Connected DEF Busy, InThread
  <2> QED
    BY <1>1, <2>1 DEF SessionOK
<1>3. UNCHANGED server /\ release'.web = release.web
  BY DEF BeginRebuild, Quiet
<1>4. PICK v : v = r.validity
  OBVIOUS
<1>5. PICK s : s = [r EXCEPT !.pc = "store", !.rebuilding = TRUE, !.reset = FALSE]
  OBVIOUS
<1>6. /\ s.pc = "store" /\ s.rebuilding = TRUE /\ s.reset = FALSE /\ s.validity = v
      /\ s.last = 0 /\ s.todo = r.todo /\ s.batch = r.batch
  BY <1>1, <1>2, <1>4, <1>5 DEF SessionRow
<1>7. PICK ar, sd, rd, st, cu :
        /\ ar = archive /\ sd = NoMessages /\ rd = [rescanned EXCEPT !.staged = {}]
        /\ st = [validity |-> v, last |-> 0] /\ cu = cursor
  OBVIOUS
<1>8. /\ archive' = ar /\ staged' = sd /\ rescanned' = rd /\ staging' = st /\ cursor' = cu
      /\ session' = [session EXCEPT ![c] = s]
  BY <1>4, <1>5, <1>7 DEF BeginRebuild, Goto
<1>9. rd.archive = rescanned.archive /\ rd.staged = {}
  BY <1>1, <1>7 DEF TypeOK
<1>10. Uniform(sd, v) /\ Reached(sd, rd.staged, v, 0)
  BY <1>1, <1>7, Types DEF Uniform, Reached, NoMessages
<1>11. Uniform(ar, Home(cu.validity)) /\ Reached(ar, rd.archive, Home(cu.validity), cu.last)
  BY <1>1, <1>7, <1>9 DEF TablesOK
<1>12. st.validity = v /\ st.last = 0 /\ v \in 1 .. epoch /\ Home(cu.validity) < v
       /\ Home(cu.validity) \in 1 .. epoch /\ v <= epoch
       /\ (cu.validity = 0 => MaxEpoch = 1)
       /\ Home(s.validity) \in 1 .. epoch /\ s.validity # 0
  BY <1>1, <1>2, <1>4, <1>6, <1>7, Types DEF TablesOK, Validities
<1>13. TablesOK'
  BY <1>3, <1>8, <1>10, <1>11, <1>12, TablesWritten
<1>14. Pending(s)
  BY <1>1, <1>2, <1>4, <1>6 DEF Pending
<1>15. SessionOK(s)'
  BY <1>3, <1>6, <1>8, <1>10, <1>12, <1>14, SessionWritten
<1>16. ASSUME NEW d \in Callers, d # c
       PROVE  SessionOK(session[d])'
  <2>1. session'[d] = session[d]
    BY <1>1, <1>8, <1>16
  <2>2. r.pc \in Inside
    BY <1>1 DEF Inside, Busy, InThread
  <2>3. MaxEpoch # 1
    BY <1>2, Plain
  <2> QED
    BY <1>3, <1>8, <1>16, <2>1, <2>2, <2>3, OthersOK
<1>17. session'[c] = s
  BY <1>1, <1>8
<1> QED
  BY <1>13, <1>15, <1>16, <1>17, RowIsSession

\* What a session has to store after a batch comes after its new cursor.
LEMMA PendingAfterStore ==
  ASSUME TypeOK, NEW r \in SessionRow, Pending(r), r.pc = "store",
         NEW s, s.pc = "advance", s.last = LastUid(r.last, r.batch, r.todo),
         s.validity = r.validity, s.todo = r.todo, s.batch = r.batch
  PROVE  Pending(s) /\ r.last <= s.last /\ s.last \in Nat
<1>0. PICK last : last = s.last
  OBVIOUS
<1>1. /\ r.last \in Nat /\ r.batch \subseteq Nat /\ r.todo \subseteq Nat /\ inbox \subseteq Nat
      /\ r.batch \in SUBSET Uids
  BY RowFields, Types
<1>3. /\ last \in Nat /\ r.last <= last
      /\ \A b \in r.batch : b <= last
      /\ \A t \in r.todo : last < t
  <2>1. CASE r.batch = {}
    <3>1. last = r.last
      BY <1>0, <2>1 DEF LastUid
    <3> QED
      BY <1>1, <2>1, <3>1 DEF Pending
  <2>2. CASE r.batch # {}
    <3>1. last \in r.batch /\ \A b \in r.batch : last >= b
      BY <1>0, <1>1, <2>2, HighestUid DEF LastUid
    <3> QED
      BY <1>1, <3>1 DEF Pending
  <2> QED
    BY <2>1, <2>2
<1>4. Pending(s)
  <2>1. \A b \in s.batch : ~(s.last < b)
    BY <1>0, <1>1, <1>3
  <2>2. \A u \in inbox : s.last < u => r.last < u
    BY <1>0, <1>1, <1>3
  <2> QED
    BY <1>0, <1>3, <2>1, <2>2 DEF Pending
<1> QED
  BY <1>0, <1>3, <1>4

\* archive_mail_messages: the batch is in the rows before the cursor moves.
LEMMA StoreStep ==
  ASSUME Setting, ArchiveInv, NEW c \in Callers, Store(c)
  PROVE  TablesOK' /\ \A d \in Callers : SessionOK(session[d])'
<1> DEFINE r == session[c]
           last == LastUid(r.last, r.batch, r.todo)
<1>1. /\ TypeOK /\ TablesOK /\ SessionOK(r) /\ r.pc = "store" /\ r \in SessionRow
      /\ session \in [Callers -> SessionRow]
  BY Types DEF ArchiveInv, Store, At, TypeOK, SessionRow, PCs
<1>2. /\ ~r.reset /\ Linked(r) /\ r.validity \in 1 .. epoch /\ Pending(r)
      /\ r.rebuilding \in BOOLEAN /\ Home(r.validity) = r.validity
  <2>1. r.pc \in Busy /\ r.validity \in 1 .. epoch /\ Home(r.validity) = r.validity
    BY <1>1, Connected DEF Busy, InThread
  <2> QED
    BY <1>1, <2>1, RowFields DEF SessionOK
<1>3. /\ UNCHANGED server /\ release'.web = release.web /\ r.pc \in Inside /\ r.pc \in Busy
      /\ release.worker = release.web
  BY <1>1, Locking DEF Store, Quiet, Inside, Busy, InThread, Step
<1>4. PICK s : s = [r EXCEPT !.pc = "advance", !.last = last]
  OBVIOUS
<1>5. /\ Pending(s) /\ r.last <= last /\ last \in Nat
      /\ s.pc = "advance" /\ s.validity = r.validity /\ s.last = last
      /\ s.rebuilding = r.rebuilding /\ s.reset = r.reset
  <2>1. /\ s.pc = "advance" /\ s.validity = r.validity /\ s.last = last
        /\ s.rebuilding = r.rebuilding /\ s.reset = r.reset
        /\ s.todo = r.todo /\ s.batch = r.batch
    BY <1>1, <1>4 DEF SessionRow
  <2>2. Pending(s) /\ r.last <= s.last /\ s.last \in Nat
    BY <1>1, <1>2, <2>1, PendingAfterStore
  <2> QED
    BY <2>1, <2>2
<1>6. session' = [session EXCEPT ![c] = s]
  BY <1>1, <1>4 DEF Store, Goto
<1>7. /\ Home(cursor.validity) \in 1 .. epoch /\ staging.validity <= epoch
      /\ (staging.validity # 0 => Home(cursor.validity) < staging.validity)
      /\ (cursor.validity = 0 => MaxEpoch = 1)
      /\ Home(s.validity) \in 1 .. epoch /\ s.validity # 0
      /\ cursor.last \in Nat /\ r.last \in Nat
      /\ archive \in [Uids -> Nat] /\ staged \in [Uids -> Nat]
  BY <1>1, <1>2, <1>5, Types DEF TablesOK, Validities
<1>8. session'[c] = s /\ \A d \in Callers : d # c => session'[d] = session[d]
  BY <1>1, <1>6
<1>9. CASE r.rebuilding
  <2>1. r.validity = staging.validity /\ Reached(staged, rescanned.staged, r.validity, r.last)
    BY <1>2, <1>9 DEF Linked
  <2>2. PICK ar, sd, rd, st, cu :
          /\ ar = archive /\ sd = With(staged, r) /\ st = staging /\ cu = cursor
          /\ rd = [rescanned EXCEPT !.staged = Reread(rescanned.staged, r)]
    OBVIOUS
  <2>3. archive' = ar /\ staged' = sd /\ rescanned' = rd /\ staging' = st /\ cursor' = cu
    BY <1>9, <2>2 DEF Store
  <2>4. rd.archive = rescanned.archive /\ rd.staged = Reread(rescanned.staged, r)
    BY <1>1, <2>2 DEF TypeOK
  <2> HIDE DEF r, last
  <2>5. Uniform(sd, st.validity)
    BY <1>1, <1>2, <1>7, <2>1, <2>2, StoreUniform DEF TablesOK
  <2>6. Reached(sd, rd.staged, st.validity, st.last)
    BY <1>1, <1>3, <1>7, <2>1, <2>2, <2>4, StoreKeeps DEF TablesOK
  <2>7. Reached(sd, rd.staged, r.validity, last)
    BY <1>1, <1>2, <1>3, <1>7, <2>1, <2>2, <2>4, StoreReaches DEF last
  <2>8. Uniform(ar, Home(cu.validity)) /\ Reached(ar, rd.archive, Home(cu.validity), cu.last)
    BY <1>1, <2>2, <2>4 DEF TablesOK
  <2>9. TablesOK'
    BY <1>3, <1>7, <2>2, <2>3, <2>5, <2>6, <2>8, TablesWritten
  <2>10. SessionOK(s)'
    BY <1>2, <1>3, <1>5, <1>7, <1>9, <2>1, <2>2, <2>3, <2>7, SessionWritten
  <2>11. MaxEpoch # 1
    BY <1>3, <1>9, Plain DEF r
  <2>12. \A d \in Callers : d # c => SessionOK(session[d])'
    BY <1>3, <1>8, <2>3, <2>11, OthersOK DEF r
  <2> QED
    BY <1>8, <2>9, <2>10, <2>12, RowIsSession
<1>10. CASE ~r.rebuilding
  <2>1. /\ r.validity = Home(cursor.validity) /\ Reached(archive, rescanned.archive, r.validity, r.last)
        /\ ~Handovers => cursor.last <= r.last
    BY <1>2, <1>10 DEF Linked
  <2>2. PICK ar, sd, rd, st, cu :
          /\ ar = With(archive, r) /\ sd = staged /\ st = staging /\ cu = cursor
          /\ rd = [rescanned EXCEPT !.archive = Reread(rescanned.archive, r)]
    OBVIOUS
  <2>3. archive' = ar /\ staged' = sd /\ rescanned' = rd /\ staging' = st /\ cursor' = cu
    BY <1>10, <2>2 DEF Store
  <2>4. rd.staged = rescanned.staged /\ rd.archive = Reread(rescanned.archive, r)
    BY <1>1, <2>2 DEF TypeOK
  <2> HIDE DEF r, last
  <2>5. Uniform(ar, Home(cu.validity))
    BY <1>1, <1>2, <1>7, <2>1, <2>2, StoreUniform DEF TablesOK
  <2>6. \A l : Reached(archive, rescanned.archive, Home(cursor.validity), l)
                 => Reached(ar, rd.archive, Home(cursor.validity), l)
    BY <1>1, <1>3, <1>7, <2>1, <2>2, <2>4, StoreKeeps
  <2>7. Reached(ar, rd.archive, r.validity, last)
    BY <1>1, <1>2, <1>3, <1>7, <2>1, <2>2, <2>4, StoreReaches DEF last
  <2>8. /\ Uniform(sd, st.validity) /\ Reached(sd, rd.staged, st.validity, st.last)
        /\ Reached(ar, rd.archive, Home(cu.validity), cu.last)
    BY <1>1, <2>2, <2>4, <2>6 DEF TablesOK
  <2>9. TablesOK'
    BY <1>3, <1>7, <2>2, <2>3, <2>5, <2>8, TablesWritten
  <2>10. ~Handovers => cu.last <= s.last
    BY <1>5, <1>7, <2>1, <2>2
  <2>11. SessionOK(s)'
    BY <1>2, <1>3, <1>5, <1>7, <1>10, <2>1, <2>2, <2>3, <2>7, <2>10, SessionWritten
  <2>12. \A d \in Callers : d # c => SessionOK(session[d])'
    BY <1>3, <1>8, <2>2, <2>3, <2>6, OthersOK DEF r
  <2> QED
    BY <1>8, <2>9, <2>11, <2>12, RowIsSession
<1> QED
  BY <1>2, <1>9, <1>10

\* update_mail_archive_cursor: the cursor follows what is stored.
LEMMA AdvanceStep ==
  ASSUME Setting, ArchiveInv, NEW c \in Callers, Advance(c)
  PROVE  TablesOK' /\ \A d \in Callers : SessionOK(session[d])'
<1> DEFINE r == session[c]
<1>1. /\ TypeOK /\ TablesOK /\ SessionOK(r) /\ r.pc = "advance" /\ r \in SessionRow
      /\ session \in [Callers -> SessionRow]
  BY Types DEF ArchiveInv, Advance, At, TypeOK, SessionRow, PCs
<1>2. /\ ~r.reset /\ Linked(r) /\ r.validity \in 1 .. epoch /\ Pending(r)
      /\ r.rebuilding \in BOOLEAN /\ r.last \in Nat
      /\ r.todo \subseteq Uids /\ r.batch \subseteq Uids /\ Home(r.validity) = r.validity
  <2>1. r.pc \in Busy /\ r.validity \in 1 .. epoch /\ Home(r.validity) = r.validity
    BY <1>1, Connected DEF Busy, InThread
  <2> QED
    BY <1>1, <2>1, RowFields DEF SessionOK
<1>3. /\ UNCHANGED server /\ release'.web = release.web /\ r.pc \in Inside
  BY <1>1 DEF Advance, Quiet, Inside, Busy, InThread
<1>4. /\ Home(cursor.validity) \in 1 .. epoch /\ staging.validity <= epoch
      /\ (staging.validity # 0 => Home(cursor.validity) < staging.validity)
      /\ (cursor.validity = 0 => MaxEpoch = 1) /\ r.validity # 0
  BY <1>1, <1>2, Types DEF TablesOK, Validities
<1>5. PICK s : s = session'[c]
  OBVIOUS
<1>6. /\ \A d \in Callers : d # c => session'[d] = session[d]
      /\ \/ s = Idle
         \/ s = [r EXCEPT !.pc = "fetch", !.batch = {}]
         \/ s = [r EXCEPT !.pc = "finish", !.batch = {}]
  BY <1>1, <1>5 DEF Advance, Goto
<1>7. PICK ar, sd, rd, st, cu :
        /\ ar = archive /\ sd = staged /\ rd = rescanned /\ st = staging' /\ cu = cursor'
  OBVIOUS
<1>8. archive' = ar /\ staged' = sd /\ rescanned' = rd /\ staging' = st /\ cursor' = cu
  BY <1>7 DEF Advance
<1>9. /\ r.rebuilding => /\ r.validity = staging.validity
                         /\ Reached(sd, rd.staged, r.validity, r.last)
                         /\ st.validity = r.validity /\ st.last = r.last /\ cu = cursor
      /\ ~r.rebuilding => /\ r.validity = Home(cursor.validity)
                          /\ Reached(ar, rd.archive, r.validity, r.last)
                          /\ Home(cu.validity) = r.validity /\ cu.last = r.last /\ st = staging
                          /\ cu.validity = r.validity
  BY <1>2, <1>7 DEF Linked, Advance
<1>10. /\ st.validity = staging.validity /\ Home(cu.validity) = Home(cursor.validity)
       /\ Reached(ar, rd.archive, Home(cu.validity), cu.last)
       /\ Reached(sd, rd.staged, st.validity, st.last)
  BY <1>1, <1>2, <1>7, <1>9 DEF TablesOK
<1>11. Uniform(ar, Home(cu.validity)) /\ Uniform(sd, st.validity)
  BY <1>1, <1>7, <1>10 DEF TablesOK
<1>12. TablesOK'
  <2>1. cu.validity = 0 => MaxEpoch = 1
    BY <1>2, <1>4, <1>9
  <2> QED
    BY <1>3, <1>4, <1>8, <1>10, <1>11, <2>1, TablesWritten
<1>13. SessionOK(s)'
  <2>1. CASE s = Idle
    BY <2>1, Parked DEF Idle
  <2>2. CASE s # Idle
    <3>1. /\ s.pc \in {"fetch", "finish"} /\ s.validity = r.validity /\ s.last = r.last
          /\ s.rebuilding = r.rebuilding /\ ~s.reset /\ s.todo = r.todo /\ s.batch = {}
      BY <1>1, <1>2, <1>6, <2>2 DEF SessionRow
    <3>2. Pending(s)
      <4>1. \A b \in r.batch : ~(r.last < b)
        BY <1>1, <1>2 DEF Pending
      <4> QED
        BY <1>2, <3>1, <4>1 DEF Pending
    <3>3. ~Handovers /\ ~r.rebuilding => cu.last <= s.last
      BY <1>2, <1>9, <3>1
    <3> QED
      BY <1>2, <1>3, <1>4, <1>8, <1>9, <1>10, <3>1, <3>2, <3>3, SessionWritten
  <2> QED
    BY <2>1, <2>2
<1>14. ASSUME NEW d \in Callers, d # c
       PROVE  SessionOK(session[d])'
  <2>1. \A l : Reached(archive, rescanned.archive, Home(cursor.validity), l)
                 => Reached(ar, rd.archive, Home(cursor.validity), l)
    BY <1>7
  <2> QED
    BY <1>3, <1>6, <1>8, <1>10, <1>14, <2>1, OthersOK
<1> QED
  BY <1>5, <1>12, <1>13, <1>14, RowIsSession

\* complete_mail_archive_rebuild finds its staging row, and the archive and its
\* cursor change together; nothing changes when the session did not rebuild.
LEMMA FinishStep ==
  ASSUME Setting, ArchiveInv, NEW c \in Callers, Finish(c)
  PROVE  TablesOK' /\ \A d \in Callers : SessionOK(session[d])'
<1> DEFINE r == session[c]
<1>1. /\ TypeOK /\ TablesOK /\ SessionOK(r) /\ r.pc = "finish" /\ r \in SessionRow
      /\ session \in [Callers -> SessionRow]
      /\ \A d \in Callers : SessionOK(session[d])
  BY Types DEF ArchiveInv, Finish, At, TypeOK, SessionRow, PCs
<1>2. /\ ~r.reset /\ Linked(r) /\ r.validity \in 1 .. epoch /\ r.rebuilding \in BOOLEAN
      /\ Home(r.validity) = r.validity
  <2>1. r.pc \in Busy /\ r.validity \in 1 .. epoch /\ Home(r.validity) = r.validity
    BY <1>1, Connected DEF Busy, InThread
  <2> QED
    BY <1>1, <2>1, RowFields DEF SessionOK
<1>3. /\ UNCHANGED server /\ release'.web = release.web /\ r.pc \in Inside /\ r.pc \in Busy
  BY <1>1 DEF Finish, Quiet, Inside, Busy
<1>4. PICK s : s = [r EXCEPT !.pc = "prune"]
  OBVIOUS
<1>5. s.pc = "prune" /\ ~s.reset
  BY <1>1, <1>2, <1>4 DEF SessionRow
<1>6. r.rebuilding => staging.validity = r.validity
  BY <1>2 DEF Linked
<1>7. session' = [session EXCEPT ![c] = s]
  BY <1>4, <1>6 DEF Finish, Goto
<1>8. session'[c] = s /\ \A d \in Callers : d # c => session'[d] = session[d]
  BY <1>1, <1>7
<1>9. SessionOK(session[c])'
  BY <1>5, <1>8, Parked, RowIsSession
<1>10. CASE ~r.rebuilding
  <2>1. UNCHANGED tables
    BY <1>10 DEF Finish
  <2>2. TablesOK'
    BY <1>1, <1>3, <2>1, Unmoved
  <2>3. ASSUME NEW d \in Callers, d # c
        PROVE  SessionOK(session[d])'
    <3>1. PICK t : t = session[d]
      OBVIOUS
    <3>2. SessionOK(t)
      BY <1>1, <3>1
    <3>3. SessionOK(t)'
      BY <1>3, <2>1, <3>2, Unmoved
    <3> QED
      BY <1>8, <2>3, <3>1, <3>3, RowIsSession
  <2> QED
    BY <1>9, <2>2, <2>3
<1>11. CASE r.rebuilding
  <2>1. PICK ar, sd, rd, st, cu :
          /\ ar = staged /\ sd = NoMessages /\ st = NoCursor
          /\ cu = [validity |-> r.validity, last |-> r.last]
          /\ rd = [archive |-> rescanned.staged, staged |-> {}]
    OBVIOUS
  <2>2. archive' = ar /\ staged' = sd /\ rescanned' = rd /\ staging' = st /\ cursor' = cu
    BY <1>6, <1>11, <2>1 DEF Finish
  <2>3. Uniform(ar, Home(cu.validity)) /\ Reached(ar, rd.archive, Home(cu.validity), cu.last)
    BY <1>1, <1>2, <1>6, <1>11, <2>1 DEF TablesOK, Linked
  <2>4. st.validity = 0 /\ Uniform(sd, st.validity) /\ Reached(sd, rd.staged, st.validity, st.last)
    BY <1>1, <2>1, Types DEF NoCursor, NoMessages, Uniform, Reached
  <2>5. Home(cu.validity) \in 1 .. epoch /\ cu.validity # 0 /\ st.validity <= epoch
    BY <1>1, <1>2, <2>1, <2>4, Types
  <2>6. TablesOK'
    BY <1>3, <2>2, <2>3, <2>4, <2>5, TablesWritten
  <2>7. MaxEpoch # 1
    BY <1>3, <1>11, Plain
  <2>8. \A d \in Callers : d # c => SessionOK(session[d])'
    BY <1>3, <1>8, <2>2, <2>7, OthersOK
  <2> QED
    BY <1>9, <2>6, <2>8
<1> QED
  BY <1>2, <1>10, <1>11

\* prune_mail_archive and prune_mail_archives_batch delete what is outnumbered.
LEMMA Pruned ==
  ASSUME ArchiveInv, NEW S \in SUBSET Beyond,
         archive' = [u \in Uids |-> IF u \in S THEN 0 ELSE archive[u]],
         UNCHANGED <<server, staged, staging, cursor, rescanned>>, release'.web = release.web
  PROVE  /\ TablesOK'
         /\ \A s : SessionOK(s) => SessionOK(s)'
<1>1. PICK ar, sd, rd, st, cu :
        /\ ar = archive' /\ sd = staged /\ rd = rescanned /\ st = staging /\ cu = cursor
  OBVIOUS
<1>2. archive' = ar /\ staged' = sd /\ rescanned' = rd /\ staging' = st /\ cursor' = cu
  BY <1>1
<1>3. TypeOK /\ TablesOK /\ ar = [u \in Uids |-> IF u \in S THEN 0 ELSE archive[u]]
  BY <1>1 DEF ArchiveInv
<1>4. /\ Uniform(ar, Home(cursor.validity))
      /\ \A last : Reached(archive, rd.archive, Home(cursor.validity), last)
                     => Reached(ar, rd.archive, Home(cursor.validity), last)
  BY <1>3, PruneKeeps DEF TablesOK
<1>5. /\ Home(cu.validity) \in 1 .. epoch /\ st.validity <= epoch
      /\ (st.validity # 0 => Home(cu.validity) < st.validity)
      /\ (cu.validity = 0 => MaxEpoch = 1)
  BY <1>1, <1>3 DEF TablesOK, Validities
<1>6. /\ Uniform(ar, Home(cu.validity)) /\ Reached(ar, rd.archive, Home(cu.validity), cu.last)
      /\ Uniform(sd, st.validity) /\ Reached(sd, rd.staged, st.validity, st.last)
  BY <1>1, <1>3, <1>4 DEF TablesOK
<1>7. TablesOK'
  BY <1>2, <1>5, <1>6, TablesWritten
<1>8. ASSUME NEW s, SessionOK(s)
      PROVE  SessionOK(s)'
  <2>1. Linked(s) => Linked(s)'
    <3>1. CASE s.rebuilding
      BY <1>1, <1>2, <3>1 DEF Linked, Reached, Kept, Outnumbered, server
    <3>2. CASE ~s.rebuilding
      <4>1. SUFFICES ASSUME Linked(s) PROVE Linked(s)'
        OBVIOUS
      <4>2. /\ Home(s.validity) = Home(cursor.validity)
            /\ Reached(archive, rescanned.archive, Home(s.validity), s.last)
            /\ ~Handovers => cursor.last <= s.last
        BY <3>2, <4>1 DEF Linked
      <4>3. Reached(ar, rd.archive, Home(s.validity), s.last)
        BY <1>1, <1>4, <4>2
      <4> QED
        BY <1>2, <3>2, <4>2, <4>3 DEF Linked, Reached, Kept, Outnumbered, server
    <3> QED
      BY <3>1, <3>2
  <2>2. Pending(s) => Pending(s)'
    BY DEF Pending, Outnumbered, server
  <2> QED
    BY <1>8, <2>1, <2>2 DEF SessionOK, Busy, InThread, server
<1> QED
  BY <1>7, <1>8

\* The end of a session.
LEMMA PruneStep ==
  ASSUME ArchiveInv, NEW c \in Callers, Prune(c)
  PROVE  TablesOK' /\ \A d \in Callers : SessionOK(session[d])'
<1>1. /\ TablesOK' /\ \A s : SessionOK(s) => SessionOK(s)'
  BY Pruned DEF Prune, Quiet
<1>2. session \in [Callers -> SessionRow] /\ \A d \in Callers : SessionOK(session[d])
  BY DEF ArchiveInv, TypeOK, SessionRow, PCs
<1>3. session' = [session EXCEPT ![c] = Idle]
  BY DEF Prune, Goto
<1>4. ASSUME NEW d \in Callers
      PROVE  SessionOK(session[d])'
  <2>1. PICK s : s = session'[d]
    OBVIOUS
  <2>2. CASE d = c
    <3>1. s.pc = "idle" /\ ~s.reset
      BY <1>2, <1>3, <2>1, <2>2 DEF Idle
    <3> QED
      BY <2>1, <3>1, Parked, RowIsSession
  <2>3. CASE d # c
    <3>1. s = session[d]
      BY <1>2, <1>3, <2>1, <2>3
    <3>2. SessionOK(s)
      BY <1>2, <3>1
    <3> QED
      BY <1>1, <2>1, <3>2, RowIsSession
  <2> QED
    BY <2>2, <2>3
<1> QED
  BY <1>1, <1>4

-----------------------------------------------------------------------------
(* The mailbox and the processes                                           *)

\* What the IMAP server does is either later mail and expunged messages, or a
\* mailbox with a later UIDVALIDITY.
LEMMA ServerMoves ==
  ASSUME TypeOK, \A u \in inbox : u < uidnext, Server
  PROVE  /\ UNCHANGED <<tables, release, phase, lock, session, budget>>
         /\ uidnext' \in Nat /\ \A u \in inbox' : u < uidnext'
         /\ \/ /\ epoch' = epoch /\ uidnext <= uidnext'
               /\ \A u \in inbox' : u \in inbox \/ u = uidnext
            \/ epoch' = epoch + 1
<1>1. uidnext \in Nat /\ inbox \subseteq Nat /\ Uids \subseteq Nat /\ MaxUid \in Nat
  BY LimitsAssumption, Types DEF Uids
<1>2. CASE Deliver
  BY <1>1, <1>2 DEF Deliver
<1>3. CASE \E u \in Uids : Expunge(u)
  BY <1>1, <1>3 DEF Expunge
<1>4. CASE \E k \in 0 .. MaxUid : ChangeValidity(k)
  BY <1>1, <1>4 DEF ChangeValidity
<1> QED
  BY <1>2, <1>3, <1>4 DEF Server

\* No cursor and no session can tell.
LEMMA ServerStep ==
  ASSUME ArchiveInv, Server
  PROVE  TablesOK' /\ \A d \in Callers : SessionOK(session[d])'
<1>1. TypeOK /\ TablesOK /\ \A u \in inbox : u < uidnext
  BY DEF ArchiveInv
<1>2. /\ UNCHANGED <<tables, release, phase, lock, session, budget>>
      /\ uidnext' \in Nat /\ \A u \in inbox' : u < uidnext'
      /\ \/ /\ epoch' = epoch /\ uidnext <= uidnext'
            /\ \A u \in inbox' : u \in inbox \/ u = uidnext
         \/ epoch' = epoch + 1
  BY <1>1, ServerMoves
<1>3. /\ epoch \in Nat /\ uidnext \in Nat /\ inbox \subseteq Uids /\ \A u \in Uids : u \in Nat
      /\ MaxMessages \in Nat
  BY <1>1, Types
<1>4. ASSUME NEW rows, NEW read, NEW validity \in Nat, NEW last \in Nat, validity <= epoch,
             Reached(rows, read, validity, last)
      PROVE  Reached(rows, read, validity, last)'
  <2>1. CASE epoch' = epoch + 1
    BY <1>3, <1>4, <2>1 DEF Reached
  <2>2. CASE /\ epoch' = epoch /\ uidnext <= uidnext'
             /\ \A u \in inbox' : u \in inbox \/ u = uidnext
    <3>1. SUFFICES ASSUME validity = epoch
                   PROVE  /\ last < uidnext'
                          /\ \A u \in inbox' : u <= last => Kept(rows, read, u)'
      BY <2>2 DEF Reached
    <3>2. last < uidnext /\ \A u \in inbox : u <= last => Kept(rows, read, u)
      BY <1>4, <3>1 DEF Reached
    <3>3. ASSUME NEW u \in inbox', u <= last
          PROVE  Kept(rows, read, u)'
      <4>1. u \in inbox /\ u \in Nat
        BY <1>3, <1>4, <2>2, <3>2, <3>3
      <4>2. Outnumbered(u) => Outnumbered(u)'
        <5>1. /\ uidnext \in Nat /\ uidnext' \in Nat /\ uidnext <= uidnext'
              /\ u \in Nat /\ MaxMessages \in Nat
          BY <1>2, <1>3, <2>2, <4>1
        <5>2. \A m, n, i, j \in Nat : m <= n /\ m - 1 - i >= j => n - 1 - i >= j
          OBVIOUS
        <5>3. uidnext - 1 - u >= MaxMessages => uidnext' - 1 - u >= MaxMessages
          BY <5>1, <5>2
        <5> QED
          BY <5>3 DEF Outnumbered
      <4> QED
        BY <1>2, <2>2, <3>2, <3>3, <4>1, <4>2 DEF Kept
    <3> QED
      BY <1>2, <1>3, <1>4, <2>2, <3>2, <3>3
  <2> QED
    BY <1>2, <2>1, <2>2
<1>5. ASSUME NEW rows, NEW validity \in Nat, validity <= epoch, Uniform(rows, validity)
      PROVE  Uniform(rows, validity)'
  BY <1>2, <1>3, <1>5 DEF Uniform
<1>6. PICK ar, sd, rd, st, cu :
        /\ ar = archive /\ sd = staged /\ rd = rescanned /\ st = staging /\ cu = cursor
  OBVIOUS
<1>7. /\ archive' = ar /\ staged' = sd /\ rescanned' = rd /\ staging' = st /\ cursor' = cu
      /\ release' = release
  BY <1>2, <1>6 DEF tables
<1>8. /\ Home(cu.validity) \in Nat /\ cu.last \in Nat /\ st.validity \in Nat /\ st.last \in Nat
      /\ Home(cu.validity) \in 1 .. epoch /\ st.validity <= epoch
      /\ (st.validity # 0 => Home(cu.validity) < st.validity)
      /\ (cu.validity = 0 => MaxEpoch = 1)
  BY <1>1, <1>6, Types, HomeIs DEF TablesOK, Validities
<1>9. TablesOK'
  <2>1. Validities'
    <3>1. Home(cursor.validity)' = Home(cu.validity)
      BY <1>7 DEF Home
    <3> QED
      BY <1>2, <1>3, <1>7, <1>8, <3>1 DEF Validities
  <2>2. Uniform(ar, Home(cu.validity)) /\ Uniform(sd, st.validity)
    BY <1>1, <1>6 DEF TablesOK
  <2>3. Uniform(ar, Home(cu.validity))' /\ Uniform(sd, st.validity)'
    BY <1>5, <1>8, <2>2
  <2>4. Uniform(archive, Home(cursor.validity))' /\ Uniform(staged, staging.validity)'
    BY <1>7, <2>3 DEF Uniform
  <2>5. /\ Reached(ar, rd.archive, Home(cu.validity), cu.last)
        /\ Reached(sd, rd.staged, st.validity, st.last)
    BY <1>1, <1>6 DEF TablesOK
  <2>6. /\ Reached(ar, rd.archive, Home(cu.validity), cu.last)'
        /\ Reached(sd, rd.staged, st.validity, st.last)'
    BY <1>4, <1>8, <2>5
  <2>7. /\ Reached(archive, rescanned.archive, Home(cursor.validity), cursor.last)'
        /\ Reached(staged, rescanned.staged, staging.validity, staging.last)'
    BY <1>7, <2>6 DEF Reached, Kept, Outnumbered
  <2> QED
    BY <2>1, <2>4, <2>7 DEF TablesOK
<1>10. ASSUME NEW d \in Callers
       PROVE  SessionOK(session[d])'
  <2>1. PICK s : s = session[d]
    OBVIOUS
  <2>2. /\ SessionOK(s) /\ s \in SessionRow /\ s.validity \in Nat /\ s.last \in Nat
        /\ s.todo \subseteq Uids /\ s.batch \subseteq Uids
        /\ Home(s.validity) \in Nat /\ s.validity <= Home(s.validity)
    BY <1>1, <2>1, Types, HomeIs DEF ArchiveInv
  <2>3. ASSUME s.pc \in Busy, Linked(s)
        PROVE  Linked(s)'
    <3>1. Home(s.validity) <= epoch /\ s.validity <= epoch
      BY <1>3, <2>2, <2>3 DEF SessionOK
    <3>2. CASE s.rebuilding
      <4>1. s.validity = st.validity /\ Reached(sd, rd.staged, s.validity, s.last)
        BY <1>6, <2>3, <3>2 DEF Linked
      <4>2. Reached(sd, rd.staged, s.validity, s.last)'
        BY <1>4, <2>2, <3>1, <4>1
      <4> QED
        BY <1>7, <3>2, <4>1, <4>2 DEF Linked, Reached, Kept, Outnumbered
    <3>3. CASE ~s.rebuilding
      <4>1. /\ Home(s.validity) = Home(cu.validity)
            /\ Reached(ar, rd.archive, Home(s.validity), s.last)
            /\ ~Handovers => cu.last <= s.last
        BY <1>6, <2>3, <3>3 DEF Linked
      <4>2. Reached(ar, rd.archive, Home(s.validity), s.last)'
        BY <1>4, <2>2, <3>1, <4>1
      <4> QED
        BY <1>7, <3>3, <4>1, <4>2 DEF Linked, Reached, Kept, Outnumbered
    <3> QED
      BY <3>2, <3>3
  <2>4. ASSUME s.validity <= epoch, Pending(s)
        PROVE  Pending(s)'
    <3>1. \A w \in s.todo \cup s.batch : w \in Nat
      BY <1>3, <2>2
    <3>2. CASE epoch' = epoch + 1
      <4>1. s.validity # epoch'
        BY <1>3, <2>2, <2>4, <3>2
      <4> QED
        BY <2>4, <4>1 DEF Pending
    <3>3. CASE /\ epoch' = epoch /\ uidnext <= uidnext'
               /\ \A u \in inbox' : u \in inbox \/ u = uidnext
      <4>1. \A u \in inbox : Outnumbered(u) => Outnumbered(u)'
        BY <1>2, <1>3, <3>3 DEF Outnumbered
      <4>2. ASSUME s.validity = epoch,
                   NEW u \in inbox', NEW w \in s.todo \cup s.batch, s.last < u, u < w
            PROVE  u \in s.todo \cup s.batch \/ Outnumbered(u)'
        <5>1. w < uidnext
          BY <2>4, <4>2 DEF Pending
        <5>2. u \in inbox
          BY <1>3, <3>1, <3>3, <4>2, <5>1
        <5> QED
          BY <2>4, <4>1, <4>2, <5>2 DEF Pending
      <4>3. s.validity = epoch => \A w \in s.todo \cup s.batch : w < uidnext'
        BY <1>2, <1>3, <2>4, <3>1, <3>3 DEF Pending
      <4> QED
        BY <2>4, <3>3, <4>2, <4>3 DEF Pending
    <3> QED
      BY <1>2, <3>2, <3>3
  <2>5. s.pc \in Busy => /\ Home(s.validity) \in 1 .. epoch /\ Home(s.validity) \in 1 .. epoch'
                         /\ s.validity <= epoch
    BY <1>2, <1>3, <2>2 DEF SessionOK
  <2>6. s.validity <= epoch \/ s.pc \notin Busy
    BY <1>3, <2>2, <2>5
  <2>7. SessionOK(s)'
    BY <1>2, <1>6, <1>7, <2>2, <2>3, <2>4, <2>5, <2>6 DEF SessionOK, Busy, InThread
  <2> QED
    BY <1>2, <2>1, <2>7, RowIsSession
<1> QED
  BY <1>9, <1>10

\* Start, crash, stop and end of the worker, and an upgrade.
LEMMA ProcessStep ==
  ASSUME Setting, ArchiveInv, Process
  PROVE  Processes' /\ LockHeld' /\ TablesOK' /\ \A d \in Callers : SessionOK(session[d])'
<1>1. /\ TypeOK /\ TablesOK /\ \A d \in Callers : SessionOK(session[d])
      /\ session \in [Callers -> SessionRow] /\ Processes /\ LockHeld
  BY DEF ArchiveInv, TypeOK, SessionRow, PCs
<1>2. Idle.pc = "idle" /\ ~Idle.reset /\ "idle" \notin Inside /\ "idle" \notin Busy
  BY DEF Idle, Inside, Busy, InThread
<1>3. ASSUME \A d \in Callers : session'[d].pc = "idle" /\ ~session'[d].reset
      PROVE  \A d \in Callers : SessionOK(session[d])' /\ session'[d].pc \notin Inside
  <2>1. ASSUME NEW d \in Callers
        PROVE  SessionOK(session[d])'
    <3>1. PICK s : s = session'[d]
      OBVIOUS
    <3> QED
      BY <1>3, <3>1, Parked, RowIsSession
  <2> QED
    BY <1>2, <1>3, <2>1
<1>4. ASSUME phase = "down"
      PROVE  \A d \in Callers : session[d].pc = "idle" /\ ~session[d].reset
  BY <1>1, <1>4 DEF Processes, At, SessionOK
<1>5. CASE Start
  <2>1. \A d \in Callers : session'[d].pc = "idle" /\ ~session'[d].reset
    BY <1>4, <1>5 DEF Start
  <2>2. TablesOK'
    BY <1>1, <1>5, Unmoved DEF Start, TypeOK
  <2>3. Processes'
    BY <1>1, <1>5 DEF Start, Processes, TypeOK
  <2>4. LockHeld'
    BY <1>1, <1>3, <1>5, <2>1 DEF Start, LockHeld, budget
  <2> QED
    BY <1>3, <2>1, <2>2, <2>3, <2>4
<1>6. CASE Kill
  <2>1. \A d \in Callers : session'[d].pc = "idle" /\ ~session'[d].reset
    BY <1>2, <1>6 DEF Kill
  <2>2. TablesOK'
    BY <1>1, <1>6, Unmoved DEF Kill
  <2>3. Processes'
    BY <1>6, <2>1 DEF Kill, Processes, At
  <2>4. LockHeld'
    BY <1>1, <1>3, <1>6, <2>1 DEF Kill, LockHeld
  <2> QED
    BY <1>3, <2>1, <2>2, <2>3, <2>4
<1>7. ASSUME NEW handover \in BOOLEAN, Stop(handover)
      PROVE  Processes' /\ LockHeld' /\ TablesOK' /\ \A d \in Callers : SessionOK(session[d])'
  <2>1. UNCHANGED <<server, tables>> /\ release' = release
    BY <1>7 DEF Stop
  <2>2. TablesOK' /\ \A s : SessionOK(s) => SessionOK(s)'
    BY <1>1, <2>1, Unmoved
  <2>3. LockHeld'
    <3>1. SUFFICES ASSUME ~Handovers PROVE LockHeld'
      BY DEF LockHeld
    <3>2. ~handover /\ phase' = "stopping"
      BY <1>7, <3>1 DEF Stop
    <3>3. ASSUME NEW d \in Callers, session'[d].pc \in Inside
          PROVE  session[d].pc \in Inside
      <4>1. session[d] \in SessionRow
        BY <1>1
      <4>2. session'[d] = [session[d] EXCEPT !.detached = TRUE] \/ session'[d] = Idle
        BY <1>7, <3>2 DEF Stop
      <4>3. [session[d] EXCEPT !.detached = TRUE].pc = session[d].pc
        BY <4>1 DEF SessionRow
      <4> QED
        BY <1>2, <3>3, <4>2, <4>3
    <3> QED
      BY <1>1, <3>1, <3>2, <3>3 DEF LockHeld
  <2>4. Processes'
    BY <1>1, <1>7, <2>1 DEF Stop, Processes
  <2>5. ASSUME NEW d \in Callers
        PROVE  SessionOK(session[d])'
    <3>1. PICK s : s = session'[d]
      OBVIOUS
    <3>2. PICK t : t = session[d]
      OBVIOUS
    <3>3. SessionOK(t) /\ t \in SessionRow
      BY <1>1, <3>2
    <3>4. \/ s = [t EXCEPT !.detached = TRUE]
          \/ s = [Started EXCEPT !.detached = TRUE]
          \/ s = Idle
      BY <1>7, <3>1, <3>2 DEF Stop
    <3>5. SessionOK(s)
      <4>1. CASE s = [t EXCEPT !.detached = TRUE]
        <5>1. /\ s.pc = t.pc /\ s.validity = t.validity /\ s.last = t.last /\ s.reset = t.reset
              /\ s.rebuilding = t.rebuilding /\ s.todo = t.todo /\ s.batch = t.batch
          BY <3>3, <4>1 DEF SessionRow
        <5> QED
          BY <3>3, <5>1 DEF SessionOK, Linked, Pending
      <4>2. CASE s = [Started EXCEPT !.detached = TRUE]
        BY <1>1, <4>2, StartedOK
      <4>3. CASE s = Idle
        BY <1>2, <4>3, Parked
      <4> QED
        BY <3>4, <4>1, <4>2, <4>3
    <3> QED
      BY <2>2, <3>1, <3>5, RowIsSession
  <2> QED
    BY <2>2, <2>3, <2>4, <2>5
<1>8. CASE Exit
  <2>1. \A d \in Callers : session'[d].pc = "idle" /\ ~session'[d].reset
    BY <1>1, <1>8 DEF Exit, At, SessionOK
  <2>2. TablesOK'
    BY <1>1, <1>8, Unmoved DEF Exit
  <2>3. Processes'
    BY <1>8, <2>1 DEF Exit, Processes, At
  <2>4. LockHeld'
    BY <1>1, <1>3, <1>8, <2>1 DEF Exit, LockHeld, budget
  <2> QED
    BY <1>3, <2>1, <2>2, <2>3, <2>4
<1>9. CASE Upgrade
  <2>1. phase = "down" /\ phase' = "down" /\ session' = session /\ UNCHANGED <<lock, stops>>
    BY <1>9 DEF Upgrade, Setting, budget
  <2>2. \A d \in Callers : session'[d].pc = "idle" /\ ~session'[d].reset
    BY <1>4, <2>1
  <2>3. Processes'
    BY <2>1, <2>2 DEF Processes, At
  <2>4. LockHeld'
    BY <1>1, <1>3, <2>1, <2>2 DEF LockHeld
  <2>5. /\ epoch \in Nat /\ Home(cursor.validity) \in 1 .. epoch /\ uidnext \in Nat \ {0}
        /\ \A u \in inbox : u \in Nat /\ u > 0
        /\ Uniform(archive, Home(cursor.validity))
    BY <1>1, Types DEF TablesOK, Validities
  <2>10. cursor.validity = 0 => MaxEpoch = 1
    BY <1>1 DEF TablesOK, Validities
  <2>6. /\ staged' = NoMessages /\ staging'.validity = 0 /\ staging'.last = 0
        /\ cursor'.validity = cursor.validity /\ cursor'.last = 0 /\ archive' = archive
        /\ UNCHANGED <<inbox, epoch, uidnext>>
    BY <1>1, <1>9 DEF Upgrade, NoCursor, RescanFrom, TypeOK, CursorRow, server
  <2>7. Validities'
    BY <2>5, <2>6, <2>10 DEF Validities, Home
  <2>8. Uniform(archive, Home(cursor.validity))' /\ Uniform(staged, staging.validity)'
    BY <2>5, <2>6 DEF Uniform, NoMessages
  <2>9. /\ Reached(archive, rescanned.archive, Home(cursor.validity), cursor.last)'
        /\ Reached(staged, rescanned.staged, staging.validity, staging.last)'
    BY <2>5, <2>6 DEF Reached
  <2> QED
    BY <1>3, <2>2, <2>3, <2>4, <2>7, <2>8, <2>9 DEF TablesOK
<1> QED
  BY <1>5, <1>6, <1>7, <1>8, <1>9 DEF Process

-----------------------------------------------------------------------------
(* The theorems                                                            *)

\* Every step keeps the invariant.
LEMMA ArchiveStep ==
  ASSUME Setting, ArchiveInv, [Next]_vars
  PROVE  ArchiveInv'
<1>1. TypeOK' /\ TypeOK /\ \A u \in inbox : u < uidnext
  BY TypeStep DEF ArchiveInv
<1>2. ASSUME \/ UNCHANGED server
             \/ Server
      PROVE  \A u \in inbox' : u < uidnext'
  BY <1>1, <1>2, ServerMoves DEF server
<1>3. CASE Server
  <2>1. Processes' /\ LockHeld'
    BY <1>1, <1>3, ServerMoves DEF ArchiveInv, Processes, LockHeld, At, budget
  <2> QED
    BY <1>1, <1>2, <1>3, <2>1, ServerStep DEF ArchiveInv
<1>4. ASSUME NEW c \in Callers, Ask(c) \/ Step(c) \/ Fail(c)
      PROVE  ArchiveInv'
  <2>1. UNCHANGED server
    BY <1>4 DEF Ask, Step, Fail, Acquire, ReadCursor, Select, Fetch, FetchFails, BeginRebuild,
                Store, Advance, Finish, Prune, Quiet
  <2>2. Processes' /\ LockHeld'
    BY <1>4, Locking
  <2>3. TablesOK' /\ \A d \in Callers : SessionOK(session[d])'
    BY <1>4, LocalStep, BeginStep, StoreStep, AdvanceStep, FinishStep, PruneStep DEF Step
  <2> QED
    BY <1>1, <1>2, <2>1, <2>2, <2>3 DEF ArchiveInv
<1>5. CASE Process
  <2>1. UNCHANGED server
    BY <1>5 DEF Process, Start, Kill, Stop, Exit, Upgrade
  <2> QED
    BY <1>1, <1>2, <1>5, <2>1, ProcessStep DEF ArchiveInv
<1>6. ASSUME NEW S \in SUBSET Uids, BatchPrune(S)
      PROVE  ArchiveInv'
  <2>1. /\ UNCHANGED <<server, staged, staging, cursor, rescanned, lock, session, phase, release, stops>>
        /\ archive' = [u \in Uids |-> IF u \in S THEN 0 ELSE archive[u]] /\ S \in SUBSET Beyond
    BY <1>6 DEF BatchPrune, Quiet, budget
  <2>2. TablesOK' /\ \A s : SessionOK(s) => SessionOK(s)'
    BY <2>1, Pruned
  <2>3. ASSUME NEW d \in Callers
        PROVE  SessionOK(session[d])'
    <3>1. PICK s : s = session[d]
      OBVIOUS
    <3>2. SessionOK(s)
      BY <3>1 DEF ArchiveInv
    <3> QED
      BY <2>1, <2>2, <3>1, <3>2, RowIsSession
  <2>4. Processes' /\ LockHeld'
    BY <2>1 DEF ArchiveInv, Processes, LockHeld, At
  <2> QED
    BY <1>1, <1>2, <2>1, <2>2, <2>3, <2>4 DEF ArchiveInv
<1>7. CASE UNCHANGED vars
  <2>1. UNCHANGED <<server, tables>> /\ UNCHANGED <<release, phase, lock, session, stops>>
    BY <1>7 DEF vars, budget
  <2>2. TablesOK' /\ \A s : SessionOK(s) => SessionOK(s)'
    BY <2>1, Unmoved DEF ArchiveInv
  <2>3. ASSUME NEW d \in Callers
        PROVE  SessionOK(session[d])'
    <3>1. PICK s : s = session[d]
      OBVIOUS
    <3>2. SessionOK(s)
      BY <3>1 DEF ArchiveInv
    <3> QED
      BY <2>1, <2>2, <3>1, <3>2, RowIsSession
  <2>4. Processes' /\ LockHeld'
    BY <2>1 DEF ArchiveInv, Processes, LockHeld, At
  <2> QED
    BY <1>1, <1>2, <2>1, <2>2, <2>3, <2>4 DEF ArchiveInv
<1> QED
  BY <1>3, <1>4, <1>5, <1>6, <1>7 DEF Next, Sync, PruneSome

\* The invariant holds whatever is delivered, expunged, killed, failed, stopped or
\* upgraded within the setting.
THEOREM ArchiveCorrect == Setting => (Spec => []ArchiveInv)
<1> SUFFICES ASSUME Setting PROVE Spec => []ArchiveInv
  OBVIOUS
<1>1. Init => ArchiveInv
  <2> SUFFICES ASSUME Init PROVE ArchiveInv
    OBVIOUS
  <2>1. TypeOK
    <3>1. Init => TypeOK
      BY InitTypes
    <3> QED
      BY <3>1
  <2>2. \A c \in Callers : session[c].pc = "idle" /\ ~session[c].reset
    BY DEF Init, Idle
  <2>3. Processes /\ LockHeld
    BY <2>2 DEF Init, Processes, LockHeld, At, Inside, Busy, InThread
  <2>4. TablesOK
    <3>1. (cursor.validity = 0 => MaxEpoch = 1) /\ Home(cursor.validity) = 1
      BY ValidityAssumption DEF Init, Setting, Home
    <3> QED
      BY <3>1 DEF Init, NoMessages, NoCursor, TablesOK, Validities, Uniform, Reached
  <2>5. \A c \in Callers : SessionOK(session[c])
    BY <2>2, Parked
  <2> QED
    BY <2>1, <2>3, <2>4, <2>5 DEF Init, ArchiveInv
<1>2. ArchiveInv /\ [Next]_vars => ArchiveInv'
  BY ArchiveStep
<1> QED
  BY <1>1, <1>2, PTL DEF Spec

\* A cursor of this epoch stands for this epoch.
LEMMA SpokenFor ==
  ASSUME ArchiveInv, cursor.validity = epoch
  PROVE  Home(cursor.validity) = epoch
BY Types, HomeIs DEF ArchiveInv

\* No crash, failure, stop, change of UIDVALIDITY or upgrade leaves a cursor ahead
\* of its rows.
THEOREM NoGapsLeft == Setting => (Spec => []NoGap)
<1> SUFFICES ASSUME Setting PROVE Spec => []NoGap
  OBVIOUS
<1>1. ArchiveInv => NoGap
  BY SpokenFor DEF ArchiveInv, TablesOK, Reached, Kept, Outnumbered, NoGap, Covered
<1> QED
  BY <1>1, ArchiveCorrect, PTL

\* The archive never shows messages of two epochs side by side.
THEOREM OneEpochShown == Setting => (Spec => []NoMixture)
<1> SUFFICES ASSUME Setting PROVE Spec => []NoMixture
  OBVIOUS
<1>1. ArchiveInv => NoMixture
  BY DEF ArchiveInv, TablesOK, Uniform, NoMixture
<1> QED
  BY <1>1, ArchiveCorrect, PTL

\* complete_mail_archive_rebuild never raises.
THEOREM RebuildsComplete == Setting => (Spec => []RebuildIntact)
<1> SUFFICES ASSUME Setting PROVE Spec => []RebuildIntact
  OBVIOUS
<1>1. ArchiveInv => RebuildIntact
  <2> SUFFICES ASSUME ArchiveInv, NEW c \in Callers, At(c, "finish"), session[c].rebuilding
               PROVE  staging.validity = session[c].validity
    BY DEF RebuildIntact
  <2>1. SessionOK(session[c]) /\ session[c].pc = "finish"
    BY DEF ArchiveInv, At
  <2>2. ~session[c].reset
    BY <2>1 DEF SessionOK
  <2> QED
    BY <2>1, <2>2 DEF SessionOK, Linked, Busy
<1> QED
  BY <1>1, ArchiveCorrect, PTL

\* After an upgrade everything at or below the cursor has been read again.
THEOREM RescanComplete == Setting => (Spec => []Rescanned)
<1> SUFFICES ASSUME Setting PROVE Spec => []Rescanned
  OBVIOUS
<1>1. ArchiveInv => Rescanned
  BY SpokenFor DEF ArchiveInv, TablesOK, Reached, Kept, Outnumbered, Rescanned
<1> QED
  BY <1>1, ArchiveCorrect, PTL

\* A cursor only moves forward while UIDVALIDITY stays the same, but for a rescan
\* and for a stop that hands the mailbox over to a second thread.
THEOREM CursorForward == Setting /\ ~Handovers => (Spec => CursorMonotone)
<1> SUFFICES ASSUME Setting, ~Handovers PROVE Spec => CursorMonotone
  OBVIOUS
<1> DEFINE Forward ==
      cursor'.validity = cursor.validity /\ release'.web = release.web => cursor'.last >= cursor.last
<1>1. ArchiveInv /\ [Next]_vars => [Forward]_vars
  <2> SUFFICES ASSUME ArchiveInv, [Next]_vars, cursor'.validity = cursor.validity,
                      release'.web = release.web
               PROVE  cursor'.last >= cursor.last
    OBVIOUS
  <2>1. TypeOK /\ TablesOK /\ cursor.last \in Nat /\ cursor.validity \in Nat
    BY Types DEF ArchiveInv
  <2>2. CASE cursor' = cursor
    BY <2>1, <2>2
  <2>3. ASSUME NEW c \in Callers, Advance(c), ~session[c].rebuilding
        PROVE  cursor'.last >= cursor.last
    <3>1. SessionOK(session[c]) /\ session[c].pc = "advance" /\ session[c].last \in Nat
      BY <2>1, <2>3, Types DEF ArchiveInv, Advance, At
    <3>2. Linked(session[c])
      BY <3>1 DEF SessionOK, Busy, InThread
    <3>3. cursor'.last = session[c].last
      BY <2>3 DEF Advance
    <3> QED
      BY <2>1, <2>3, <3>1, <3>2, <3>3 DEF Linked
  <2>4. ASSUME NEW c \in Callers, Finish(c), session[c].rebuilding
        PROVE  cursor' = cursor
    <3>1. SessionOK(session[c]) /\ session[c].pc = "finish"
      BY <2>4 DEF ArchiveInv, Finish, At
    <3>2. Linked(session[c]) /\ session[c].validity >= 1
      <4>1. session[c] \in SessionRow /\ session[c].pc \in Busy
        BY <2>1, <3>1, Types DEF Busy
      <4> QED
        BY <2>1, <3>1, <4>1, Connected, Types DEF SessionOK
    <3>3. cursor.validity # session[c].validity
      <4>1. staging.validity = session[c].validity /\ staging.validity # 0
        BY <2>1, <2>4, <3>2, Types DEF Linked
      <4>2. Home(cursor.validity) < staging.validity /\ Home(cursor.validity) \in Nat
        BY <2>1, <4>1, HomeIs DEF TablesOK, Validities
      <4> QED
        BY <2>1, <4>1, <4>2, HomeIs
    <3>4. cursor' = cursor \/ cursor'.validity = session[c].validity
      BY <2>4 DEF Finish, tables
    <3> QED
      BY <2>1, <3>3, <3>4
  <2>5. Server => cursor' = cursor
    BY DEF Server, Deliver, Expunge, ChangeValidity, tables
  <2>6. ASSUME NEW c \in Callers, Ask(c) \/ Step(c) \/ Fail(c)
        PROVE  \/ cursor' = cursor
               \/ Advance(c) /\ ~session[c].rebuilding
               \/ Finish(c) /\ session[c].rebuilding
    BY <2>6 DEF Ask, Step, Fail, Acquire, ReadCursor, Select, Fetch, FetchFails, BeginRebuild,
                Store, Advance, Finish, Prune, tables
  <2>7. Process => cursor' = cursor
    <3>1. ~Upgrade
      BY <2>1 DEF Upgrade, TypeOK
    <3> QED
      BY <3>1 DEF Process, Start, Kill, Stop, Exit, tables
  <2>8. PruneSome => cursor' = cursor
    BY DEF PruneSome, BatchPrune
  <2>9. UNCHANGED vars => cursor' = cursor
    BY DEF vars, tables
  <2> QED
    BY <2>2, <2>3, <2>4, <2>5, <2>6, <2>7, <2>8, <2>9 DEF Next, Sync
<1> QED
  BY <1>1, ArchiveCorrect, PTL DEF Spec, CursorMonotone

-----------------------------------------------------------------------------
(* The archive implements the pages of MailPages                           *)

\* The refinement mapping.
Shown == {<<archive[u], u>> : u \in Stored}

\* Both modules count alike.
LEMMA SameCardinality == \A S : Pages!Cardinality(S) = Cardinality(S)
BY DEF Pages!Cardinality, Cardinality

\* A step that shows more under the same UIDVALIDITY, or changes nothing.
LEMMA Extended ==
  ASSUME TablesOK, TablesOK', Home(cursor.validity)' = Home(cursor.validity),
         \A u \in Uids : archive[u] # 0 => archive'[u] = archive[u]
  PROVE  Pages!Next
<1>1. Shown' \subseteq {Home(cursor.validity)} \X Uids
  <2>1. (Shown \subseteq {Home(cursor.validity)} \X Uids)'
    BY DEF TablesOK, Uniform, Shown, Stored
  <2> QED
    BY <2>1
<1>2. Shown \subseteq Shown'
  BY DEF Shown, Stored
<1>3. PICK M : M = Shown'
  OBVIOUS
<1>4. Pages!Extend(M)
  BY <1>2, <1>3 DEF Pages!Extend, Shown
<1> QED
  BY <1>1, <1>3, <1>4 DEF Pages!Next

\* Retention takes only what is beyond the limit from the pages.
LEMMA Retired ==
  ASSUME NEW S \in SUBSET Beyond,
         archive' = [u \in Uids |-> IF u \in S THEN 0 ELSE archive[u]], UNCHANGED cursor
  PROVE  Pages!Next
<1>1. PICK M : M = {m \in Shown : m[2] \in S}
  OBVIOUS
<1>2. Pages!Shelf = Stored
  <2>1. \A m \in Shown : m[2] \in Stored
    BY DEF Shown
  <2>2. \A u \in Stored : <<archive[u], u>> \in Shown /\ <<archive[u], u>>[2] = u /\ u \in Uids
    BY DEF Shown, Stored
  <2>3. Pages!Shelf = {u \in Uids : \E m \in Shown : m[2] = u}
    BY DEF Pages!Shelf, Shown
  <2> HIDE DEF Shown, Stored
  <2> QED
    BY <2>1, <2>2, <2>3
<1>3. Shown' = Shown \ M
  BY <1>1 DEF Shown, Stored
<1>4. \A m \in M : Pages!Cardinality({v \in Pages!Shelf : v > m[2]}) >= MaxMessages
  <2>1. \A u \in S : Cardinality({v \in Stored : v > u}) >= MaxMessages
    BY DEF Beyond
  <2> QED
    BY <1>1, <1>2, <2>1, SameCardinality
<1>5. Pages!Retire(M)
  <2>1. UNCHANGED Home(cursor.validity)
    BY DEF Home
  <2> QED
    BY <1>3, <1>4, <2>1 DEF Pages!Retire, Shown
<1> QED
  BY <1>1, <1>5 DEF Pages!Next, Shown

\* Every step of the archive is one of the pages, or leaves them alone.
LEMMA PagesStep ==
  ASSUME Setting, ArchiveInv, ArchiveInv', [Next]_vars
  PROVE  [Pages!Next]_(Pages!vars)
<1>1. TypeOK /\ TablesOK /\ TablesOK' /\ \A c \in Callers : SessionOK(session[c])
  BY DEF ArchiveInv
<1>2. ASSUME UNCHANGED archive, UNCHANGED cursor
      PROVE  UNCHANGED Pages!vars
  BY <1>2 DEF Pages!vars, Stored, Home
<1>3. ASSUME NEW c \in Callers, Store(c)
      PROVE  [Pages!Next]_(Pages!vars)
  <2>1. CASE session[c].rebuilding
    BY <1>2, <1>3, <2>1 DEF Store
  <2>2. CASE ~session[c].rebuilding
    <3>1. PICK s : s = session[c]
      OBVIOUS
    <3>2. SessionOK(s) /\ s.pc = "store" /\ s \in SessionRow /\ ~s.rebuilding
      BY <1>1, <1>3, <2>2, <3>1, Types DEF Store, At
    <3>3. Home(s.validity) = s.validity
      BY <1>1, <3>2, Connected DEF Busy, InThread
    <3>4. ~s.reset /\ s.validity = Home(cursor.validity)
      BY <3>2, <3>3 DEF SessionOK, Linked, Busy, InThread
    <3>5. archive' = With(archive, s) /\ UNCHANGED cursor
      BY <1>3, <2>2, <3>1 DEF Store
    <3>6. \A u \in Uids : archive[u] # 0 => archive'[u] = archive[u]
      BY <1>1, <3>4, <3>5 DEF With, TablesOK, Uniform
    <3> QED
      BY <1>1, <3>5, <3>6, Extended DEF Home
  <2> QED
    BY <2>1, <2>2
<1>4. ASSUME NEW c \in Callers, Advance(c)
      PROVE  [Pages!Next]_(Pages!vars)
  <2>1. CASE session[c].rebuilding
    BY <1>2, <1>4, <2>1 DEF Advance
  <2>2. CASE ~session[c].rebuilding
    <3>1. PICK s : s = session[c]
      OBVIOUS
    <3>2. SessionOK(s) /\ s.pc = "advance" /\ s \in SessionRow /\ ~s.rebuilding
      BY <1>1, <1>4, <2>2, <3>1, Types DEF Advance, At
    <3>3. Home(s.validity) = s.validity
      BY <1>1, <3>2, Connected DEF Busy, InThread
    <3>4. ~s.reset /\ Home(s.validity) = Home(cursor.validity)
      BY <3>2 DEF SessionOK, Linked, Busy, InThread
    <3>5. cursor'.validity = s.validity /\ UNCHANGED archive
      BY <1>4, <2>2, <3>1 DEF Advance
    <3>6. Home(cursor.validity)' = Home(cursor.validity)
      BY <3>4, <3>5 DEF Home
    <3> QED
      BY <1>1, <3>5, <3>6, Extended
  <2> QED
    BY <2>1, <2>2
<1>5. ASSUME NEW c \in Callers, Finish(c)
      PROVE  [Pages!Next]_(Pages!vars)
  <2>1. CASE UNCHANGED tables
    BY <1>2, <2>1 DEF tables
  <2>2. CASE ~UNCHANGED tables
    <3>1. PICK s : s = session[c]
      OBVIOUS
    <3>2. /\ s.rebuilding /\ staging.validity = s.validity /\ archive' = staged
          /\ cursor'.validity = s.validity
      BY <1>5, <2>2, <3>1 DEF Finish
    <3>3. SessionOK(s) /\ s.pc = "finish" /\ s \in SessionRow
      BY <1>1, <1>5, <3>1, Types DEF Finish, At
    <3>4. s.validity \in 1 .. epoch /\ Home(s.validity) = s.validity /\ epoch \in Epochs
      BY <1>1, <3>3, Connected DEF Busy, TypeOK
    <3>5. s.validity \in Epochs /\ s.validity # 0
      BY <3>4, LimitsAssumption DEF Epochs
    <3>6. Home(cursor.validity) < s.validity
      BY <1>1, <3>2, <3>5 DEF TablesOK, Validities
    <3>7. PICK M : M = Shown'
      OBVIOUS
    <3>8. Home(cursor.validity)' = s.validity
      BY <3>2, <3>4 DEF Home
    <3>9. M \subseteq {s.validity} \X Uids
      <4>1. (Shown \subseteq {Home(cursor.validity)} \X Uids)'
        BY <1>1 DEF TablesOK, Uniform, Shown, Stored
      <4> QED
        BY <3>7, <3>8, <4>1
    <3>10. s.validity > Home(cursor.validity)
      BY <1>1, <3>4, <3>6, Types, HomeIs
    <3>11. Pages!Replace(s.validity, M)
      BY <3>7, <3>8, <3>10 DEF Pages!Replace, Shown
    <3> QED
      BY <3>5, <3>9, <3>11 DEF Pages!Next
  <2> QED
    BY <2>1, <2>2
<1>6. ASSUME NEW c \in Callers, Prune(c)
      PROVE  Pages!Next
  BY <1>6, Retired DEF Prune
<1>7. ASSUME NEW S \in SUBSET Uids, BatchPrune(S)
      PROVE  Pages!Next
  BY <1>7, Retired DEF BatchPrune
<1>8. CASE Upgrade
  <2>1. UNCHANGED archive /\ cursor'.validity = cursor.validity
    BY <1>1, <1>8 DEF Upgrade, TypeOK, CursorRow
  <2> QED
    BY <2>1 DEF Pages!vars, Stored, Home
<1>9. ASSUME NEW c \in Callers,
             \/ Ask(c) \/ Acquire(c) \/ ReadCursor(c) \/ Select(c) \/ Fetch(c)
             \/ FetchFails(c) \/ Fail(c) \/ BeginRebuild(c)
      PROVE  UNCHANGED Pages!vars
  BY <1>2, <1>9 DEF Ask, Acquire, ReadCursor, Select, Fetch, FetchFails, Fail, BeginRebuild, tables
<1>10. CASE Server \/ Start \/ Kill \/ (\E handover \in BOOLEAN : Stop(handover)) \/ Exit
            \/ UNCHANGED vars
  BY <1>2, <1>10 DEF Server, Deliver, Expunge, ChangeValidity, Start, Kill, Stop, Exit, tables, vars
<1> QED
  BY <1>3, <1>4, <1>5, <1>6, <1>7, <1>8, <1>9, <1>10 DEF Next, Sync, Step, Process, PruneSome

\* The archive is replaced in one step by that of a later UIDVALIDITY, and loses
\* nothing otherwise but what is beyond the limit.
THEOREM ArchiveImplementsPages == Setting => (Spec => PagesSpec)
<1> SUFFICES ASSUME Setting PROVE Spec => PagesSpec
  OBVIOUS
<1>1. Init => Pages!Init
  <2> SUFFICES ASSUME Init PROVE Pages!Init
    OBVIOUS
  <2>1. Stored = {}
    BY DEF Init, NoMessages, Stored
  <2>2. Home(cursor.validity) = 1
    BY ValidityAssumption DEF Init, Home
  <2>3. 1 \in Epochs
    BY LimitsAssumption DEF Epochs
  <2> QED
    BY <2>1, <2>2, <2>3 DEF Pages!Init
<1>2. ArchiveInv /\ ArchiveInv' /\ [Next]_vars => [Pages!Next]_(Pages!vars)
  BY PagesStep
<1> QED
  BY <1>1, <1>2, ArchiveCorrect, PTL DEF Spec, PagesSpec, Pages!Spec

=============================================================================
