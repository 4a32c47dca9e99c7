--------------------------- MODULE SessionsProofs ---------------------------
(***************************************************************************)
(* Proofs about Sessions, for any number of users, passwords, versions and *)
(* requests.                                                               *)
(*                                                                         *)
(* The inductive invariant adds to the types that a session is never ahead *)
(* of its user, and that a session of the user's own version agrees with   *)
(* the user's password and role, whether or not the user is enabled.  Both *)
(* are needed: SessionsAreCurrent alone says nothing of a disabled user,   *)
(* whose sessions could come back with the next status change.             *)
(***************************************************************************)
EXTENDS Sessions, TLAPS

\* A session names a user that was inserted, and no version to come.
Behind ==
  \A s \in handed : users[s.user].state # "none" /\
    (There(s.user) => s.version <= users[s.user].version)

\* A session of the present version was opened with the present password and role.
Agrees ==
  \A s \in handed : There(s.user) /\ s.version = users[s.user].version =>
    users[s.user].password = s.password /\ users[s.user].role = s.role

IInv == TypeOK /\ Behind /\ Agrees

UserRows == [state : {"none", "there", "gone"}, role : Roles, enabled : BOOLEAN,
             version : 1 .. MaxVersion, password : Passwords]

-----------------------------------------------------------------------------
(* Rows                                                                    *)

\* CHOOSE finds a password.
LEMMA SomePassword == AnyPassword \in Passwords
  BY PasswordsAssumption DEF AnyPassword

\* What is inserted, or left of a deleted user, is a row.
LEMMA RowType ==
  ASSUME NEW state \in {"none", "there", "gone"}, NEW role \in Roles, NEW p \in Passwords
  PROVE  Row(state, role, p) \in UserRows
  BY UsersAssumption DEF Row, UserRows

-----------------------------------------------------------------------------
(* Every change of a user in one form                                      *)

\* How a step may change the row of u: an insertion, a deletion, or a new version
\* unless password, role and status stay what they are.
Changes(u, new) ==
  \/ users[u].state = "none"
  \/ new.state = "gone"
  \/ /\ There(u) /\ new.state = "there"
     /\ \/ new.version > users[u].version
        \/ /\ new.version = users[u].version /\ new.password = users[u].password
           /\ new.role = users[u].role /\ new.enabled = users[u].enabled

\* An administrator stays one, there and enabled.
Spares(u, new) ==
  \/ new.role = "admin" /\ new.enabled /\ new.state = "there"
  \/ ~(There(u) /\ users[u].role = "admin")

\* Nothing but the row of u changes, and that in one of these ways.
Administered ==
  \E u \in Ids, new \in UserRows :
    users' = [users EXCEPT ![u] = new] /\ Changes(u, new) /\ Spares(u, new)

\* Every handler of an administrator and every restart changes one user that way.
LEMMA AdministrationChanges ==
  ASSUME IInv,
         \/ \E r \in requests : Administration(r)
         \/ \E u \in Ids, p \in Passwords : WebRestart(u, p)
  PROVE  Administered /\ handed' = handed /\ requests' \subseteq requests
<1> USE DEF IInv
<1>1. ASSUME NEW r \in requests, NEW u \in Ids, NEW p \in Passwords, CreateUser(r, u, p)
      PROVE  Administered /\ handed' = handed /\ requests' \subseteq requests
  <2>1. Row("there", "user", p) \in UserRows BY RowType DEF Roles
  <2> QED BY <1>1, <2>1 DEF CreateUser, NextId, Handled, Administered, Changes, Spares, There
<1>2. ASSUME NEW r \in requests, NEW u \in Ids, NEW p \in Passwords, ResetPassword(r, u, p)
      PROVE  Administered /\ handed' = handed /\ requests' \subseteq requests
  <2> DEFINE new == [users[u] EXCEPT !.password = p, !.version = Bumped(u, TRUE)]
  <2>1. users[u] \in UserRows BY DEF TypeOK, UserRows
  <2>2. Bumped(u, TRUE) \in 1 .. MaxVersion /\ Bumped(u, TRUE) > users[u].version
    BY <1>2, <2>1, UsersAssumption DEF ResetPassword, Bumped, UserRows
  <2>3. new \in UserRows BY <2>2, <2>1 DEF UserRows
  <2>4. /\ users' = [users EXCEPT ![u] = new] /\ There(u)
        /\ new.state = "there" /\ users[u].role # "admin" /\ new.version > users[u].version
    BY <1>2, <2>2, <2>1 DEF ResetPassword, Manageable, There, UserRows, TypeOK
  <2>5. Changes(u, new) BY <2>4 DEF Changes
  <2> HIDE DEF new
  <2> QED BY <1>2, <2>3, <2>4, <2>5 DEF ResetPassword, Handled, Administered, Spares
<1>3. ASSUME NEW r \in requests, NEW u \in Ids, NEW enabled \in BOOLEAN, SetEnabled(r, u, enabled)
      PROVE  Administered /\ handed' = handed /\ requests' \subseteq requests
  <2> DEFINE changed == users[u].enabled # enabled
             new == [users[u] EXCEPT !.enabled = enabled, !.version = Bumped(u, changed)]
  <2>1. users[u] \in UserRows BY DEF TypeOK, UserRows
  <2>2. Bumped(u, changed) \in 1 .. MaxVersion
    BY <1>3, <2>1, UsersAssumption DEF SetEnabled, Bumped, UserRows
  <2>3. /\ changed => Bumped(u, changed) > users[u].version
        /\ ~changed => Bumped(u, changed) = users[u].version
    BY <2>1 DEF Bumped, UserRows
  <2>4. new \in UserRows BY <2>2, <2>1 DEF UserRows
  <2>5. /\ users' = [users EXCEPT ![u] = new] /\ There(u)
        /\ new.state = "there" /\ users[u].role # "admin"
    BY <1>3, <2>1 DEF SetEnabled, Manageable, There, UserRows, TypeOK
  <2>6. new.version > users[u].version \/
          (/\ new.version = users[u].version /\ new.password = users[u].password
           /\ new.role = users[u].role /\ new.enabled = users[u].enabled)
    BY <2>3, <2>1 DEF UserRows
  <2>7. Changes(u, new) BY <2>5, <2>6 DEF Changes
  <2> HIDE DEF new
  <2> QED BY <1>3, <2>4, <2>5, <2>7 DEF SetEnabled, Handled, Administered, Spares
<1>4. ASSUME NEW r \in requests, NEW u \in Ids, DeleteUser(r, u)
      PROVE  Administered /\ handed' = handed /\ requests' \subseteq requests
  <2>1. Row("gone", "user", AnyPassword) \in UserRows BY RowType, SomePassword DEF Roles
  <2>2. Row("gone", "user", AnyPassword).state = "gone" BY DEF Row
  <2> QED BY <1>4, <2>1, <2>2 DEF DeleteUser, Manageable, Handled, Administered, Changes, Spares
<1>5. ASSUME NEW u \in Ids, NEW p \in Passwords, WebRestart(u, p)
      PROVE  Administered /\ handed' = handed /\ requests' \subseteq requests
  <2> DEFINE changed == SessionChanged(u, p)
             new == [Row("there", "admin", p) EXCEPT
                       !.version = IF There(u) THEN Bumped(u, changed) ELSE @]
  <2>1. users[u] \in UserRows BY DEF TypeOK, UserRows
  <2>2. There(u) => Bumped(u, changed) \in 1 .. MaxVersion
    BY <1>5, <2>1, UsersAssumption DEF WebRestart, Bumped, UserRows
  <2>3. /\ changed => Bumped(u, changed) > users[u].version
        /\ ~changed => Bumped(u, changed) = users[u].version
    BY <2>1 DEF Bumped, UserRows
  <2>4. Row("there", "admin", p) \in UserRows BY RowType DEF Roles
  <2>5. new \in UserRows BY <2>2, <2>4 DEF UserRows
  <2>6. users' = [users EXCEPT ![u] = new] BY <1>5 DEF WebRestart
  <2>7. new.state = "there" /\ new.role = "admin" /\ new.enabled /\ new.password = p
    BY DEF Row
  <2>8. There(u) => new.version = Bumped(u, changed) BY DEF Row
  <2>9. CASE There(u)
    <3>1. ASSUME changed PROVE Changes(u, new)
      <4>1. new.version > users[u].version BY <2>8, <2>9, <2>3, <3>1
      <4> HIDE DEF new
      <4> QED BY <2>7, <2>9, <4>1 DEF Changes
    <3>2. ASSUME ~changed PROVE Changes(u, new)
      <4>1. users[u].password = p /\ users[u].role = "admin" /\ users[u].enabled
        BY <3>2 DEF SessionChanged
      <4>2. new.version = users[u].version
        BY <2>8, <2>9, <2>3, <3>2
      <4>3. users[u].enabled = TRUE /\ new.enabled = TRUE
        BY <4>1, <2>1, <2>5, <2>7 DEF UserRows
      <4> HIDE DEF new
      <4> QED BY <2>7, <2>9, <4>1, <4>2, <4>3 DEF Changes
    <3>3. Changes(u, new) BY <3>1, <3>2
    <3> HIDE DEF new
    <3> QED BY <1>5, <2>5, <2>6, <2>7, <3>3 DEF WebRestart, Administered, Spares
  <2>10. CASE ~There(u)
    <3>1. Changes(u, new) BY <1>5, <2>10 DEF WebRestart, NextId, Changes
    <3> HIDE DEF new
    <3> QED BY <1>5, <2>5, <2>6, <2>7, <3>1 DEF WebRestart, Administered, Spares
  <2> QED BY <2>9, <2>10
<1> QED BY <1>1, <1>2, <1>3, <1>4, <1>5 DEF Administration

-----------------------------------------------------------------------------
(* The invariant                                                           *)

\* Such a change keeps every session behind and in agreement.
LEMMA AdministeredKeeps ==
  ASSUME IInv, Administered, handed' = handed, requests' \subseteq requests
  PROVE  IInv'
<1>1. PICK u \in Ids, new \in UserRows :
        users' = [users EXCEPT ![u] = new] /\ Changes(u, new)
  BY DEF Administered
<1>2. users \in [Ids -> UserRows] /\ users' \in [Ids -> UserRows]
  BY <1>1 DEF IInv, TypeOK, UserRows
<1>3. TypeOK'
  BY <1>2 DEF IInv, TypeOK, UserRows
<1>4. ASSUME NEW s \in handed
      PROVE  /\ users'[s.user].state # "none"
             /\ users'[s.user].state = "there" => s.version <= users'[s.user].version
             /\ users'[s.user].state = "there" /\ s.version = users'[s.user].version =>
                  users'[s.user].password = s.password /\ users'[s.user].role = s.role
  <2>1. s.user \in Ids /\ s.version \in Nat BY DEF IInv, TypeOK
  <2>2. /\ users[s.user].state # "none"
        /\ users[s.user].state = "there" => s.version <= users[s.user].version
        /\ users[s.user].state = "there" /\ s.version = users[s.user].version =>
             users[s.user].password = s.password /\ users[s.user].role = s.role
    BY DEF IInv, Behind, Agrees, There
  <2>3. CASE s.user # u
    BY <1>1, <1>2, <2>1, <2>2, <2>3
  <2>4. CASE s.user = u
    <3>1. users'[u] = new BY <1>1, <1>2
    <3>2. new.state = "gone" \/
            (/\ users[u].state = "there" /\ new.state = "there"
             /\ \/ new.version > users[u].version
                \/ /\ new.version = users[u].version /\ new.password = users[u].password
                   /\ new.role = users[u].role)
      BY <1>1, <2>2, <2>4 DEF Changes, There
    <3>3. new.version \in Nat /\ users[u].version \in Nat BY <1>2 DEF UserRows
    <3> QED BY <2>1, <2>2, <2>4, <3>1, <3>2, <3>3
  <2> QED BY <2>3, <2>4
<1> QED BY <1>3, <1>4 DEF IInv, Behind, Agrees, There

\* The invariant holds of every reachable state.
LEMMA Invariant == Spec => []IInv
<1>1. Init => IInv
  <2> SUFFICES ASSUME Init PROVE IInv
    OBVIOUS
  <2>1. \A u \in Ids : users[u] \in UserRows
    BY RowType, SomePassword DEF Init, NoUser, Roles
  <2>2. users \in [Ids -> UserRows]
    BY <2>1 DEF Init
  <2> QED BY <2>2 DEF Init, IInv, TypeOK, Behind, Agrees, UserRows
<1>2. IInv /\ [Next]_vars => IInv'
  <2> SUFFICES ASSUME IInv, [Next]_vars PROVE IInv'
    OBVIOUS
  <2>1. ASSUME NEW u \in Ids, Login(u) PROVE IInv'
    <3> DEFINE new == [user |-> u, version |-> users[u].version,
                       password |-> users[u].password, role |-> users[u].role]
    <3>1. users[u] \in UserRows BY DEF IInv, TypeOK, UserRows
    <3>2. handed' = handed \cup {new} /\ users' = users /\ requests' = requests /\ There(u)
      BY <2>1 DEF Login
    <3>3. new \in [user : Ids, version : 1 .. MaxVersion, password : Passwords, role : Roles]
      BY <3>1 DEF UserRows
    <3>4. TypeOK' BY <3>2, <3>3 DEF IInv, TypeOK
    <3>5. users[u].version <= users[u].version BY <3>1 DEF UserRows
    <3> QED BY <3>2, <3>4, <3>5 DEF IInv, Behind, Agrees, There
  <2>2. ASSUME NEW s \in handed, Request(s) PROVE IInv'
    <3>1. s.user \in Ids /\ users[s.user].role \in Roles BY DEF IInv, TypeOK
    <3>2. requests' \subseteq [user : Ids, role : Roles]
      BY <2>2, <3>1 DEF Request, IInv, TypeOK
    <3> QED BY <2>2, <3>2 DEF Request, IInv, TypeOK, Behind, Agrees, There
  <2>3. ASSUME NEW r \in requests, Answer(r) PROVE IInv'
    BY <2>3 DEF Answer, Handled, IInv, TypeOK, Behind, Agrees, There
  <2>4. CASE (\E r \in requests : Administration(r))
               \/ \E u \in Ids, p \in Passwords : WebRestart(u, p)
    BY <2>4, AdministrationChanges, AdministeredKeeps
  <2>5. CASE UNCHANGED vars
    BY <2>5 DEF vars, IInv, TypeOK, Behind, Agrees, There
  <2> QED BY <2>1, <2>2, <2>3, <2>4, <2>5 DEF Next
<1> QED BY <1>1, <1>2, PTL DEF Spec

-----------------------------------------------------------------------------
(* Theorems                                                                *)

\* The table, the sessions and the requests keep their types.
THEOREM TypeCorrect == Spec => []TypeOK
  BY Invariant, PTL DEF IInv

\* A good session was opened with the password and for the role its user has now.
THEOREM SessionsCurrent == Spec => []SessionsAreCurrent
<1>1. IInv => SessionsAreCurrent
  BY DEF IInv, Agrees, SessionsAreCurrent, Valid
<1> QED BY <1>1, Invariant, PTL

\* A session that stopped being good is never good again.
THEOREM DeadStaysDead == Spec => SessionsStayDead
<1>1. IInv /\ [Next]_vars => [\A s \in handed : ~Valid(s) => ~Valid(s)']_users
  <2> SUFFICES ASSUME IInv, [Next]_vars, users' # users,
                      NEW s \in handed, ~Valid(s), Valid(s)'
               PROVE  FALSE
    BY DEF Valid
  <2>1. \/ \E r \in requests : Administration(r)
        \/ \E u \in Ids, p \in Passwords : WebRestart(u, p)
    BY DEF Next, Login, Request, Answer, vars
  <2>2. PICK u \in Ids, new \in UserRows :
          users' = [users EXCEPT ![u] = new] /\ Changes(u, new)
    BY <2>1, AdministrationChanges DEF Administered
  <2>3. s.user \in Ids /\ s.version \in Nat /\ users \in [Ids -> UserRows]
    BY DEF IInv, TypeOK, UserRows
  <2>4. s.user = u
    BY <2>2, <2>3 DEF Valid, There
  <2>5. new.state = "there" /\ new.enabled /\ new.version = s.version
    BY <2>2, <2>3, <2>4 DEF Valid, There
  <2>6. There(u) /\ s.version <= users[u].version
    BY <2>2, <2>4, <2>5 DEF IInv, Behind, Changes, There
  <2>7. new.version = users[u].version /\ new.enabled = users[u].enabled
    <3>1. new.version \in Nat /\ users[u].version \in Nat BY <2>3, <2>4 DEF UserRows
    <3>2. ~(new.version > users[u].version) BY <2>5, <2>6, <3>1
    <3>3. users[u].state # "none" /\ new.state # "gone" BY <2>5, <2>6 DEF There
    <3> QED BY <2>2, <3>2, <3>3 DEF Changes
  <2> QED BY <2>4, <2>5, <2>6, <2>7 DEF Valid
<1> QED BY <1>1, Invariant, PTL DEF Spec, SessionsStayDead

\* There is always an administrator who can log in.
THEOREM AdministratorStays == Spec => []AdminStays
<1>1. Init => AdminStays
  <2> SUFFICES ASSUME Init PROVE AdminStays
    OBVIOUS
  <2>1. 1 \in Ids BY UsersAssumption DEF Ids
  <2>2. users[1] = Row("there", "admin", AnyPassword) BY <2>1 DEF Init
  <2>3. users[1].state = "there" /\ users[1].role = "admin" BY <2>2 DEF Row
  <2>4. users[1].enabled = ("there" = "there") BY <2>2 DEF Row
  <2> QED BY <2>1, <2>3, <2>4 DEF AdminStays, There
<1>2. IInv /\ AdminStays /\ [Next]_vars => AdminStays'
  <2> SUFFICES ASSUME IInv, AdminStays, [Next]_vars PROVE AdminStays'
    OBVIOUS
  <2>1. CASE users' = users BY <2>1 DEF AdminStays, There
  <2>2. CASE users' # users
    <3>1. \/ \E r \in requests : Administration(r)
          \/ \E u \in Ids, p \in Passwords : WebRestart(u, p)
      BY <2>2 DEF Next, Login, Request, Answer, vars
    <3>2. PICK u \in Ids, new \in UserRows :
            users' = [users EXCEPT ![u] = new] /\ Spares(u, new)
      BY <3>1, AdministrationChanges DEF Administered
    <3>3. PICK w \in Ids : There(w) /\ users[w].enabled /\ users[w].role = "admin"
      BY DEF AdminStays
    <3>4. users \in [Ids -> UserRows] BY DEF IInv, TypeOK, UserRows
    <3>5. CASE w = u BY <3>2, <3>3, <3>4, <3>5 DEF AdminStays, There, Spares
    <3>6. CASE w # u BY <3>2, <3>3, <3>4, <3>6 DEF AdminStays, There
    <3> QED BY <3>5, <3>6
  <2> QED BY <2>1, <2>2
<1> QED BY <1>1, <1>2, Invariant, PTL DEF Spec

=============================================================================
