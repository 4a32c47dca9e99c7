------------------------------ MODULE Sessions ------------------------------
(***************************************************************************)
(* Users and their login sessions.  A session is a signed cookie that names *)
(* a user and the session_version the user had at the login; the server    *)
(* keeps no list of them, so a cookie once handed out may come back at any *)
(* time.  A request is authenticated by require_user, in a thread, before  *)
(* its handler runs: other requests fall in between.                       *)
(*                                                                         *)
(* The web process changes users on behalf of an administrator, and at its *)
(* start for the administrator its environment names.                      *)
(***************************************************************************)
EXTENDS Naturals, FiniteSets

CONSTANTS
  Passwords,      \* what a password can be
  MaxUsers,       \* bound: rows ever inserted in users
  MaxVersion,     \* bound: session_version
  MaxRequests     \* bound: requests between require_user and their handler

ASSUME PasswordsAssumption == Passwords # {}
ASSUME UsersAssumption ==
  MaxUsers \in Nat \ {0} /\ MaxVersion \in Nat \ {0} /\ MaxRequests \in Nat

VARIABLES
  users,      \* the table; ids are AUTOINCREMENT
  handed,     \* sessions handed out by logins, with what the user was at the time
  requests    \* authenticated requests whose handler has not run

vars == <<users, handed, requests>>

Ids == 1 .. MaxUsers
Roles == {"user", "admin"}

\* Mutant: session_version has no default of 1.
RowUnversioned(state, role, password) ==
  [state |-> state, role |-> role, enabled |-> state = "there", version |-> 0,
   password |-> password]

\* What an INSERT leaves, or (gone, none) that there is no row.
Row(state, role, password) ==
  [state |-> state, role |-> role, enabled |-> state = "there", version |-> 1,
   password |-> password]
AnyPassword == CHOOSE p \in Passwords : TRUE
NoUser == Row("none", "user", AnyPassword)

Init ==
  /\ users = [u \in Ids |-> IF u = 1 THEN Row("there", "admin", AnyPassword) ELSE NoUser]
  /\ handed = {} /\ requests = {}

-----------------------------------------------------------------------------
(* Decisions of the code                                                   *)

There(u) == users[u].state = "there"

\* Mutant: a row id is used again.
FreedId(u) == users[u].state # "there" /\ \A w \in Ids : w < u => There(w)

\* The id that the next INSERT gets.
NextId(u) == users[u].state = "none" /\ \A w \in Ids : w < u => users[w].state # "none"

\* require_user and session_state
Valid(s) == There(s.user) /\ users[s.user].enabled /\ users[s.user].version = s.version

\* Mutant: the handlers forget whom they must not touch.
AnyoneThere(u) == There(u)

\* reset_user_password, update_user_status and delete_user leave administrators alone.
Manageable(u) == There(u) /\ users[u].role # "admin"

\* Mutant: a promotion is no reason to end sessions.
PasswordChanged(u, p) == users[u].password # p \/ ~users[u].enabled

\* session_changed in _ensure_admin
SessionChanged(u, p) ==
  users[u].password # p \/ users[u].role # "admin" \/ ~users[u].enabled

Bumped(u, changed) == users[u].version + (IF changed THEN 1 ELSE 0)

-----------------------------------------------------------------------------
(* Logins and requests                                                     *)

\* The password is right and the user enabled.  Logging out empties the cookie of
\* one browser and changes nothing here: the session it named stays good.
Login(u) ==
  /\ There(u) /\ users[u].enabled
  /\ handed' = handed \cup {[user |-> u, version |-> users[u].version,
                             password |-> users[u].password, role |-> users[u].role]}
  /\ UNCHANGED <<users, requests>>

\* require_user hands the row it has read to the handler.
Request(s) ==
  /\ s \in handed /\ Valid(s) /\ Cardinality(requests) < MaxRequests
  /\ requests' = requests \cup {[user |-> s.user, role |-> users[s.user].role]}
  /\ UNCHANGED <<users, handed>>

\* The handler r has run.
Handled(r) == r \in requests /\ requests' = requests \ {r}

\* It only reads, or refuses what it was asked.
Answer(r) == Handled(r) /\ UNCHANGED <<users, handed>>

\* require_admin
Admin(r) == r \in requests /\ r.role = "admin"

CreateUser(r, u, p) ==
  /\ Admin(r) /\ NextId(u)
  /\ users' = [users EXCEPT ![u] = Row("there", "user", p)]
  /\ Handled(r) /\ UNCHANGED handed

\* The new password may be the old one.
ResetPassword(r, u, p) ==
  /\ Admin(r) /\ Manageable(u) /\ Bumped(u, TRUE) <= MaxVersion
  /\ users' = [users EXCEPT ![u].password = p, ![u].version = Bumped(u, TRUE)]
  /\ Handled(r) /\ UNCHANGED handed

SetEnabled(r, u, enabled) ==
  LET version == Bumped(u, users[u].enabled # enabled)
  IN  /\ Admin(r) /\ Manageable(u) /\ version <= MaxVersion
      /\ users' = [users EXCEPT ![u].enabled = enabled, ![u].version = version]
      /\ Handled(r) /\ UNCHANGED handed

DeleteUser(r, u) ==
  /\ Admin(r) /\ Manageable(u)
  /\ users' = [users EXCEPT ![u] = Row("gone", "user", AnyPassword)]
  /\ Handled(r) /\ UNCHANGED handed

\* The web process is restarted: Store.initialize calls _ensure_admin with the
\* name of a user or a new one, and the password of the environment.
WebRestart(u, p) ==
  /\ There(u) \/ NextId(u)
  /\ There(u) => Bumped(u, SessionChanged(u, p)) <= MaxVersion
  /\ users' = [users EXCEPT ![u] =
       [Row("there", "admin", p) EXCEPT
          !.version = IF There(u) THEN Bumped(u, SessionChanged(u, p)) ELSE @]]
  /\ requests' = {}
  /\ UNCHANGED handed

-----------------------------------------------------------------------------
Administration(r) ==
  \E u \in Ids :
    \/ \E p \in Passwords : CreateUser(r, u, p) \/ ResetPassword(r, u, p)
    \/ \E enabled \in BOOLEAN : SetEnabled(r, u, enabled)
    \/ DeleteUser(r, u)

Next ==
  \/ \E u \in Ids : Login(u) \/ \E p \in Passwords : WebRestart(u, p)
  \/ \E s \in handed : Request(s)
  \/ \E r \in requests : Answer(r) \/ Administration(r)

Spec == Init /\ [][Next]_vars

-----------------------------------------------------------------------------
(* Properties                                                              *)

\* Every variable holds a value of its type.
TypeOK ==
  /\ users \in [Ids -> [state : {"none", "there", "gone"}, role : Roles, enabled : BOOLEAN,
                        version : 1 .. MaxVersion, password : Passwords]]
  /\ handed \subseteq [user : Ids, version : 1 .. MaxVersion, password : Passwords,
                       role : Roles]
  /\ requests \subseteq [user : Ids, role : Roles]

\* README: "Password resets and account status changes invalidate existing login
\* sessions."  A session that stopped being good, by a reset, a status change, a
\* deletion or a restart with another environment, is never good again, whatever
\* is undone or created later.
SessionsStayDead == [][\A s \in handed : ~Valid(s) => ~Valid(s)']_users

\* A good session was opened with the password the user has now and for the role
\* the user has now, through resets, promotions and changes of the environment.
SessionsAreCurrent ==
  \A s \in handed :
    Valid(s) => users[s.user].password = s.password /\ users[s.user].role = s.role

\* Somebody can administer the service: no request in flight, however old, takes
\* the last administrator away.
AdminStays == \E u \in Ids : There(u) /\ users[u].enabled /\ users[u].role = "admin"

=============================================================================
