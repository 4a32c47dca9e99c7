------------------------- MODULE TokenRotationProofs -------------------------
(***************************************************************************)
(* Safety of token rotation for any number of grants, rotations, retries   *)
(* and restarts: the lock of an account keeps the stored token the newest  *)
(* of its grant, and a fresh one from being rotated again.                 *)
(***************************************************************************)
EXTENDS TokenRotation, TLAPS

Row ==
  [client : Grants, token : Grants \X Rotations,
   access : {"none", "valid", "expired"}, recent : BOOLEAN,
   due : {"due", "later", "never"}, status : {"pending", "active", "error", "invalid"}]
RequestRow ==
  [client : 0 .. MaxGrants, token : (0 .. MaxGrants) \X Rotations,
   usable : BOOLEAN, answer : {"none", "access", "tokens", "refused"}]
CallRow ==
  [pc : {"idle", "start", "wait", "request", "imap", "failed"},
   mode : Modes, tries : 0 .. Retries, permanent : BOOLEAN, request : RequestRow]

\* The lock of the account.
OneRequest == \A c, d \in Callers : At(c, "request") /\ At(d, "request") => c = d

\* A request was made of credentials the row had, and while it is out nobody
\* else makes the row's token a fresh one.
Requested ==
  \A c \in Callers : At(c, "request") =>
    /\ call[c].request.token[1] \in 1 .. granted
    /\ ~Reusable

\* Microsoft has issued what the row holds, and nothing later than what an
\* answer on its way carries.
Known ==
  /\ row.token[1] \in 1 .. granted
  /\ row.token[2] <= issued[row.token[1]]
  /\ \A c \in Callers : At(c, "request") /\ call[c].request.answer = "tokens" =>
       call[c].request.token[2] = issued[call[c].request.token[1]]

TokenInv == TypeOK /\ OneRequest /\ Requested /\ Known

-----------------------------------------------------------------------------
(* Types                                                                   *)

\* TypeOK with the types of this module.
LEMMA Types ==
  TypeOK <=> /\ row \in Row /\ granted \in Grants
             /\ issued \in [Grants -> Rotations] /\ revoked \subseteq Grants
             /\ queue \subseteq {"rotate", "poll"}
             /\ call \in [Callers -> CallRow] /\ restarts \in Nat
  BY DEF TypeOK, Row, CallRow, RequestRow

\* What a call starts from, and what an import writes, has its type.
LEMMA IdleTypes ==
  /\ NoRequest \in RequestRow /\ Idle \in CallRow /\ Idle.pc = "idle"
  /\ \A m \in Modes : [Idle EXCEPT !.pc = "start", !.mode = m] \in CallRow
  /\ \A g \in Grants : Imported(g) \in Row
  /\ \A g \in Grants : Imported(g).token = <<g, 0>> /\ ~Imported(g).recent
<1>a. 0 \in Rotations /\ 0 \in 0 .. Retries /\ 0 \in 0 .. MaxGrants
  BY BoundsAssumption DEF Rotations
<1>1. NoRequest \in RequestRow
  BY <1>a DEF NoRequest, RequestRow
<1>2. Idle \in CallRow /\ Idle.pc = "idle"
  BY <1>1, <1>a DEF Idle, CallRow, Modes
<1>3. \A m \in Modes : [Idle EXCEPT !.pc = "start", !.mode = m] \in CallRow
  BY <1>2 DEF CallRow
<1>4. \A g \in Grants : Imported(g) \in Row /\ Imported(g).token = <<g, 0>> /\ ~Imported(g).recent
  BY <1>a DEF Imported, Row
<1> QED BY <1>1, <1>2, <1>3, <1>4

\* A caller whose program counter moves.
LEMMA Moved ==
  ASSUME call \in [Callers -> CallRow], NEW c \in Callers,
         NEW p \in {"idle", "start", "wait", "imap", "failed"}, Goto(c, p)
  PROVE  /\ call' \in [Callers -> CallRow] /\ call'[c].pc # "request"
         /\ \A d \in Callers : d # c => call'[d] = call[d]
<1>1. [call[c] EXCEPT !.pc = p] \in CallRow /\ [call[c] EXCEPT !.pc = p].pc = p
  BY DEF CallRow
<1>2. call' = [call EXCEPT ![c] = [call[c] EXCEPT !.pc = p]]
  BY DEF Goto
<1> QED BY <1>1, <1>2

\* A caller that leaves the lock, by any of the ends of a call.
LEMMA Released ==
  ASSUME call \in [Callers -> CallRow], NEW c \in Callers,
         EndOf(c) \/ Served(c) \/ Unserved(c) \/ \E permanent \in BOOLEAN : GivesUp(c, permanent)
  PROVE  /\ call' \in [Callers -> CallRow] /\ call'[c].pc # "request"
         /\ \A d \in Callers : d # c => call'[d] = call[d]
<1> DEFINE Goal == /\ call' \in [Callers -> CallRow] /\ call'[c].pc # "request"
                   /\ \A d \in Callers : d # c => call'[d] = call[d]
<1>a. \A r \in CallRow : (r.pc # "request" /\ call' = [call EXCEPT ![c] = r]) => Goal
  OBVIOUS
<1>b. call[c] \in CallRow /\ NoRequest \in RequestRow /\ Idle \in CallRow /\ Idle.pc = "idle"
  BY IdleTypes
<1>1. CASE EndOf(c)
  BY <1>1, <1>a, <1>b DEF EndOf
<1>2. CASE Served(c)
  <2> DEFINE r == [call[c] EXCEPT !.pc = "imap", !.request = NoRequest]
  <2>1. r \in CallRow /\ r.pc = "imap"
    BY <1>b DEF CallRow
  <2>2. EndOf(c) \/ call' = [call EXCEPT ![c] = r]
    BY <1>2, <1>b DEF Served
  <2> HIDE DEF r
  <2> QED BY <1>1, <1>a, <2>1, <2>2
<1>3. ASSUME NEW permanent \in BOOLEAN, GivesUp(c, permanent) PROVE Goal
  <2> DEFINE r == [call[c] EXCEPT !.pc = "failed", !.request = NoRequest, !.permanent = permanent]
  <2>1. r \in CallRow /\ r.pc = "failed"
    BY <1>b DEF CallRow
  <2>2. EndOf(c) \/ call' = [call EXCEPT ![c] = r]
    BY <1>3, <1>b DEF GivesUp
  <2> HIDE DEF r
  <2> QED BY <1>1, <1>a, <2>1, <2>2
<1>4. CASE Unserved(c)
  <2>1. CASE c = "sync" /\ call[c].mode # "poll" /\ call[c].tries < Retries
    <3> DEFINE r == [call[c] EXCEPT !.pc = "start", !.request = NoRequest, !.tries = @ + 1]
    <3>1. call[c].tries + 1 \in 0 .. Retries
      BY <1>b, <2>1, BoundsAssumption DEF CallRow
    <3>2. r \in CallRow /\ r.pc = "start"
      BY <1>b, <3>1 DEF CallRow
    <3>3. call' = [call EXCEPT ![c] = r]
      BY <1>4, <1>b, <2>1 DEF Unserved
    <3> HIDE DEF r
    <3> QED BY <1>a, <3>2, <3>3
  <2>2. CASE ~(c = "sync" /\ call[c].mode # "poll" /\ call[c].tries < Retries)
    BY <1>3, <1>4, <2>2 DEF Unserved
  <2> QED BY <2>1, <2>2
<1> QED BY <1>1, <1>2, <1>3, <1>4

\* What Microsoft's answer, or the making of a request, does to a call.
LEMMA Asked ==
  ASSUME call \in [Callers -> CallRow], NEW c \in Callers, NEW r \in RequestRow,
         call' = [call EXCEPT ![c].pc = "request", ![c].request = r]
  PROVE  /\ call' \in [Callers -> CallRow]
         /\ call'[c].pc = "request" /\ call'[c].request = r
         /\ \A d \in Callers : d # c => call'[d] = call[d]
<1> DEFINE n == [call[c] EXCEPT !.pc = "request", !.request = r]
<1>1. n \in CallRow /\ n.pc = "request" /\ n.request = r
  BY DEF CallRow
<1>2. call' = [call EXCEPT ![c] = n]
  OBVIOUS
<1> HIDE DEF n
<1> QED BY <1>1, <1>2

\* What the actions do to the row.
LEMMA RowTypes ==
  ASSUME row \in Row
  PROVE  /\ \A t \in Grants \X Rotations :
              WithTokens(t) \in Row /\ WithTokens(t).token = t
         /\ \A s \in {"pending", "active", "error", "invalid"}, d \in {"due", "later", "never"} :
              LET r == [row EXCEPT !.status = s, !.due = d]
              IN  r \in Row /\ r.token = row.token /\ r.access = row.access
                    /\ r.recent = row.recent
         /\ \A s \in {"pending", "active", "error", "invalid"} :
              LET r == [row EXCEPT !.status = s]
              IN  r \in Row /\ r.token = row.token /\ r.access = row.access
                    /\ r.recent = row.recent
         /\ LET r == [row EXCEPT !.access = "expired"]
            IN  r \in Row /\ r.token = row.token /\ r.access = "expired"
         /\ LET r == [row EXCEPT !.recent = FALSE]
            IN  r \in Row /\ r.token = row.token /\ ~r.recent
         /\ LET r == [row EXCEPT !.due = "due"]
            IN  r \in Row /\ r.token = row.token /\ r.access = row.access
                  /\ r.recent = row.recent
  BY DEF Row, WithTokens

\* The steps that neither make a request, nor give tokens, nor answer: a caller
\* may leave the lock, the row keeps its token and does not become fresh.
Quiet ==
  /\ row' \in Row /\ call' \in [Callers -> CallRow]
  /\ row'.token = row.token
  /\ row'.access = "valid" /\ row'.recent => Reusable
  /\ \A c \in Callers : call'[c].pc = "request" => call'[c] = call[c]
  /\ UNCHANGED <<granted, issued>>
  /\ revoked' \subseteq Grants /\ queue' \subseteq {"rotate", "poll"} /\ restarts' \in Nat

\* A step that leaves grants, tokens and requests alone keeps the invariant.
LEMMA QuietStep ==
  ASSUME TokenInv, Quiet
  PROVE  TokenInv'
<1> USE DEF TokenInv
<1>1. TypeOK'
  <2>1. row \in Row /\ granted \in Grants /\ issued \in [Grants -> Rotations]
    BY Types
  <2>2. /\ row' \in Row /\ granted' \in Grants
        /\ issued' \in [Grants -> Rotations] /\ revoked' \subseteq Grants
        /\ queue' \subseteq {"rotate", "poll"}
        /\ call' \in [Callers -> CallRow] /\ restarts' \in Nat
    BY <2>1 DEF Quiet
  <2> QED BY <2>2 DEF TypeOK, Row, CallRow, RequestRow
<1>2. OneRequest'
  BY DEF Quiet, OneRequest, At
<1>3. Requested'
  BY DEF Quiet, Requested, At, Reusable
<1>4. Known'
  BY DEF Quiet, Known, At
<1> QED BY <1>1, <1>2, <1>3, <1>4

-----------------------------------------------------------------------------
(* The steps                                                               *)

\* So do the queue, the sessions and a restart.
LEMMA QuietWorker ==
  ASSUME TokenInv,
         \/ EnqueueRotation \/ EnqueuePoll \/ TakeRotation \/ Session \/ Restart
         \/ \E mode \in Modes \ {"rotate"} : BeginSync(mode)
  PROVE  Quiet
<1>a. /\ row \in Row /\ call \in [Callers -> CallRow] /\ "sync" \in Callers /\ "rotate" \in Callers
      /\ revoked \subseteq Grants /\ queue \subseteq {"rotate", "poll"} /\ restarts \in Nat
  BY Types DEF TokenInv, Callers
<1> USE <1>a DEF Quiet, microsoft
<1>1. CASE EnqueueRotation \/ EnqueuePoll
  BY <1>1 DEF EnqueueRotation, EnqueuePoll, Reusable
<1>2. CASE TakeRotation
  BY <1>2, Moved DEF TakeRotation, Reusable
<1>3. CASE GetAccessToken
  <2>1. CASE row.access = "valid"
    BY <1>3, <2>1, Released DEF GetAccessToken, Reusable
  <2>2. CASE row.access # "valid"
    BY <1>3, <2>2, Moved DEF GetAccessToken, Reusable
  <2> QED BY <2>1, <2>2
<1>4. CASE ImapSucceeds
  <2>1. /\ row' \in Row /\ row'.token = row.token /\ row'.access = row.access
        /\ row'.recent = row.recent
    BY <1>4, RowTypes DEF ImapSucceeds, Working, Row
  <2>2. EndOf("sync") /\ UNCHANGED <<queue, issued, revoked, granted, restarts>>
    BY <1>4 DEF ImapSucceeds
  <2> QED BY <2>1, <2>2, Released DEF Reusable
<1>5. CASE ImapFails
  BY <1>5, Released DEF ImapFails, Reusable
<1>6. CASE MarkFailure
  <2>1. /\ row' \in Row /\ row'.token = row.token /\ row'.access = row.access
        /\ row'.recent = row.recent
    <3>1. Verdict(call["sync"].permanent) \in {"pending", "active", "error", "invalid"}
      BY DEF Verdict
    <3> QED BY <1>6, <3>1, RowTypes DEF MarkFailure
  <2>2. EndOf("sync") /\ UNCHANGED <<queue, issued, revoked, granted, restarts>>
    BY <1>6 DEF MarkFailure
  <2> QED BY <2>1, <2>2, Released DEF Reusable
<1>7. CASE Restart
  <2>1. /\ call' = [c \in Callers |-> Idle] /\ queue' = {} /\ restarts' = restarts + 1
        /\ UNCHANGED <<row, issued, revoked, granted>>
    BY <1>7 DEF Restart
  <2>2. /\ call' \in [Callers -> CallRow]
        /\ \A c \in Callers : call'[c].pc # "request"
    BY <2>1, IdleTypes
  <2> QED BY <2>1, <2>2 DEF Reusable
<1>8. ASSUME NEW mode \in Modes \ {"rotate"}, BeginSync(mode) PROVE Quiet
  <2> DEFINE r == [Idle EXCEPT !.pc = "start", !.mode = mode]
  <2>1. r \in CallRow /\ r.pc = "start"
    BY IdleTypes DEF CallRow
  <2>2. /\ call' = [call EXCEPT !["sync"] = r] /\ queue' \subseteq {"rotate", "poll"}
        /\ UNCHANGED <<row, issued, revoked, granted, restarts>>
    BY <1>8 DEF BeginSync
  <2> HIDE DEF r
  <2>3. /\ call' \in [Callers -> CallRow]
        /\ \A c \in Callers : call'[c].pc = "request" => call'[c] = call[c]
    BY <2>1, <2>2
  <2> QED BY <2>2, <2>3 DEF Reusable
<1> QED BY <1>1, <1>2, <1>3, <1>4, <1>5, <1>6, <1>7, <1>8 DEF Session

\* So do time and a revocation.
LEMMA QuietTime ==
  ASSUME TokenInv, Time \/ \E g \in Grants : Revoke(g)
  PROVE  Quiet
<1>a. /\ row \in Row /\ call \in [Callers -> CallRow]
      /\ revoked \subseteq Grants /\ queue \subseteq {"rotate", "poll"} /\ restarts \in Nat
  BY Types DEF TokenInv
<1>1. CASE AccessExpires
  BY <1>1, <1>a, RowTypes DEF AccessExpires, Quiet, microsoft
<1>2. CASE QuarterPasses
  BY <1>2, <1>a, RowTypes DEF QuarterPasses, Quiet, microsoft
<1>3. CASE FallsDue
  BY <1>3, <1>a, RowTypes DEF FallsDue, Quiet, Reusable, microsoft
<1>4. CASE \E g \in Grants : Revoke(g)
  BY <1>4, <1>a DEF Revoke, Quiet, Reusable
<1> QED BY <1>1, <1>2, <1>3, <1>4 DEF Time

\* A call that ends without tokens.
LEMMA QuietEnds ==
  ASSUME TokenInv, NEW c \in Callers, Refused(c) \/ \E usable \in BOOLEAN : Unanswered(c, usable)
  PROVE  Quiet
<1>a. /\ row \in Row /\ call \in [Callers -> CallRow]
      /\ revoked \subseteq Grants /\ queue \subseteq {"rotate", "poll"} /\ restarts \in Nat
  BY Types DEF TokenInv
<1>1. CASE Refused(c)
  <2>1. row' = [row EXCEPT !.status = "invalid", !.due = "never"]
        /\ GivesUp(c, TRUE) /\ UNCHANGED <<queue, issued, revoked, granted, restarts>>
    BY <1>1 DEF Refused, Verdict, microsoft
  <2>2. /\ call' \in [Callers -> CallRow] /\ call'[c].pc # "request"
        /\ \A d \in Callers : d # c => call'[d] = call[d]
    BY <1>a, <2>1, Released
  <2> QED BY <1>a, <2>1, <2>2, RowTypes DEF Quiet, Reusable
<1>2. ASSUME NEW usable \in BOOLEAN, Unanswered(c, usable) PROVE Quiet
  <2>1. /\ row' = [row EXCEPT !.status = IF usable THEN "active" ELSE "error", !.due = "later"]
        /\ Unserved(c) /\ UNCHANGED <<queue, issued, revoked, granted, restarts>>
    BY <1>2 DEF Unanswered, Verdict, microsoft
  <2>2. /\ call' \in [Callers -> CallRow] /\ call'[c].pc # "request"
        /\ \A d \in Callers : d # c => call'[d] = call[d]
    BY <1>a, <2>1, Released
  <2>3. PICK s \in {"active", "error"} : s = IF usable THEN "active" ELSE "error"
    OBVIOUS
  <2>4. row' = [row EXCEPT !.status = s, !.due = "later"]
    BY <2>1, <2>3
  <2>5. /\ row' \in Row /\ row'.token = row.token /\ row'.access = row.access
        /\ row'.recent = row.recent
    BY <1>a, <2>4, RowTypes
  <2> QED BY <1>a, <2>1, <2>2, <2>5 DEF Quiet, Reusable
<1> QED BY <1>1, <1>2

\* A call that ends with tokens: the row's token is one of the same grant that
\* is not older, or of the grant the request was made for.
LEMMA RotatedStep ==
  ASSUME TokenInv, NEW c \in Callers, Rotated(c)
  PROVE  /\ TokenInv'
         /\ row'.token[1] = row.token[1] => row'.token[2] >= row.token[2]
         /\ row'.token # row.token => ~Reusable
<1> USE DEF TokenInv
<1>a. /\ row \in Row /\ call \in [Callers -> CallRow] /\ granted \in Grants
      /\ issued \in [Grants -> Rotations] /\ revoked \subseteq Grants
      /\ queue \subseteq {"rotate", "poll"} /\ restarts \in Nat
  BY Types
<1>b. 1 .. granted \subseteq Grants /\ granted \in Nat /\ Rotations \subseteq Nat
  BY <1>a, BoundsAssumption DEF Grants, Rotations
<1>1. /\ At(c, "request") /\ call[c].request.answer \in {"access", "tokens"}
      /\ Served(c) /\ UNCHANGED <<queue, issued, revoked, granted, restarts>>
  BY DEF Rotated, microsoft
<1>2. call[c].request \in RequestRow
  BY <1>a DEF CallRow
<1>3. PICK t \in Grants \X Rotations :
        /\ row' = WithTokens(t)
        /\ t = IF call[c].request.answer = "tokens" THEN call[c].request.token ELSE row.token
  <2>1. call[c].request.token[1] \in Grants
    BY <1>1, <1>b DEF Requested
  <2>2. call[c].request.token \in Grants \X Rotations
    BY <1>2, <2>1 DEF RequestRow
  <2>3. row.token \in Grants \X Rotations
    BY <1>a DEF Row
  <2> QED BY <2>2, <2>3 DEF Rotated
<1>4. row' \in Row /\ row'.token = t
  BY <1>a, <1>3, RowTypes
<1>5. /\ call' \in [Callers -> CallRow] /\ call'[c].pc # "request"
      /\ \A d \in Callers : d # c => call'[d] = call[d]
  BY <1>a, <1>1, Released
<1>6. \A d \in Callers : ~At(d, "request")'
  BY <1>1, <1>5 DEF OneRequest, At
<1>7. t[1] \in 1 .. granted /\ t[2] <= issued[t[1]]
  <2>1. CASE call[c].request.answer = "tokens"
    <3>1. t[1] \in 1 .. granted /\ t[2] = issued[t[1]]
      BY <1>1, <1>3, <2>1 DEF Requested, Known
    <3>2. issued[t[1]] \in Nat
      BY <1>a, <1>b, <3>1
    <3> QED BY <3>1, <3>2
  <2>2. CASE call[c].request.answer # "tokens"
    BY <1>3, <2>2 DEF Known
  <2> QED BY <2>1, <2>2
<1>8. TypeOK'
  BY <1>a, <1>1, <1>4, <1>5 DEF TypeOK, Row, CallRow, RequestRow
<1>9. OneRequest' /\ Requested' /\ Known'
  BY <1>1, <1>4, <1>6, <1>7 DEF OneRequest, Requested, Known
<1>10. t[1] = row.token[1] => t[2] >= row.token[2]
  <2>1. CASE call[c].request.answer = "tokens"
    <3>1. t[2] = issued[t[1]]
      BY <1>1, <1>3, <2>1 DEF Known
    <3> QED BY <3>1 DEF Known
  <2>2. CASE call[c].request.answer # "tokens"
    <3>1. t[2] \in Nat /\ t = row.token
      BY <1>b, <1>3, <2>2
    <3> QED BY <3>1
  <2> QED BY <2>1, <2>2
<1>11. ~Reusable
  BY <1>1 DEF Requested
<1> QED BY <1>4, <1>8, <1>9, <1>10, <1>11

\* A caller has the lock and makes its request of the row as it is.
LEMMA RefreshStep ==
  ASSUME TokenInv, NEW c \in Callers, RefreshAccount(c)
  PROVE  TokenInv' /\ row' = row
<1> USE DEF TokenInv
<1>a. /\ row \in Row /\ call \in [Callers -> CallRow] /\ granted \in Grants
      /\ issued \in [Grants -> Rotations] /\ revoked \subseteq Grants
      /\ queue \subseteq {"rotate", "poll"} /\ restarts \in Nat
  BY Types
<1>1. UNCHANGED <<row, queue, issued, revoked, granted, restarts>>
  BY DEF RefreshAccount, microsoft
<1>2. CASE Reusable
  <2>1. Served(c)
    BY <1>2 DEF RefreshAccount
  <2>2. Quiet
    BY <1>a, <1>1, <2>1, Released DEF Quiet, Reusable
  <2> QED BY <1>1, <2>2, QuietStep
<1>3. CASE ~Reusable
  <2> DEFINE r == [client |-> row.client, token |-> row.token,
                   usable |-> row.access = "valid", answer |-> "none"]
  <2>1. call' = [call EXCEPT ![c].pc = "request", ![c].request = r]
    BY <1>3 DEF RefreshAccount
  <2>2. r \in RequestRow /\ r.token = row.token /\ r.answer = "none"
    <3>1. Grants \subseteq 0 .. MaxGrants
      BY BoundsAssumption DEF Grants
    <3>2. row.client \in 0 .. MaxGrants /\ row.token \in (0 .. MaxGrants) \X Rotations
      BY <1>a, <3>1 DEF Row
    <3> QED BY <3>2 DEF RequestRow
  <2> HIDE DEF r
  <2>3. /\ call' \in [Callers -> CallRow]
        /\ call'[c].pc = "request" /\ call'[c].request = r
        /\ \A d \in Callers : d # c => call'[d] = call[d]
    BY <1>a, <2>1, <2>2, Asked
  <2>4. \A d \in Callers : call'[d].pc = "request" => d = c
    BY <2>3 DEF RefreshAccount, LockFree
  <2>5. TypeOK'
    BY <1>a, <1>1, <2>3 DEF TypeOK, Row, CallRow, RequestRow
  <2>6. OneRequest'
    BY <2>4 DEF OneRequest, At
  <2>7. Requested'
    BY <1>1, <1>3, <2>2, <2>3, <2>4 DEF Requested, Known, At, Reusable
  <2>8. Known'
    BY <1>1, <2>2, <2>3, <2>4 DEF Known, At
  <2> QED BY <1>1, <2>5, <2>6, <2>7, <2>8
<1> QED BY <1>2, <1>3

\* Microsoft's answer to a request.
LEMMA AnswerStep ==
  ASSUME TokenInv, NEW c \in Callers, Refuse(c) \/ \E n \in Rotations : Issue(c, n)
  PROVE  TokenInv' /\ row' = row
<1> USE DEF TokenInv
<1>a. /\ row \in Row /\ call \in [Callers -> CallRow] /\ granted \in Grants
      /\ issued \in [Grants -> Rotations] /\ revoked \subseteq Grants
      /\ queue \subseteq {"rotate", "poll"} /\ restarts \in Nat
  BY Types
<1>b. 1 .. granted \subseteq Grants /\ granted \in Nat /\ Rotations \subseteq Nat
  BY <1>a, BoundsAssumption DEF Grants, Rotations
<1> DEFINE q == call[c].request
           g == call[c].request.token[1]
<1>1. At(c, "request") /\ UNCHANGED <<row, queue, revoked, granted, restarts>>
  BY DEF Refuse, Issue, microsoft
<1>2. /\ q \in RequestRow /\ g \in 1 .. granted /\ g \in Grants /\ ~Reusable
      /\ call[c].pc = "request"
  BY <1>a, <1>b, <1>1 DEF Requested, CallRow, At
\* What the answer leaves of the request.
<1>3. ASSUME NEW r \in RequestRow, call' = [call EXCEPT ![c].pc = "request", ![c].request = r],
             r.token[1] = g,
             issued' \in [Grants -> Rotations],
             \A h \in Grants : issued'[h] >= issued[h],
             r.answer = "tokens" => r.token[2] = issued'[g]
      PROVE  TokenInv' /\ row' = row
  <2>1. /\ call' \in [Callers -> CallRow]
        /\ call'[c].pc = "request" /\ call'[c].request = r
        /\ \A d \in Callers : d # c => call'[d] = call[d]
    BY <1>a, <1>3, Asked
  <2>2. \A d \in Callers : call'[d].pc = "request" => d = c
    BY <1>1, <2>1 DEF OneRequest, At
  <2>3. TypeOK'
    BY <1>a, <1>1, <1>3, <2>1 DEF TypeOK, Row, CallRow, RequestRow
  <2>4. OneRequest' /\ Requested'
    BY <1>1, <1>2, <1>3, <2>1, <2>2 DEF OneRequest, Requested, At, Reusable
  <2>5. Known'
    <3>1. row.token[2] <= issued'[row.token[1]]
      <4>1. PICK h \in Grants : h = row.token[1]
        BY <1>b DEF Known
      <4>2. row.token[2] \in Nat /\ issued[h] \in Nat /\ issued'[h] \in Nat
        BY <1>a, <1>b, <1>3, <4>1 DEF Row
      <4>3. row.token[2] <= issued[h] /\ issued[h] <= issued'[h]
        BY <1>3, <4>1 DEF Known
      <4> QED BY <4>1, <4>2, <4>3
    <3> QED BY <1>1, <1>3, <2>1, <2>2, <3>1 DEF Known, At
  <2> QED BY <1>1, <2>3, <2>4, <2>5
<1>4. CASE Refuse(c)
  <2> DEFINE r == [q EXCEPT !.answer = "refused"]
  <2>1. r \in RequestRow /\ r.token = q.token /\ r.answer = "refused"
    BY <1>2 DEF RequestRow
  <2>2. call' = [call EXCEPT ![c].pc = "request", ![c].request = r] /\ issued' = issued
    <3>1. call' = [call EXCEPT ![c].request.answer = "refused"] /\ issued' = issued
      BY <1>4 DEF Refuse, microsoft
    <3>2. [call[c] EXCEPT !.pc = "request", !.request = r]
            = [call[c] EXCEPT !.request.answer = "refused"]
      BY <1>a, <1>2 DEF CallRow
    <3> QED BY <1>a, <3>1, <3>2
  <2>3. \A h \in Grants : issued'[h] >= issued[h]
    BY <1>a, <1>b, <2>2
  <2> HIDE DEF r
  <2> QED BY <1>a, <1>3, <2>1, <2>2, <2>3
<1>5. ASSUME NEW n \in Rotations, Issue(c, n) PROVE TokenInv' /\ row' = row
  <2> DEFINE a == IF n = issued[g] THEN "access" ELSE "tokens"
             r == [q EXCEPT !.answer = a, !.token = <<g, n>>]
  <2>1. /\ n \in {issued[g], issued[g] + 1} /\ issued' = [issued EXCEPT ![g] = n]
        /\ call' = [call EXCEPT ![c].request.answer = a, ![c].request.token = <<g, n>>]
    BY <1>5 DEF Issue
  <2>2. r \in RequestRow /\ r.token[1] = g /\ r.token[2] = n
    <3>1. a \in {"none", "access", "tokens", "refused"}
      OBVIOUS
    <3>2. <<g, n>> \in (0 .. MaxGrants) \X Rotations
      BY <1>2 DEF RequestRow
    <3> HIDE DEF a
    <3> QED BY <1>2, <3>1, <3>2 DEF RequestRow
  <2>3. call' = [call EXCEPT ![c].pc = "request", ![c].request = r]
    <3> HIDE DEF a
    <3>1. [call[c] EXCEPT !.pc = "request", !.request = r]
            = [call[c] EXCEPT !.request.answer = a, !.request.token = <<g, n>>]
      BY <1>a, <1>2 DEF CallRow
    <3> QED BY <1>a, <2>1, <3>1
  <2>4. issued' \in [Grants -> Rotations] /\ issued'[g] = n
    BY <1>a, <1>2, <2>1
  <2>5. \A h \in Grants : issued'[h] >= issued[h]
    <3>1. issued[g] \in Nat /\ n >= issued[g]
      BY <1>a, <1>b, <1>2, <2>1
    <3> QED BY <1>a, <1>b, <1>2, <2>1, <3>1
  <2> HIDE DEF r, a
  <2> QED BY <1>3, <2>2, <2>3, <2>4, <2>5
<1> QED BY <1>4, <1>5

\* The owner gives other credentials: a grant of its own.
LEMMA ImportStep ==
  ASSUME TokenInv, Import
  PROVE  TokenInv' /\ row'.token[1] # row.token[1]
<1> USE DEF TokenInv
<1>a. /\ row \in Row /\ call \in [Callers -> CallRow] /\ granted \in Grants
      /\ issued \in [Grants -> Rotations] /\ revoked \subseteq Grants
      /\ queue \subseteq {"rotate", "poll"} /\ restarts \in Nat
  BY Types
<1>b. Rotations \subseteq Nat /\ granted \in Nat /\ 0 \in Rotations
  BY <1>a, BoundsAssumption DEF Grants, Rotations
<1>1. /\ granted' = granted + 1 /\ row' = Imported(granted') /\ granted' \in Grants
      /\ UNCHANGED <<queue, call, issued, revoked, restarts>>
  BY <1>a, BoundsAssumption DEF Import, microsoft, Grants
<1>2. row' \in Row /\ row'.token = <<granted', 0>> /\ ~row'.recent
  BY <1>1, IdleTypes
<1>3. TypeOK'
  BY <1>a, <1>1, <1>2 DEF TypeOK, Row, CallRow, RequestRow
<1>4. OneRequest'
  BY <1>1 DEF OneRequest, At
<1>5. Requested'
  BY <1>b, <1>1, <1>2 DEF Requested, At, Reusable
<1>6. Known'
  <2>1. issued[granted'] \in Nat
    BY <1>a, <1>b, <1>1
  <2> QED BY <1>b, <1>1, <1>2, <2>1 DEF Known, At
<1>7. row'.token[1] # row.token[1]
  BY <1>b, <1>1, <1>2 DEF Known
<1> QED BY <1>3, <1>4, <1>5, <1>6, <1>7

\* A step keeps the invariant; the token it stores on a grant is not older, and
\* replaces none that is fresh.
LEMMA TokenStep ==
  ASSUME TokenInv, [Next]_tokenVars
  PROVE  /\ TokenInv'
         /\ row'.token[1] = row.token[1] => row'.token[2] >= row.token[2]
         /\ row'.token[1] = row.token[1] /\ row'.token # row.token => ~Reusable
<1>a. row.token[2] >= row.token[2]
  <2>1. row.token[2] \in Rotations
    BY Types DEF TokenInv, Row
  <2> QED BY <2>1, BoundsAssumption DEF Rotations
<1>1. CASE Quiet
  <2>1. row'.token = row.token
    BY <1>1 DEF Quiet
  <2> QED BY <1>a, <1>1, <2>1, QuietStep
<1>2. CASE UNCHANGED tokenVars
  <2>1. Quiet
    BY <1>2, Types DEF tokenVars, Quiet, TokenInv, Reusable
  <2> QED BY <1>1, <2>1
<1>3. CASE Import
  BY <1>3, ImportStep
<1>4. ASSUME NEW c \in Callers, Rotated(c)
      PROVE  /\ TokenInv'
             /\ row'.token[1] = row.token[1] => row'.token[2] >= row.token[2]
             /\ row'.token # row.token => ~Reusable
  BY <1>4, RotatedStep
<1>5. ASSUME NEW c \in Callers, RefreshAccount(c) PROVE TokenInv' /\ row' = row
  BY <1>5, RefreshStep
<1>6. ASSUME NEW c \in Callers, Refuse(c) \/ \E n \in Rotations : Issue(c, n)
      PROVE  TokenInv' /\ row' = row
  BY <1>6, AnswerStep
<1> QED BY <1>a, <1>1, <1>2, <1>3, <1>4, <1>5, <1>6, QuietWorker, QuietTime, QuietEnds
           DEF Next, Worker, Microsoft, Ends

\* The inductive invariant of token rotation.
THEOREM TokensCorrect == Spec => []TokenInv
<1>1. Init => TokenInv
  <2> SUFFICES ASSUME Init PROVE TokenInv
    OBVIOUS
  <2>1. 1 \in Grants /\ 0 \in Rotations
    BY BoundsAssumption DEF Grants, Rotations
  <2>2. Imported(1) \in Row /\ Imported(1).token = <<1, 0>>
    BY <2>1, IdleTypes
  <2>3. TypeOK
    BY <2>1, <2>2, IdleTypes, Types DEF Init
  <2>4. \A c \in Callers : ~At(c, "request")
    BY IdleTypes DEF Init, At
  <2> QED BY <2>1, <2>2, <2>3, <2>4 DEF Init, TokenInv, OneRequest, Requested, Known
<1>2. TokenInv /\ [Next]_tokenVars => TokenInv'
  BY TokenStep
<1> QED BY <1>1, <1>2, PTL DEF Spec

\* Every reachable state is well typed.
THEOREM TypeCorrect == Spec => []TypeOK
<1>1. TokenInv => TypeOK
  BY DEF TokenInv
<1> QED BY <1>1, TokensCorrect, PTL

\* "Store the latest token": no step puts a refresh token in the place of one
\* that Microsoft issued later on the same grant.
THEOREM LatestTokenKept == Spec => TokenNeverOlder
<1>1. TokenInv /\ [Next]_tokenVars
        => [row'.token[1] = row.token[1] => row'.token[2] >= row.token[2]]_tokenVars
  BY TokenStep
<1> QED BY <1>1, TokensCorrect, PTL DEF Spec, TokenNeverOlder

\* A caller who waited at the lock uses what the other has just stored: automatic
\* callers replace no fresh token.
THEOREM FreshTokensKept == Spec => NoNeedlessRotation
<1>1. TokenInv /\ [Next]_tokenVars
        => [\A c \in Callers :
              At(c, "request") /\ call'[c].pc # "request" /\ call[c].mode # "full"
                /\ row'.token[1] = row.token[1] /\ row'.token # row.token
                => ~(row.access = "valid" /\ row.recent)]_tokenVars
  BY TokenStep DEF Reusable
<1> QED BY <1>1, TokensCorrect, PTL DEF Spec, NoNeedlessRotation

=============================================================================
