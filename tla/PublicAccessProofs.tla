------------------------- MODULE PublicAccessProofs -------------------------
(***************************************************************************)
(* Proofs about PublicAccess, for any owners, shares, visitors and bounds. *)
(*                                                                         *)
(* The module falls into two halves that share no variable: what owners    *)
(* and the administrator do to links, and what visitors do to challenges.  *)
(* Each half has its types and its invariant; a step of one leaves the     *)
(* other alone.                                                            *)
(***************************************************************************)
EXTENDS PublicAccess, TLAPS

ShareRow == [token : 0 .. MaxTokens, expiry : {"never", "ahead", "past"}, revoked : BOOLEAN]

LinkTypes ==
  /\ owner \in [Owners -> {"enabled", "disabled", "gone"}] /\ request \subseteq Owners
  /\ share \in [Shares -> {"none", "on", "off", "gone"}]
  /\ link \in [Shares -> ShareRow]
  /\ issued \in 0 .. MaxTokens

\* A row that exists has its mailbox and its owner, and a link has its row.
Rooted ==
  /\ \A s \in Shares : Exists(s) => Exists(Home(s)) /\ owner[OwnerOf[Home(s)]] # "gone"
  /\ \A s \in Shares : link[s].token # 0 => Exists(s)

\* The steps that leave challenges, cookies and answers alone.
Owned == Administrator \/ OwnerActs \/ (\E s \in Shares : LinkExpires(s))

-----------------------------------------------------------------------------
(* Links                                                                   *)

\* A share hangs on a mailbox, a mailbox on itself, and mailboxes have owners.
LEMMA HomeIsMailbox ==
  ASSUME NEW s \in Shares
  PROVE  /\ Home(s) \in Mailboxes /\ Home(s) \in Shares /\ Home(s) \notin Targets
         /\ Home(Home(s)) = Home(s)
         /\ OwnerOf[Home(s)] \in Owners
  BY SharesAssumption DEF Home, Shares

\* The row of no link is a row.
LEMMA NoLinkType == NoLink \in ShareRow
  BY PublicAssumption DEF NoLink, ShareRow

\* Deleting rows keeps the types, as a cascade deletes their links.
LEMMA RemovedTypes ==
  ASSUME NEW S \in SUBSET Shares, LinkTypes, Removed(S)
  PROVE  share' \in [Shares -> {"none", "on", "off", "gone"}] /\ link' \in [Shares -> ShareRow]
         /\ issued' = issued
  BY NoLinkType DEF LinkTypes, Removed, Cascade

\* Deleting rows is safe when nothing hangs on them that is kept.
LEMMA RemovedRooted ==
  ASSUME NEW S \in SUBSET Shares, LinkTypes, Rooted, Removed(S),
         \A s \in Shares : Home(s) \in S => s \in S,
         \A s \in Shares \ S : owner'[OwnerOf[Home(s)]] = owner[OwnerOf[Home(s)]]
  PROVE  Rooted'
<1>1. \A s \in Shares : Exists(s)' <=> Exists(s) /\ s \notin S
  BY DEF Removed, Exists, LinkTypes
<1>2. \A s \in Shares : link'[s].token # 0 => link[s].token # 0 /\ s \notin S
  BY DEF Removed, Cascade, NoLink, LinkTypes
<1>3. ASSUME NEW s \in Shares, Exists(s)'
      PROVE  Exists(Home(s))' /\ owner'[OwnerOf[Home(s)]] # "gone"
  BY <1>1, <1>3, HomeIsMailbox DEF Rooted
<1> QED BY <1>1, <1>2, <1>3 DEF Rooted, Home

\* Steps of owners keep the types of links ...
LEMMA LinkTypesKept ==
  ASSUME LinkTypes, Owned
  PROVE  LinkTypes'
<1> USE DEF LinkTypes
<1>1. CASE Administrator
  <2>1. ASSUME NEW u \in Owners, DeleteOwner(u) PROVE LinkTypes'
    <3> DEFINE S == {s \in Shares : OwnerOf[Home(s)] = u}
    <3>1. S \in SUBSET Shares /\ Removed(S) BY <2>1 DEF DeleteOwner
    <3> QED BY <2>1, <3>1, RemovedTypes DEF DeleteOwner
  <2>2. ASSUME NEW u \in Owners, NEW enabled \in BOOLEAN, SetOwnerEnabled(u, enabled)
        PROVE  LinkTypes'
    BY <2>2 DEF SetOwnerEnabled, links
  <2> QED BY <1>1, <2>1, <2>2 DEF Administrator
<1>2. CASE OwnerActs
  <2>1. ASSUME NEW u \in Owners, Request(u) PROVE LinkTypes'
    BY <2>1 DEF Request, links
  <2>2. ASSUME NEW m \in Mailboxes, AddMailbox(m) PROVE LinkTypes'
    BY <2>2 DEF AddMailbox, Handled
  <2>3. ASSUME NEW g \in Targets, CreateTarget(g) PROVE LinkTypes'
    BY <2>3 DEF CreateTarget, Handled
  <2>4. ASSUME NEW g \in Targets, NEW enabled \in BOOLEAN, SetTargetEnabled(g, enabled)
        PROVE  LinkTypes'
    BY <2>4 DEF SetTargetEnabled, Handled
  <2>5. ASSUME NEW s \in Shares, DeleteShare(s) PROVE LinkTypes'
    <3> DEFINE S == {s} \cup {g \in Targets : Home(g) = s}
    <3>1. S \in SUBSET Shares /\ Removed(S) BY <2>5 DEF DeleteShare, Shares
    <3> QED BY <2>5, <3>1, RemovedTypes DEF DeleteShare, Handled
  <2>6. ASSUME NEW s \in Shares, GetOrCreateLink(s) PROVE LinkTypes'
    <3>1. CASE Active(link[s]) BY <2>6, <3>1 DEF GetOrCreateLink, Handled
    <3>2. CASE ~Active(link[s])
      <4>1. NewToken(s) \in 0 .. MaxTokens
        BY <2>6, <3>2, PublicAssumption DEF GetOrCreateLink, NewToken
      <4>2. [NoLink EXCEPT !.token = NewToken(s)] \in ShareRow
        BY <4>1 DEF NoLink, ShareRow
      <4> QED BY <2>6, <3>2, <4>1, <4>2 DEF GetOrCreateLink, Handled
    <3> QED BY <3>1, <3>2
  <2>7. ASSUME NEW s \in Shares, RevokeLink(s) PROVE LinkTypes'
    BY <2>7 DEF RevokeLink, Handled, ShareRow
  <2>8. ASSUME NEW s \in Shares, NEW expiry \in {"never", "ahead"}, UpdateExpiry(s, expiry)
        PROVE  LinkTypes'
    BY <2>8 DEF UpdateExpiry, Handled, ShareRow
  <2> QED BY <1>2, <2>1, <2>2, <2>3, <2>4, <2>5, <2>6, <2>7, <2>8 DEF OwnerActs
<1>3. ASSUME NEW s \in Shares, LinkExpires(s) PROVE LinkTypes'
  BY <1>3 DEF LinkExpires, people, ShareRow
<1> QED BY <1>1, <1>2, <1>3 DEF Owned

\* ... and what they hang on.
LEMMA RootedKept ==
  ASSUME LinkTypes, Rooted, Owned
  PROVE  Rooted'
<1> USE DEF LinkTypes
<1>1. CASE Administrator
  <2>1. ASSUME NEW u \in Owners, DeleteOwner(u) PROVE Rooted'
    <3> DEFINE S == {s \in Shares : OwnerOf[Home(s)] = u}
    <3>1. S \in SUBSET Shares /\ Removed(S) BY <2>1 DEF DeleteOwner
    <3>2. \A s \in Shares : Home(s) \in S => s \in S BY HomeIsMailbox
    <3>3. \A s \in Shares \ S : owner'[OwnerOf[Home(s)]] = owner[OwnerOf[Home(s)]]
      BY <2>1, HomeIsMailbox DEF DeleteOwner
    <3> QED BY <3>1, <3>2, <3>3, RemovedRooted
  <2>2. ASSUME NEW u \in Owners, NEW enabled \in BOOLEAN, SetOwnerEnabled(u, enabled)
        PROVE  Rooted'
    BY <2>2 DEF SetOwnerEnabled, links, Rooted, Exists, Home
  <2> QED BY <1>1, <2>1, <2>2 DEF Administrator
<1>2. CASE OwnerActs
  <2>1. ASSUME NEW u \in Owners, Request(u) PROVE Rooted'
    BY <2>1 DEF Request, links, Rooted, Exists, Home
  <2>2. ASSUME NEW m \in Mailboxes, AddMailbox(m) PROVE Rooted'
    <3>1. Home(m) = m BY SharesAssumption DEF Home
    <3>2. owner' = owner /\ link' = link /\ owner[OwnerOf[m]] # "gone"
      BY <2>2 DEF AddMailbox, Handled
    <3>3. \A s \in Shares : Exists(s)' <=> (Exists(s) \/ s = m)
      BY <2>2 DEF AddMailbox, Exists, Shares
    <3> QED BY <3>1, <3>2, <3>3, HomeIsMailbox DEF Rooted, Home
  <2>3. ASSUME NEW g \in Targets, CreateTarget(g) PROVE Rooted'
    <3>1. owner' = owner /\ link' = link /\ Exists(Home(g))
      BY <2>3 DEF CreateTarget, Handled
    <3>2. \A s \in Shares : Exists(s)' <=> (Exists(s) \/ s = g)
      BY <2>3 DEF CreateTarget, Exists, Shares
    <3>3. owner[OwnerOf[Home(g)]] # "gone"
      BY <3>1, HomeIsMailbox DEF Rooted, Shares
    <3> QED BY <3>1, <3>2, <3>3, HomeIsMailbox DEF Rooted, Home
  <2>4. ASSUME NEW g \in Targets, NEW enabled \in BOOLEAN, SetTargetEnabled(g, enabled)
        PROVE  Rooted'
    <3>1. owner' = owner /\ link' = link
      BY <2>4 DEF SetTargetEnabled, Handled
    <3>2. \A s \in Shares : Exists(s)' <=> Exists(s)
      BY <2>4 DEF SetTargetEnabled, Exists, Shares
    <3> QED BY <3>1, <3>2, HomeIsMailbox DEF Rooted, Home
  <2>5. ASSUME NEW s \in Shares, DeleteShare(s) PROVE Rooted'
    <3> DEFINE S == {s} \cup {g \in Targets : Home(g) = s}
    <3>1. S \in SUBSET Shares /\ Removed(S) BY <2>5 DEF DeleteShare, Shares
    <3>2. \A w \in Shares : Home(w) \in S => w \in S
      <4> TAKE w \in Shares
      <4> HAVE Home(w) \in S
      <4>1. Home(w) = s BY HomeIsMailbox
      <4>2. w \in Targets \/ Home(w) = w BY DEF Home
      <4> QED BY <4>1, <4>2
    <3>3. owner' = owner BY <2>5 DEF DeleteShare, Handled
    <3> QED BY <3>1, <3>2, <3>3, RemovedRooted
  <2>6. ASSUME NEW s \in Shares, GetOrCreateLink(s) PROVE Rooted'
    <3>1. owner' = owner /\ share' = share /\ Exists(s)
      BY <2>6 DEF GetOrCreateLink, Handled
    <3>2. \A w \in Shares \ {s} : link'[w] = link[w]
      BY <2>6 DEF GetOrCreateLink
    <3> QED BY <3>1, <3>2 DEF Rooted, Exists, Home
  <2>7. ASSUME NEW s \in Shares, RevokeLink(s) PROVE Rooted'
    <3>1. owner' = owner /\ share' = share
      BY <2>7 DEF RevokeLink, Handled
    <3>2. \A w \in Shares : link'[w].token = link[w].token
      BY <2>7 DEF RevokeLink, ShareRow
    <3> QED BY <3>1, <3>2 DEF Rooted, Exists, Home
  <2>8. ASSUME NEW s \in Shares, NEW expiry \in {"never", "ahead"}, UpdateExpiry(s, expiry)
        PROVE  Rooted'
    <3>1. owner' = owner /\ share' = share
      BY <2>8 DEF UpdateExpiry, Handled
    <3>2. \A w \in Shares : link'[w].token = link[w].token
      BY <2>8 DEF UpdateExpiry, ShareRow
    <3> QED BY <3>1, <3>2 DEF Rooted, Exists, Home
  <2> QED BY <1>2, <2>1, <2>2, <2>3, <2>4, <2>5, <2>6, <2>7, <2>8 DEF OwnerActs
<1>3. ASSUME NEW s \in Shares, LinkExpires(s) PROVE Rooted'
  <2>1. owner' = owner /\ share' = share
    BY <1>3 DEF LinkExpires, people
  <2>2. \A w \in Shares : link'[w].token = link[w].token
    BY <1>3 DEF LinkExpires, ShareRow
  <2> QED BY <2>1, <2>2 DEF Rooted, Exists, Home
<1> QED BY <1>1, <1>2, <1>3 DEF Owned

-----------------------------------------------------------------------------
(* Challenges and cookies                                                  *)

ChallengeRow ==
  [state : {"none", "live", "gone"}, token : 0 .. MaxTokens, attempts : 0 .. MaxAttempts]
PostRow == [visitor : Visitors, token : 0 .. MaxTokens, cookie : CookieType]

CaptchaTypes ==
  /\ challenge \in [Challenges -> ChallengeRow]
  /\ tally \in [Challenges -> [right : Nat, wrong : Nat]]
  /\ cookie \in [Visitors -> CookieType]
  /\ post \in [Posts -> PostRow]

\* A handler that awaits a body knows a challenge of the link it serves.
Asking ==
  \A k \in Posts : post[k] # NoPost =>
    post[k].token \in Tokens /\ Asked(k) \in Challenges

\* A live challenge has used up as many answers as it has attempts, none of them
\* right; one that was never made has used none.
Counted(c) ==
  /\ tally[c].right <= 1 /\ tally[c].right + tally[c].wrong <= MaxAttempts
  /\ challenge[c].state # "gone" => tally[c].right = 0 /\ tally[c].wrong = challenge[c].attempts
  /\ challenge[c].state = "none" => challenge[c].attempts = 0

Tallied == \A c \in Challenges : Counted(c)

\* A cookie names challenges made for the token, and tokens a challenge was solved for.
Earned(k) ==
  \A t \in Tokens :
    /\ k.captcha[t] # 0 =>
         challenge[k.captcha[t]].state # "none" /\ challenge[k.captcha[t]].token = t
    /\ t \in k.verified =>
         \E c \in Challenges : challenge[c].token = t /\ tally[c].right > 0

AllEarned == (\A v \in Visitors : Earned(cookie[v])) /\ (\A k \in Posts : Earned(post[k].cookie))

CaptchaInv == CaptchaTypes /\ Asking /\ Tallied /\ AllEarned

\* The steps that leave links and people alone.
Visited == Public \/ (\E c \in Challenges : ChallengeExpires(c))

\* The cookie of a new visitor, and of a handler that is not there.
LEMMA NoPostType == NoCookie \in CookieType /\ NoPost \in PostRow /\ NoPost.token = 0
                    /\ NoPost.cookie = NoCookie
<1>1. NoCookie \in CookieType
  BY PublicAssumption DEF NoCookie, CookieType
<1>2. (CHOOSE v \in Visitors : TRUE) \in Visitors BY VisitorsAssumption
<1> QED BY <1>1, <1>2, PublicAssumption DEF NoPost, PostRow

\* It has earned nothing and names nothing.
LEMMA NothingEarned == Earned(NoCookie)
  BY DEF Earned, NoCookie

\* What visitors do in one form: one challenge changes, its answers are counted, and
\* the challenges of all tokens stay what they are.
Moves(c, row, count) ==
  /\ challenge' = [challenge EXCEPT ![c] = row] /\ tally' = [tally EXCEPT ![c] = count]
  /\ row.state # "none"
  /\ challenge[c].state # "none" => row.token = challenge[c].token
  /\ count.right >= tally[c].right

\* Cookies stay earned when a challenge moves.
LEMMA EarnedKept ==
  ASSUME CaptchaTypes, Tallied, NEW c \in Challenges, NEW row \in ChallengeRow,
         NEW count \in [right : Nat, wrong : Nat], Moves(c, row, count),
         NEW k \in CookieType, Earned(k)
  PROVE  Earned(k)'
<1> USE DEF CaptchaTypes
<1>1. ASSUME NEW d \in Challenges, challenge[d].state # "none"
      PROVE  challenge'[d].state # "none" /\ challenge'[d].token = challenge[d].token
             /\ tally'[d].right >= tally[d].right
  BY <1>1 DEF Moves
<1>2. ASSUME NEW t \in Tokens, k.captcha[t] # 0
      PROVE  challenge'[k.captcha[t]].state # "none" /\ challenge'[k.captcha[t]].token = t
  <2>1. k.captcha[t] \in Challenges
    BY <1>2, PublicAssumption DEF CookieType, Challenges
  <2> QED BY <2>1, <1>1, <1>2 DEF Earned
<1>3. ASSUME NEW t \in Tokens, t \in k.verified
      PROVE  \E d \in Challenges : challenge'[d].token = t /\ tally'[d].right > 0
  <2>1. PICK d \in Challenges : challenge[d].token = t /\ tally[d].right > 0
    BY <1>3 DEF Earned
  <2>2. challenge[d].state # "none" BY <2>1 DEF Tallied, Counted
  <2>3. tally'[d].right \in Nat /\ tally[d].right \in Nat BY DEF Moves
  <2> QED BY <2>1, <2>2, <2>3, <1>1
<1> QED BY <1>2, <1>3 DEF Earned

\* The books of one challenge, as Counted has them.
Balanced(row, count) ==
  /\ count.right <= 1 /\ count.right + count.wrong <= MaxAttempts
  /\ row.state # "gone" => count.right = 0 /\ count.wrong = row.attempts
  /\ row.state = "none" => row.attempts = 0

\* A challenge that moves in balance leaves all books right.
LEMMA MovesKept ==
  ASSUME CaptchaInv, NEW c \in Challenges, NEW row \in ChallengeRow,
         NEW count \in [right : Nat, wrong : Nat], Moves(c, row, count), Balanced(row, count)
  PROVE  /\ challenge' \in [Challenges -> ChallengeRow]
         /\ tally' \in [Challenges -> [right : Nat, wrong : Nat]]
         /\ Tallied'
         /\ \A k \in CookieType : Earned(k) => Earned(k)'
<1> USE DEF CaptchaInv, CaptchaTypes
<1>1. Tallied'
  <2>1. challenge'[c] = row /\ tally'[c] = count BY DEF Moves
  <2>2. \A d \in Challenges \ {c} : challenge'[d] = challenge[d] /\ tally'[d] = tally[d]
    BY DEF Moves
  <2> QED BY <2>1, <2>2 DEF Tallied, Counted, Balanced
<1> QED BY <1>1, EarnedKept DEF Moves

\* The cookie of a handler that awaits a body is one, and names a challenge of its token.
LEMMA AskedFor ==
  ASSUME CaptchaInv, NEW k \in Posts, post[k] # NoPost
  PROVE  /\ Asked(k) \in Challenges /\ post[k].token \in Tokens /\ post[k].visitor \in Visitors
         /\ post[k].cookie \in CookieType /\ Earned(post[k].cookie)
         /\ challenge[Asked(k)].state # "none" /\ challenge[Asked(k)].token = post[k].token
<1>1. Asked(k) \in Challenges /\ post[k].token \in Tokens /\ post[k].visitor \in Visitors
      /\ post[k].cookie \in CookieType /\ Earned(post[k].cookie)
  BY DEF CaptchaInv, CaptchaTypes, Asking, AllEarned, PostRow
<1>2. Asked(k) # 0 BY <1>1, PublicAssumption DEF Challenges
<1> QED BY <1>1, <1>2 DEF Earned, Asked

\* A response leaves every cookie earned when the one it brings is.
LEMMA RespondKept ==
  ASSUME CaptchaInv, NEW k \in Posts, post[k] # NoPost, NEW answer \in CookieType,
         Respond(k, answer), Earned(answer)',
         \A j \in CookieType : Earned(j) => Earned(j)'
  PROVE  /\ cookie' \in [Visitors -> CookieType] /\ post' \in [Posts -> PostRow]
         /\ Asking' /\ AllEarned'
<1> USE DEF CaptchaInv, CaptchaTypes
<1>1. cookie' \in [Visitors -> CookieType] /\ post' \in [Posts -> PostRow]
  BY NoPostType DEF Respond
<1>2. Asking' BY DEF Asking, Respond, Asked
<1>3. ASSUME NEW v \in Visitors PROVE Earned(cookie[v])'
  <2>1. cookie'[v] = answer \/ cookie'[v] = cookie[v] BY DEF Respond
  <2>2. cookie[v] \in CookieType /\ Earned(cookie[v]) BY DEF AllEarned
  <2> QED BY <2>1, <2>2 DEF Earned
<1>4. ASSUME NEW j \in Posts PROVE Earned(post[j].cookie)'
  <2>1. post'[j].cookie = NoCookie \/ post'[j].cookie = post[j].cookie
    BY NoPostType DEF Respond
  <2>2. post[j].cookie \in CookieType /\ Earned(post[j].cookie) BY DEF AllEarned, PostRow
  <2>3. NoCookie \in CookieType /\ Earned(NoCookie) BY NoPostType, NothingEarned
  <2> QED BY <2>1, <2>2, <2>3 DEF Earned
<1> QED BY <1>1, <1>2, <1>3, <1>4 DEF AllEarned

\* Every step of a visitor, and of the clock, keeps the invariant of challenges.
LEMMA CaptchaKept ==
  ASSUME CaptchaInv, Visited
  PROVE  CaptchaInv'
<1> USE DEF CaptchaInv, CaptchaTypes
<1>1. ASSUME NEW v \in Visitors, NEW t \in Tokens, NEW c \in Challenges, Captcha(v, t, c)
      PROVE  CaptchaInv'
  <2> DEFINE row == [state |-> "live", token |-> t, attempts |-> 0]
  <2>1. row \in ChallengeRow
    BY PublicAssumption DEF ChallengeRow, Tokens
  <2>2. Moves(c, row, tally[c]) BY <1>1 DEF Captcha, Moves
  <2>3. Balanced(row, tally[c]) BY <1>1 DEF Captcha, Balanced, Tallied, Counted
  <2>4. \A k \in CookieType : Earned(k) => Earned(k)' BY <2>1, <2>2, <2>3, MovesKept
  <2> DEFINE seen == [captcha |-> [cookie[v].captcha EXCEPT ![t] = c],
                      verified |-> cookie[v].verified]
  <2>a. seen \in CookieType
    <3>1. cookie[v].captcha \in [Tokens -> 0 .. MaxChallenges]
          /\ cookie[v].verified \in SUBSET Tokens
      BY DEF CookieType
    <3>2. c \in 0 .. MaxChallenges BY PublicAssumption DEF Challenges
    <3> QED BY <3>1, <3>2 DEF CookieType
  <2>b. cookie' = [cookie EXCEPT ![v] = seen]
    <3>1. cookie[v] = [captcha |-> cookie[v].captcha, verified |-> cookie[v].verified]
      BY DEF CookieType
    <3>2. [cookie[v] EXCEPT !.captcha = [cookie[v].captcha EXCEPT ![t] = c]] = seen
      BY <3>1
    <3> QED BY <1>1, <3>2 DEF Captcha
  <2> HIDE DEF seen
  <2>5. cookie' \in [Visitors -> CookieType] BY <2>a, <2>b
  <2>6. post' = post BY <1>1 DEF Captcha
  <2>7. Asking' BY <2>6 DEF Asking, Asked
  <2>8. ASSUME NEW w \in Visitors PROVE Earned(cookie[w])'
    <3>1. Earned(cookie[w]) /\ cookie[w] \in CookieType BY DEF AllEarned
    <3>a. cookie'[w] = IF w = v THEN seen ELSE cookie[w] BY <2>b
    <3>b. seen.captcha = [cookie[v].captcha EXCEPT ![t] = c] /\ seen.verified = cookie[v].verified
      BY DEF seen
    <3>2. \A u \in Tokens :
            \/ cookie'[w].captcha[u] = cookie[w].captcha[u]
            \/ cookie'[w].captcha[u] = c /\ u = t
      <4>1. CASE w = v
        <5>1. cookie'[w].captcha = [cookie[v].captcha EXCEPT ![t] = c]
          BY <3>a, <3>b, <4>1
        <5>2. cookie[v].captcha \in [Tokens -> 0 .. MaxChallenges] BY DEF CookieType
        <5> QED BY <5>1, <5>2, <4>1
      <4>2. CASE w # v BY <3>a, <4>2
      <4> QED BY <4>1, <4>2
    <3>3. cookie'[w].verified = cookie[w].verified BY <3>a, <3>b
    <3>4. challenge'[c].state # "none" /\ challenge'[c].token = t BY <2>2 DEF Moves
    <3> QED BY <2>4, <3>1, <3>2, <3>3, <3>4 DEF Earned
  <2>9. ASSUME NEW k \in Posts PROVE Earned(post[k].cookie)'
    BY <2>4, <2>6 DEF AllEarned, PostRow, Earned
  <2> QED BY <2>1, <2>2, <2>3, <2>5, <2>6, <2>7, <2>8, <2>9, MovesKept DEF AllEarned
<1>2. ASSUME NEW k \in Posts, NEW v \in Visitors, NEW t \in Tokens, PostAnswer(k, v, t)
      PROVE  CaptchaInv'
  <2>1. challenge' = challenge /\ tally' = tally /\ cookie' = cookie
    BY <1>2 DEF PostAnswer
  <2> DEFINE new == [visitor |-> v, token |-> t, cookie |-> cookie[v]]
  <2>2. post' = [post EXCEPT ![k] = new] /\ cookie[v].captcha[t] # 0
    BY <1>2 DEF PostAnswer
  <2>3. new \in PostRow BY PublicAssumption DEF PostRow, Tokens
  <2>4. post' \in [Posts -> PostRow] BY <2>2, <2>3
  <2>5. cookie[v].captcha[t] \in Challenges
    BY <2>2, PublicAssumption DEF CookieType, Challenges
  <2>6. Asking' BY <2>2, <2>5 DEF Asking, Asked
  <2>7. AllEarned' BY <2>1, <2>2 DEF AllEarned, Earned
  <2> QED BY <2>1, <2>4, <2>6, <2>7 DEF Tallied, Counted
<1>3. ASSUME NEW k \in Posts, ChallengeSpent(k) PROVE CaptchaInv'
  <2> DEFINE c == Asked(k)
             row == [challenge[c] EXCEPT !.state = "gone"]
  <2>1. c \in Challenges /\ challenge[c].state # "none"
    BY <1>3, AskedFor DEF ChallengeSpent
  <2>2. row \in ChallengeRow BY <2>1 DEF ChallengeRow
  <2>3. Moves(c, row, tally[c]) BY <1>3, <2>1 DEF ChallengeSpent, Moves, ChallengeRow
  <2>4. Balanced(row, tally[c]) BY <2>1 DEF Balanced, Tallied, Counted, ChallengeRow
  <2>5. post[k].cookie \in CookieType /\ Earned(post[k].cookie)
    BY <1>3, AskedFor DEF ChallengeSpent
  <2> HIDE DEF row
  <2>6. \A j \in CookieType : Earned(j) => Earned(j)' BY <2>1, <2>2, <2>3, <2>4, MovesKept
  <2> DEFINE answer == post[k].cookie
  <2>7. post[k] # NoPost /\ Respond(k, answer) BY <1>3 DEF ChallengeSpent
  <2> QED BY <2>1, <2>2, <2>3, <2>4, <2>5, <2>6, <2>7, MovesKept, RespondKept
<1>4. ASSUME NEW k \in Posts, AnswerRight(k) PROVE CaptchaInv'
  <2> DEFINE c == Asked(k)
             t == post[k].token
             row == [challenge[c] EXCEPT !.state = "gone"]
             count == [tally[c] EXCEPT !.right = @ + 1]
             answer == [captcha |-> [post[k].cookie.captcha EXCEPT ![t] = 0],
                        verified |-> post[k].cookie.verified \cup {t}]
  <2>1. /\ c \in Challenges /\ challenge[c].state # "none" /\ challenge[c].token = t
        /\ t \in Tokens /\ post[k].cookie \in CookieType /\ Earned(post[k].cookie)
    BY <1>4, AskedFor DEF AnswerRight
  <2>2. challenge[c].state = "live" /\ challenge[c].attempts < MaxAttempts
    BY <1>4, <2>1, PublicAssumption DEF AnswerRight, Spent, ChallengeRow
  <2>3. row \in ChallengeRow BY <2>1 DEF ChallengeRow
  <2>4. count \in [right : Nat, wrong : Nat] /\ count.right = tally[c].right + 1
        /\ count.wrong = tally[c].wrong
    BY <2>1
  <2>5. Moves(c, row, count)
    BY <1>4, <2>1, <2>4 DEF AnswerRight, Moves, ChallengeRow
  <2>6. Balanced(row, count)
    BY <2>1, <2>2, <2>4, PublicAssumption DEF Balanced, Tallied, Counted, ChallengeRow
  <2>7. challenge'[c].token = t /\ tally'[c].right > 0
    BY <2>1, <2>4, <2>5 DEF Moves
  <2> HIDE DEF row, count
  <2>8. \A j \in CookieType : Earned(j) => Earned(j)' BY <2>1, <2>3, <2>4, <2>5, <2>6, MovesKept
  <2>9. answer \in CookieType
    <3>1. post[k].cookie.captcha \in [Tokens -> 0 .. MaxChallenges]
          /\ post[k].cookie.verified \in SUBSET Tokens
      BY <2>1 DEF CookieType
    <3>2. 0 \in 0 .. MaxChallenges BY PublicAssumption
    <3> QED BY <2>1, <3>1, <3>2 DEF CookieType
  <2>10. ASSUME NEW a \in CookieType, a = answer PROVE Earned(a)'
    <3>1. PICK old \in CookieType : old = post[k].cookie BY <2>1
    <3>2. Earned(old)' BY <2>1, <2>8, <3>1
    <3>3. \A u \in Tokens : a.captcha[u] # 0 => a.captcha[u] = old.captcha[u]
      BY <2>1, <2>10, <3>1 DEF CookieType
    <3>4. \A u \in a.verified : u = post[k].token \/ u \in old.verified
      BY <2>10, <3>1
    <3>5. \A u \in Tokens : u = post[k].token =>
            \E d \in Challenges : challenge'[d].token = u /\ tally'[d].right > 0
      BY <2>1, <2>7
    <3> QED BY <3>2, <3>3, <3>4, <3>5 DEF Earned
  <2>11. post[k] # NoPost /\ Respond(k, answer) BY <1>4 DEF AnswerRight, VerifiedKey
  <2> HIDE DEF answer
  <2>12. PICK a \in CookieType : a = answer BY <2>9
  <2>13. Earned(a)' /\ Respond(k, a) BY <2>10, <2>11, <2>12
  <2> QED BY <2>1, <2>3, <2>4, <2>5, <2>6, <2>8, <2>11, <2>13, MovesKept, RespondKept
<1>5. ASSUME NEW k \in Posts, AnswerWrong(k) PROVE CaptchaInv'
  <2> DEFINE c == Asked(k)
             row == [challenge[c] EXCEPT !.attempts = @ + 1]
             count == [tally[c] EXCEPT !.wrong = @ + 1]
  <2>1. c \in Challenges /\ post[k].cookie \in CookieType /\ Earned(post[k].cookie)
    BY <1>5, AskedFor DEF AnswerWrong
  <2>2. challenge[c].state = "live" /\ challenge[c].attempts < MaxAttempts
    BY <1>5, <2>1, PublicAssumption DEF AnswerWrong, Spent, ChallengeRow
  <2>3. /\ row \in ChallengeRow /\ row.state = "live" /\ row.token = challenge[c].token
        /\ row.attempts = challenge[c].attempts + 1
    BY <2>1, <2>2, PublicAssumption DEF ChallengeRow
  <2>4. count \in [right : Nat, wrong : Nat] /\ count.right = tally[c].right
        /\ count.wrong = tally[c].wrong + 1
    BY <2>1
  <2>5. Moves(c, row, count)
    BY <1>5, <2>1, <2>3, <2>4 DEF AnswerWrong, Moves
  <2>6. Balanced(row, count)
    BY <2>1, <2>2, <2>3, <2>4, PublicAssumption DEF Balanced, Tallied, Counted, ChallengeRow
  <2> HIDE DEF row, count
  <2>7. \A j \in CookieType : Earned(j) => Earned(j)' BY <2>1, <2>3, <2>4, <2>5, <2>6, MovesKept
  <2> DEFINE answer == post[k].cookie
  <2>8. post[k] # NoPost /\ Respond(k, answer) BY <1>5 DEF AnswerWrong
  <2> QED BY <2>1, <2>3, <2>4, <2>5, <2>6, <2>7, <2>8, MovesKept, RespondKept
<1>6. ASSUME NEW c \in Challenges, ChallengeExpires(c) PROVE CaptchaInv'
  <2> DEFINE row == [challenge[c] EXCEPT !.state = "gone"]
  <2>1. row \in ChallengeRow /\ challenge[c].state = "live"
    BY <1>6 DEF ChallengeRow, ChallengeExpires
  <2>2. Moves(c, row, tally[c]) BY <1>6 DEF ChallengeExpires, Moves, ChallengeRow
  <2>3. Balanced(row, tally[c]) BY DEF Balanced, Tallied, Counted, ChallengeRow
  <2>4. cookie' = cookie /\ post' = post BY <1>6 DEF ChallengeExpires
  <2> HIDE DEF row
  <2>5. \A j \in CookieType : Earned(j) => Earned(j)' BY <2>1, <2>2, <2>3, MovesKept
  <2>6. Asking' BY <2>4 DEF Asking, Asked
  <2>7. ASSUME NEW v \in Visitors PROVE Earned(cookie[v])'
    BY <2>4, <2>5 DEF AllEarned, Earned
  <2>8. ASSUME NEW k \in Posts PROVE Earned(post[k].cookie)'
    BY <2>4, <2>5 DEF AllEarned, Earned, PostRow
  <2> QED BY <2>1, <2>2, <2>3, <2>4, <2>6, <2>7, <2>8, MovesKept DEF AllEarned
<1> QED BY <1>1, <1>2, <1>3, <1>4, <1>5, <1>6 DEF Visited, Public

-----------------------------------------------------------------------------
(* Both halves                                                             *)

IInv == LinkTypes /\ Rooted /\ CaptchaInv

\* Owners leave the visitors' half alone, and visitors the owners'.
LEMMA HalvesApart ==
  /\ Owned => UNCHANGED captchas
  /\ Visited => UNCHANGED <<people, links>>
<1>1. ASSUME Owned PROVE UNCHANGED captchas
  BY <1>1 DEF Owned, Administrator, OwnerActs, DeleteOwner, SetOwnerEnabled, Request,
     AddMailbox, CreateTarget, SetTargetEnabled, DeleteShare, GetOrCreateLink, RevokeLink,
     UpdateExpiry, Handled, LinkExpires
<1>2. ASSUME Visited PROVE UNCHANGED <<people, links>>
  BY <1>2 DEF Visited, Public, Captcha, PostAnswer, ChallengeSpent, AnswerRight, AnswerWrong,
     Respond, ChallengeExpires
<1> QED BY <1>1, <1>2

\* The invariant of links speaks of links and people only.
LEMMA LinksUnchanged ==
  ASSUME LinkTypes, Rooted, UNCHANGED <<people, links>>
  PROVE  LinkTypes' /\ Rooted'
  BY DEF LinkTypes, Rooted, Exists, Home, people, links

\* The invariant of challenges speaks of the visitors' half only.
LEMMA CaptchasUnchanged ==
  ASSUME CaptchaInv, UNCHANGED captchas
  PROVE  CaptchaInv'
  BY DEF CaptchaInv, CaptchaTypes, Asking, Asked, Tallied, Counted, AllEarned, Earned, captchas

\* A restart takes the requests and the handlers away and nothing else.
LEMMA RestartKept ==
  ASSUME IInv, Restart
  PROVE  IInv'
<1>1. owner' = owner /\ links' = links /\ challenge' = challenge /\ tally' = tally
      /\ cookie' = cookie /\ request' = {} /\ post' = [k \in Posts |-> NoPost]
  BY DEF Restart
<1>2. LinkTypes' /\ Rooted'
  BY <1>1 DEF IInv, LinkTypes, Rooted, Exists, Home, links
<1>3. CaptchaTypes' /\ Asking' /\ Tallied'
  BY <1>1, NoPostType DEF IInv, CaptchaInv, CaptchaTypes, Asking, Tallied, Counted
<1>4. AllEarned'
  <2>1. \A v \in Visitors : Earned(cookie[v])'
    BY <1>1 DEF IInv, CaptchaInv, AllEarned, Earned
  <2>2. ASSUME NEW k \in Posts PROVE Earned(post[k].cookie)'
    <3>1. post'[k].cookie = NoCookie BY <1>1, NoPostType
    <3> QED BY <3>1, NothingEarned, <1>1 DEF Earned, NoCookie
  <2> QED BY <2>1, <2>2 DEF AllEarned
<1> QED BY <1>2, <1>3, <1>4 DEF IInv, CaptchaInv

\* Nothing is shared, asked or solved at first.
LEMMA Initially == Init => IInv
<1> SUFFICES ASSUME Init PROVE IInv OBVIOUS
<1>1. LinkTypes BY NoLinkType, PublicAssumption DEF Init, LinkTypes
<1>2. Rooted BY DEF Init, Rooted, Exists, NoLink
<1>3. CaptchaTypes
  BY NoPostType, PublicAssumption DEF Init, CaptchaTypes, ChallengeRow, NoChallenge
<1>4. Asking /\ Tallied
  BY PublicAssumption DEF Init, Asking, Tallied, Counted, NoChallenge
<1>5. AllEarned BY NoPostType, NothingEarned DEF Init, AllEarned
<1> QED BY <1>1, <1>2, <1>3, <1>4, <1>5 DEF IInv, CaptchaInv

\* Every step is of one half, or a restart.
LEMMA Inductive == IInv /\ [Next]_vars => IInv'
<1> SUFFICES ASSUME IInv, [Next]_vars PROVE IInv' OBVIOUS
<1>1. CASE Owned
  BY <1>1, LinkTypesKept, RootedKept, HalvesApart, CaptchasUnchanged DEF IInv
<1>2. CASE Visited
  BY <1>2, CaptchaKept, HalvesApart, LinksUnchanged DEF IInv
<1>3. CASE Restart BY <1>3, RestartKept
<1>4. CASE UNCHANGED vars
  BY <1>4, LinksUnchanged, CaptchasUnchanged DEF IInv, vars
<1> QED BY <1>1, <1>2, <1>3, <1>4 DEF Next, Time, Owned, Visited

\* The invariant of both halves holds throughout.
LEMMA Invariant == Spec => []IInv
  BY Initially, Inductive, PTL DEF Spec

-----------------------------------------------------------------------------
(* Theorems                                                                *)

\* Every variable holds a value of its type.
THEOREM TypeCorrect == Spec => []TypeOK
<1>1. IInv => TypeOK
  BY DEF IInv, LinkTypes, CaptchaInv, CaptchaTypes, TypeOK, ShareRow, ChallengeRow, PostRow
<1> QED BY <1>1, Invariant, PTL

\* A challenge is compared with at most MaxAttempts answers and solved once, whatever
\* requests are on their way.
THEOREM ChallengesBounded == Spec => []ChallengeBounded
<1>1. IInv => ChallengeBounded
  BY DEF IInv, CaptchaInv, Tallied, Counted, ChallengeBounded
<1> QED BY <1>1, Invariant, PTL

\* A cookie opens nothing but what a challenge was solved for.
THEOREM AnswersVerify == Spec => []VerifiedByAnswer
<1>1. IInv => VerifiedByAnswer
  <2> SUFFICES ASSUME IInv, NEW v \in Visitors, NEW t \in cookie[v].verified
               PROVE  \E c \in Challenges : challenge[c].token = t /\ tally[c].right > 0
    BY DEF VerifiedByAnswer
  <2>1. t \in Tokens BY DEF IInv, CaptchaInv, CaptchaTypes, CookieType
  <2>2. Earned(cookie[v]) BY DEF IInv, CaptchaInv, AllEarned
  <2> QED BY <2>1, <2>2 DEF Earned
<1> QED BY <1>1, Invariant, PTL

\* No link outlives what it shares, the mailbox behind that, or their owner.
THEOREM LinksOwned == Spec => []LinksHaveOwners
<1>1. IInv => LinksHaveOwners BY DEF IInv, Rooted, LinksHaveOwners
<1> QED BY <1>1, Invariant, PTL

\* What becomes of the token of a link: it stays, or a new one or none replaces it,
\* and a link that keeps a revoked token stays revoked.
LEMMA TokensReplaced ==
  ASSUME LinkTypes, Owned
  PROVE  /\ issued' >= issued
         /\ \A s \in Shares :
              \/ link'[s].token = 0 \/ link'[s].token > issued
              \/ link'[s].token = link[s].token /\ (link[s].revoked => link'[s].revoked)
<1> USE DEF LinkTypes
<1> DEFINE Kept(s) == \/ link'[s].token = 0 \/ link'[s].token > issued
                      \/ link'[s].token = link[s].token /\ (link[s].revoked => link'[s].revoked)
<1>1. ASSUME NEW S \in SUBSET Shares, Removed(S) PROVE issued' >= issued /\ \A s \in Shares : Kept(s)
  BY <1>1 DEF Removed, Cascade, NoLink
<1>2. ASSUME NEW u \in Owners, DeleteOwner(u) PROVE issued' >= issued /\ \A s \in Shares : Kept(s)
  <2>1. {s \in Shares : OwnerOf[Home(s)] = u} \in SUBSET Shares OBVIOUS
  <2> QED BY <1>1, <1>2, <2>1 DEF DeleteOwner
<1>3. ASSUME NEW s \in Shares, DeleteShare(s) PROVE issued' >= issued /\ \A w \in Shares : Kept(w)
  <2>1. {s} \cup {g \in Targets : Home(g) = s} \in SUBSET Shares BY DEF Shares
  <2> QED BY <1>1, <1>3, <2>1 DEF DeleteShare
<1>4. ASSUME NEW s \in Shares, GetOrCreateLink(s)
      PROVE  issued' >= issued /\ \A w \in Shares : Kept(w)
  <2>1. CASE Active(link[s]) BY <1>4, <2>1 DEF GetOrCreateLink
  <2>2. CASE ~Active(link[s])
    <3>1. issued' >= issued /\ NewToken(s) > issued
      BY <1>4, <2>2 DEF GetOrCreateLink, NewToken
    <3>2. link' = [link EXCEPT ![s] = [NoLink EXCEPT !.token = NewToken(s)]]
      BY <1>4, <2>2 DEF GetOrCreateLink
    <3>3. [NoLink EXCEPT !.token = NewToken(s)].token = NewToken(s) BY DEF NoLink
    <3>4. link'[s].token = NewToken(s) BY <3>2, <3>3
    <3>5. \A w \in Shares \ {s} : link'[w] = link[w] BY <3>2
    <3> QED BY <3>1, <3>4, <3>5
  <2> QED BY <2>1, <2>2
<1>5. ASSUME NEW s \in Shares, RevokeLink(s) PROVE issued' >= issued /\ \A w \in Shares : Kept(w)
  BY <1>5 DEF RevokeLink, ShareRow
<1>6. ASSUME NEW s \in Shares, NEW expiry \in {"never", "ahead"}, UpdateExpiry(s, expiry)
      PROVE  issued' >= issued /\ \A w \in Shares : Kept(w)
  BY <1>6 DEF UpdateExpiry, ShareRow
<1>7. ASSUME NEW s \in Shares, LinkExpires(s) PROVE issued' >= issued /\ \A w \in Shares : Kept(w)
  BY <1>7 DEF LinkExpires, ShareRow
<1>8. ASSUME link' = link, issued' = issued PROVE issued' >= issued /\ \A w \in Shares : Kept(w)
  BY <1>8
<1> QED BY <1>2, <1>3, <1>4, <1>5, <1>6, <1>7, <1>8 DEF Owned, Administrator, OwnerActs,
        SetOwnerEnabled, Request, AddMailbox, CreateTarget, SetTargetEnabled, links

\* A token that is revoked, replaced or deleted stays so and exposes nothing, whatever
\* the owner shares, prolongs or enables later.
THEOREM RevokedForGood == Spec => RevokedStaysRevoked
<1>1. ASSUME IInv, [Next]_vars, NEW t \in Tokens, Revoked(t)
      PROVE  Revoked(t)' /\ ~Exposed(t)'
  <2> USE DEF IInv, LinkTypes, Tokens
  <2>1. CASE Owned
    <3>1. t \in Nat /\ t > 0 /\ t <= issued /\ issued \in Nat /\ issued' \in Nat
      BY <2>1, LinkTypesKept, PublicAssumption, <1>1 DEF Revoked
    <3>2. t <= issued' BY <3>1, <2>1, <1>1, TokensReplaced
    <3>3. ASSUME NEW s \in Shares, link'[s].token = t PROVE link'[s].revoked
      <4>1. link'[s].token # 0 /\ ~(link'[s].token > issued) BY <3>1, <3>3
      <4>2. link'[s].token = link[s].token /\ (link[s].revoked => link'[s].revoked)
        BY <4>1, <2>1, <1>1, TokensReplaced
      <4> QED BY <4>2, <3>3, <1>1 DEF Revoked
    <3> QED BY <3>2, <3>3 DEF Revoked, Exposed, Active
  <2>2. ASSUME link' = link, issued' = issued PROVE Revoked(t)' /\ ~Exposed(t)'
    BY <2>2, <1>1 DEF Revoked, Exposed, Active
  <2> QED BY <2>1, <2>2, <1>1, HalvesApart DEF Next, Time, Owned, Visited, Restart, vars, links
<1>2. IInv /\ [Next]_vars => [\A t \in Tokens : Revoked(t) => Revoked(t)' /\ ~Exposed(t)']_vars
  BY <1>1
<1> QED BY <1>2, Invariant, PTL DEF Spec, RevokedStaysRevoked

=============================================================================
