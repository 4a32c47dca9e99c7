---------------------------- MODULE PublicAccess ----------------------------
(***************************************************************************)
(* Share links and the public pages behind them.  Owners share a mailbox   *)
(* or one of its targets (an alias) by a link; whoever has its token       *)
(* solves a CAPTCHA and then reads the mails.  Links hang on mailboxes,    *)
(* targets and owners.  Of the users only what links depend on is here;    *)
(* their sessions are in Sessions.                                         *)
(*                                                                         *)
(* What a visitor has solved is in the visitor's signed cookie alone.  The *)
(* response to a request replaces the whole cookie by the one the request  *)
(* came with, as its handler has changed it; of the public handlers only   *)
(* verify_public_mail awaits anything, the body of the request.            *)
(***************************************************************************)
EXTENDS Naturals

CONSTANTS
  Owners,               \* users that own mailboxes
  Mailboxes, Targets,   \* rows of accounts and of mail_targets, each inserted once
  OwnerOf,              \* the owner of each mailbox
  MailboxOf,            \* the mailbox of each target
  Visitors,             \* browsers
  Posts,                \* bound: answers on their way at a time
  MaxAttempts,          \* max_attempts of consume_captcha_challenge
  MaxTokens,            \* bound: tokens of links
  MaxChallenges         \* bound: CAPTCHA challenges

ASSUME SharesAssumption ==
  /\ Mailboxes \cap Targets = {}
  /\ OwnerOf \in [Mailboxes -> Owners] /\ MailboxOf \in [Targets -> Mailboxes]
ASSUME PublicAssumption ==
  MaxAttempts \in Nat \ {0} /\ MaxTokens \in Nat /\ MaxChallenges \in Nat
ASSUME VisitorsAssumption == Visitors # {}

VARIABLES
  owner,        \* enabled, disabled or deleted
  request,      \* owners with an authenticated request whose handler has not run
  share,        \* mailboxes and targets: not there yet, on, switched off or gone
  link,         \* share_links and target_share_links; token 0 when there is no row
  issued,       \* tokens so far
  challenge,    \* captcha_challenges
  tally,        \* history: the answers each challenge was compared with
  cookie,       \* of each visitor
  post          \* the handlers of verify_public_mail that await a body

links == <<share, link, issued>>
captchas == <<challenge, tally, cookie, post>>
people == <<owner, request>>
vars == <<people, links, captchas>>

Shares == Mailboxes \cup Targets
Tokens == 1 .. MaxTokens
Challenges == 1 .. MaxChallenges

NoLink == [token |-> 0, expiry |-> "never", revoked |-> FALSE]
NoChallenge == [state |-> "none", token |-> 0, attempts |-> 0]
NoCookie == [captcha |-> [t \in Tokens |-> 0], verified |-> {}]
NoPost == [visitor |-> CHOOSE v \in Visitors : TRUE, token |-> 0, cookie |-> NoCookie]

Init ==
  /\ owner = [u \in Owners |-> "enabled"] /\ request = {}
  /\ share = [s \in Shares |-> "none"]
  /\ link = [s \in Shares |-> NoLink] /\ issued = 0
  /\ challenge = [c \in Challenges |-> NoChallenge]
  /\ tally = [c \in Challenges |-> [right |-> 0, wrong |-> 0]]
  /\ cookie = [v \in Visitors |-> NoCookie]
  /\ post = [k \in Posts |-> NoPost]

-----------------------------------------------------------------------------
(* Decisions of the code                                                   *)

Home(s) == IF s \in Targets THEN MailboxOf[s] ELSE s
Exists(s) == share[s] \in {"on", "off"}

\* Mutant: a link is active until it expires.
Unexpired(l) == l.token # 0 /\ l.expiry # "past"

\* _link_is_active
Active(l) == l.token # 0 /\ ~l.revoked /\ l.expiry # "past"

\* The token of a link that is not active any more is never used again.
NewToken(s) == issued + 1

\* get_shared_mailbox
Exposed(t) ==
  \E s \in Shares :
    /\ link[s].token = t /\ Active(link[s])
    /\ share[s] = "on" /\ share[Home(s)] = "on"
    /\ owner[OwnerOf[Home(s)]] = "enabled"

\* Mutant: links of targets have no foreign key to their target.
CascadeOfMailbox(S) == [s \in Shares |-> IF s \in S \cap Mailboxes THEN NoLink ELSE link[s]]

\* ON DELETE CASCADE, for the rows of S.
Cascade(S) == [s \in Shares |-> IF s \in S THEN NoLink ELSE link[s]]

\* Mutant: the limit is one too high.
SpentAfter(c) == challenge[c].state # "live" \/ challenge[c].attempts > MaxAttempts

\* consume_captcha_challenge will not look at the answer.
Spent(c) == challenge[c].state # "live" \/ challenge[c].attempts >= MaxAttempts

\* Mutant: a browser is verified for every link.
KeyOfBrowser(t) == Tokens

\* verified_key
VerifiedKey(t) == {t}

-----------------------------------------------------------------------------
(* Owners                                                                  *)

\* require_user, in a thread: the handler runs later.
Request(u) ==
  /\ owner[u] = "enabled"
  /\ request' = request \cup {u}
  /\ UNCHANGED <<owner, links, captchas>>

\* A handler runs for the owner of s, whatever has become of the owner since.
Handled(s) ==
  /\ OwnerOf[Home(s)] \in request
  /\ request' = request \ {OwnerOf[Home(s)]}
  /\ UNCHANGED <<owner, captchas>>

\* import_accounts
AddMailbox(m) ==
  /\ Handled(m) /\ share[m] = "none" /\ owner[OwnerOf[m]] # "gone"
  /\ share' = [share EXCEPT ![m] = "on"]
  /\ UNCHANGED <<link, issued>>

\* create_mail_target; it returns an existing row as it is.
CreateTarget(g) ==
  /\ Handled(g) /\ share[g] = "none" /\ Exists(Home(g))
  /\ share' = [share EXCEPT ![g] = "on"]
  /\ UNCHANGED <<link, issued>>

SetTargetEnabled(g, enabled) ==
  /\ Handled(g) /\ Exists(g)
  /\ share' = [share EXCEPT ![g] = IF enabled THEN "on" ELSE "off"]
  /\ UNCHANGED <<link, issued>>

Removed(S) ==
  /\ share' = [s \in Shares |-> IF s \in S /\ Exists(s) THEN "gone" ELSE share[s]]
  /\ link' = Cascade(S)
  /\ UNCHANGED issued

\* delete_accounts and delete_mail_target
DeleteShare(s) ==
  /\ Handled(s) /\ Exists(s)
  /\ Removed({s} \cup {g \in Targets : Home(g) = s})

\* get_or_create_share_link, get_or_create_target_share_link
GetOrCreateLink(s) ==
  /\ Handled(s) /\ Exists(s)
  /\ IF Active(link[s]) THEN UNCHANGED <<link, issued>>
     ELSE /\ NewToken(s) <= MaxTokens
          /\ link' = [link EXCEPT ![s] = [NoLink EXCEPT !.token = NewToken(s)]]
          /\ issued' = IF NewToken(s) > issued THEN NewToken(s) ELSE issued
  /\ UNCHANGED share

\* A link that is expired, but not revoked, can be prolonged.
UpdateExpiry(s, expiry) ==
  /\ Handled(s) /\ link[s].token # 0 /\ ~link[s].revoked
  /\ link' = [link EXCEPT ![s].expiry = expiry]
  /\ UNCHANGED <<share, issued>>

RevokeLink(s) ==
  /\ Handled(s) /\ link[s].token # 0 /\ ~link[s].revoked
  /\ link' = [link EXCEPT ![s].revoked = TRUE]
  /\ UNCHANGED <<share, issued>>

LinkExpires(s) ==
  /\ link[s].expiry = "ahead"
  /\ link' = [link EXCEPT ![s].expiry = "past"]
  /\ UNCHANGED <<people, share, issued, captchas>>

\* update_user_status
SetOwnerEnabled(u, enabled) ==
  /\ owner[u] # "gone"
  /\ owner' = [owner EXCEPT ![u] = IF enabled THEN "enabled" ELSE "disabled"]
  /\ UNCHANGED <<request, links, captchas>>

\* delete_user with its cascade: what the user owned goes too.
DeleteOwner(u) ==
  /\ owner[u] # "gone"
  /\ owner' = [owner EXCEPT ![u] = "gone"]
  /\ Removed({s \in Shares : OwnerOf[Home(s)] = u})
  /\ UNCHANGED <<request, captchas>>

-----------------------------------------------------------------------------
(* Visitors                                                                *)

\* public_captcha.  That it also deletes expired challenges shows nowhere.
Captcha(v, t, c) ==
  /\ Exposed(t)
  /\ challenge[c].state = "none" /\ \A d \in Challenges : d < c => challenge[d].state # "none"
  /\ challenge' = [challenge EXCEPT ![c] = [state |-> "live", token |-> t, attempts |-> 0]]
  /\ cookie' = [cookie EXCEPT ![v].captcha[t] = c]
  /\ UNCHANGED <<people, links, tally, post>>

\* verify_public_mail finds the link and awaits the body.
PostAnswer(k, v, t) ==
  /\ post[k] = NoPost /\ Exposed(t) /\ cookie[v].captcha[t] # 0
  /\ post' = [post EXCEPT ![k] = [visitor |-> v, token |-> t, cookie |-> cookie[v]]]
  /\ UNCHANGED <<people, links, challenge, tally, cookie>>

Asked(k) == post[k].cookie.captcha[post[k].token]

Respond(k, answer) ==
  /\ cookie' = [cookie EXCEPT ![post[k].visitor] = answer]
  /\ post' = [post EXCEPT ![k] = NoPost]
  /\ UNCHANGED <<people, links>>

\* The body is there.  The challenge is used up, or expired ...
ChallengeSpent(k) ==
  /\ post[k] # NoPost /\ Spent(Asked(k))
  /\ challenge' = [challenge EXCEPT ![Asked(k)].state = "gone"]
  /\ Respond(k, post[k].cookie)
  /\ UNCHANGED tally

\* ... or the answer is right ...
AnswerRight(k) ==
  /\ post[k] # NoPost /\ ~Spent(Asked(k))
  /\ challenge' = [challenge EXCEPT ![Asked(k)].state = "gone"]
  /\ tally' = [tally EXCEPT ![Asked(k)].right = @ + 1]
  /\ Respond(k, [captcha |-> [post[k].cookie.captcha EXCEPT ![post[k].token] = 0],
                 verified |-> post[k].cookie.verified \cup VerifiedKey(post[k].token)])

\* ... or wrong.
AnswerWrong(k) ==
  /\ post[k] # NoPost /\ ~Spent(Asked(k))
  /\ challenge' = [challenge EXCEPT ![Asked(k)].attempts = @ + 1]
  /\ tally' = [tally EXCEPT ![Asked(k)].wrong = @ + 1]
  /\ Respond(k, post[k].cookie)

ChallengeExpires(c) ==
  /\ challenge[c].state = "live"
  /\ challenge' = [challenge EXCEPT ![c].state = "gone"]
  /\ UNCHANGED <<people, links, tally, cookie, post>>

-----------------------------------------------------------------------------
\* The web process is restarted, and what it was doing is cut off.
Restart ==
  /\ request' = {} /\ post' = [k \in Posts |-> NoPost]
  /\ UNCHANGED <<owner, links, challenge, tally, cookie>>

Administrator ==
  \E u \in Owners : DeleteOwner(u) \/ \E enabled \in BOOLEAN : SetOwnerEnabled(u, enabled)

OwnerActs ==
  \/ \E u \in Owners : Request(u)
  \/ \E m \in Mailboxes : AddMailbox(m)
  \/ \E g \in Targets :
       CreateTarget(g) \/ \E enabled \in BOOLEAN : SetTargetEnabled(g, enabled)
  \/ \E s \in Shares :
       \/ DeleteShare(s) \/ GetOrCreateLink(s) \/ RevokeLink(s)
       \/ \E expiry \in {"never", "ahead"} : UpdateExpiry(s, expiry)

Public ==
  \/ \E v \in Visitors, t \in Tokens, c \in Challenges : Captcha(v, t, c)
  \/ \E k \in Posts, v \in Visitors, t \in Tokens : PostAnswer(k, v, t)
  \/ \E k \in Posts : ChallengeSpent(k) \/ AnswerRight(k) \/ AnswerWrong(k)

Time == (\E s \in Shares : LinkExpires(s)) \/ (\E c \in Challenges : ChallengeExpires(c))

Next == Administrator \/ OwnerActs \/ Public \/ Time \/ Restart

Spec == Init /\ [][Next]_vars

-----------------------------------------------------------------------------
(* Properties                                                              *)

CookieType == [captcha : [Tokens -> 0 .. MaxChallenges], verified : SUBSET Tokens]

\* Every variable holds a value of its type.
TypeOK ==
  /\ owner \in [Owners -> {"enabled", "disabled", "gone"}] /\ request \subseteq Owners
  /\ share \in [Shares -> {"none", "on", "off", "gone"}]
  /\ link \in [Shares -> [token : 0 .. MaxTokens, expiry : {"never", "ahead", "past"},
                          revoked : BOOLEAN]]
  /\ issued \in 0 .. MaxTokens
  /\ challenge \in [Challenges -> [state : {"none", "live", "gone"},
                                   token : 0 .. MaxTokens, attempts : 0 .. MaxAttempts]]
  /\ tally \in [Challenges -> [right : Nat, wrong : Nat]]
  /\ cookie \in [Visitors -> CookieType]
  /\ post \in [Posts -> [visitor : Visitors, token : 0 .. MaxTokens, cookie : CookieType]]

Revoked(t) == t <= issued /\ \A s \in Shares : link[s].token = t => link[s].revoked

\* README: "Expired and revoked tokens no longer expose mailbox content."  A token
\* that is revoked, replaced or deleted never exposes anything again, whatever the
\* owner shares, prolongs or enables later.
RevokedStaysRevoked == [][\A t \in Tokens : Revoked(t) => Revoked(t)' /\ ~Exposed(t)']_vars

\* The design: "CAPTCHA challenges expire, have a maximum attempt count, and are
\* consumed on success."  However many answers are on their way at once, a challenge
\* is compared with at most MaxAttempts of them and found solved once.
ChallengeBounded ==
  \A c \in Challenges : tally[c].right <= 1 /\ tally[c].right + tally[c].wrong <= MaxAttempts

\* A cookie opens the pages of a token only after a challenge of that very token
\* was solved, also when links are replaced and responses overtake each other.
VerifiedByAnswer ==
  \A v \in Visitors : \A t \in cookie[v].verified :
    \E c \in Challenges : challenge[c].token = t /\ tally[c].right > 0

\* No link outlives what it shares, the mailbox behind that, or their owner; a
\* request authenticated before a deletion and handled after it makes none.
LinksHaveOwners ==
  \A s \in Shares : link[s].token # 0 => Exists(s) /\ Exists(Home(s)) /\ owner[OwnerOf[Home(s)]] # "gone"

=============================================================================
