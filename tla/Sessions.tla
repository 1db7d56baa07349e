----------------------------- MODULE Sessions ------------------------------
(***************************************************************************)
(* The sessions of one account: the rows of subscriber_sessions, the token *)
(* pairs that go with them and the blacklist of token ids in Redis         *)
(* (backend/pkg/auth, the Login, RefreshToken, Logout and RevokeSession    *)
(* handlers, JWTMiddleware and TokenBlacklistMiddleware).  portal_sessions *)
(* and staff.go follow the same steps.                                     *)
(*                                                                         *)
(* A session's id is the jti of its access token and of its refresh token. *)
(* Every handler is a sequence of statements on two stores without a       *)
(* transaction, so each statement is a step of its own, other requests run *)
(* in between, and each may fail on its own.                               *)
(***************************************************************************)
EXTENDS Integers, FiniteSets

CONSTANTS
  Sids,        \* the session ids uuid.New() may return
  Requests,    \* the requests the gateways may be running at one time
  AccessTTL,   \* cfg.Security.JWTAccessTTL, in ticks of the clock
  RefreshTTL,  \* cfg.Security.JWTRefreshTTL
  MaxTime,     \* bound of the model: the last tick of the clock
  MaxLost,     \* bound of the model: UPDATEs of revoked_at that fail
  NoSid        \* no session: the parent of a session opened by a login

ASSUME SetsAssumption == /\ IsFiniteSet(Sids)
                         /\ IsFiniteSet(Requests)
                         /\ NoSid \notin Sids
ASSUME TTLAssumption == /\ AccessTTL \in Nat \ {0}
                        /\ RefreshTTL \in Nat
                        /\ AccessTTL <= RefreshTTL
                        /\ MaxTime \in Nat
                        /\ MaxLost \in Nat

VARIABLES
  now,       \* the clock of the gateways, PostgreSQL and Redis
  row,       \* row[s]: "none", "live", or "revoked" once revoked_at is set
  born,      \* born[s]: when the row and the token pair were made
  bannedTo,  \* bannedTo[s]: when the key blacklist:s expires, 0 if never set
  req,       \* req[r]: the step a running request takes next, and on what
  parent,    \* history: parent[s] is the session whose rotation made s
  ended,     \* history: sessions logged out or rotated with no write lost
  lost       \* history: UPDATEs of revoked_at that failed

vars == <<now, row, born, bannedTo, req, parent, ended, lost>>

Steps == {"idle", "create", "rotateRevoke", "rotateCreate", "rotateBan",
          "logoutRevoke", "logoutBan"}

\* clean is history: no write of this request has failed so far.
Request == [step : Steps, sid : Sids \cup {NoSid}, clean : BOOLEAN]

Idle == [step |-> "idle", sid |-> NoSid, clean |-> TRUE]

TypeOK ==
  /\ now \in Nat
  /\ row \in [Sids -> {"none", "live", "revoked"}]
  /\ born \in [Sids -> Nat]
  /\ bannedTo \in [Sids -> Nat]
  /\ req \in [Requests -> Request]
  /\ parent \in [Sids -> Sids \cup {NoSid}]
  /\ ended \in SUBSET Sids
  /\ lost \in Nat

-----------------------------------------------------------------------------

Known(s) == row[s] # "none"

\* JWTMiddleware on the access token of s: signature, exp and type.
AccessTokenValid(s) == Known(s) /\ now < born[s] + AccessTTL

\* IsTokenBlacklisted, when Redis answers.
Blacklisted(s) == now < bannedTo[s]

\* What TokenBlacklistMiddleware lets through while Redis answers.
AccessHonoured(s) == AccessTokenValid(s) /\ ~Blacklisted(s)

\* A slip to compare with: the row may be revoked.
RedeemableIfRevoked(s) == Known(s) /\ now < born[s] + RefreshTTL

\* The WHERE clause of the rotation: the row is there, revoked_at IS NULL and
\* expires_at > NOW().  The blacklist is not asked.

Redeemable(s) == row[s] = "live" /\ now < born[s] + RefreshTTL

\* The expiry SET ... EX gives the blacklist key.  Slips to compare with: the
\* lifetime in a wrong unit, and with a wrong sign.
BanExpiryWrongUnit == now + 1

BanExpiryInThePast == now - RefreshTTL

BanExpiry == now + RefreshTTL

-----------------------------------------------------------------------------

Init ==
  /\ now = 0
  /\ row = [s \in Sids |-> "none"]
  /\ born = [s \in Sids |-> 0]
  /\ bannedTo = [s \in Sids |-> 0]
  /\ req = [r \in Requests |-> Idle]
  /\ parent = [s \in Sids |-> NoSid]
  /\ ended = {}
  /\ lost = 0

\* Request r starts a handler that will act on s.
Start(r, step, s) ==
  /\ req[r] = Idle
  /\ req' = [req EXCEPT ![r] = [step |-> step, sid |-> s, clean |-> TRUE]]
  /\ UNCHANGED <<now, row, born, bannedTo, parent, ended, lost>>

\* Request r moves on to its next statement; ok tells whether this one worked.
Advance(r, step, ok) ==
  req' = [req EXCEPT ![r].step = step, ![r].clean = @ /\ ok]

\* Login, once Authenticate has accepted the secret.
BeginLogin(r) == Start(r, "create", NoSid)

\* RefreshToken up to the two SELECTs of RotateSubscriberSession.  The second
\* one loads is_active and locked_until, and nothing tests them.
BeginRotate(r, s) ==
  /\ Redeemable(s)
  /\ Start(r, "rotateRevoke", s)

\* Logout is behind JWTMiddleware alone: a blacklisted token is still heard.
BeginLogout(r, s) ==
  /\ AccessTokenValid(s)
  /\ Start(r, "logoutRevoke", s)

\* RevokeSession: UPDATE ... SET revoked_at, whatever the row says.
MarkRevoked(s) == row' = [row EXCEPT ![s] = "revoked"]

AfterRevoke == [rotateRevoke |-> "rotateCreate", logoutRevoke |-> "logoutBan"]

Revoke(r) ==
  /\ req[r].step \in DOMAIN AfterRevoke
  /\ MarkRevoked(req[r].sid)
  /\ Advance(r, AfterRevoke[req[r].step], TRUE)
  /\ UNCHANGED <<now, born, bannedTo, parent, ended, lost>>

\* Both callers go on when the UPDATE fails.
LoseRevoke(r) ==
  /\ req[r].step \in DOMAIN AfterRevoke
  /\ lost < MaxLost
  /\ Advance(r, AfterRevoke[req[r].step], FALSE)
  /\ lost' = lost + 1
  /\ UNCHANGED <<now, row, born, bannedTo, parent, ended>>

\* CreateSession: a fresh id, both tokens, one INSERT.
InsertSession(s, from) ==
  /\ row[s] = "none"
  /\ row' = [row EXCEPT ![s] = "live"]
  /\ born' = [born EXCEPT ![s] = now]
  /\ parent' = [parent EXCEPT ![s] = from]

CreateForLogin(r, s) ==
  /\ req[r].step = "create"
  /\ InsertSession(s, NoSid)
  /\ req' = [req EXCEPT ![r] = Idle]
  /\ UNCHANGED <<now, bannedTo, ended, lost>>

CreateForRotate(r, s) ==
  /\ req[r].step = "rotateCreate"
  /\ InsertSession(s, req[r].sid)
  /\ Advance(r, "rotateBan", TRUE)
  /\ UNCHANGED <<now, bannedTo, ended, lost>>

\* BlacklistToken, the last statement of RefreshToken and of Logout.
Ban(r) ==
  /\ req[r].step \in {"rotateBan", "logoutBan"}
  /\ bannedTo' = [bannedTo EXCEPT ![req[r].sid] = BanExpiry]
  /\ ended' = IF req[r].clean THEN ended \cup {req[r].sid} ELSE ended
  /\ req' = [req EXCEPT ![r] = Idle]
  /\ UNCHANGED <<now, row, born, parent, lost>>

\* A request ends before its next statement takes effect: the INSERT fails and
\* the handler returns, BlacklistToken fails and the error is dropped, or the
\* gateway stops.
GiveUp(r) ==
  /\ req[r] # Idle
  /\ req' = [req EXCEPT ![r] = Idle]
  /\ UNCHANGED <<now, row, born, bannedTo, parent, ended, lost>>

\* DELETE /profile/sessions/:id, called with the access token of s: the row of
\* t is revoked and nothing is put on the blacklist.  A blacklisted s gets here
\* too when Redis fails to answer, which the middleware takes for "no".
RevokeOther(s, t) ==
  /\ AccessTokenValid(s)
  /\ Known(t)
  /\ MarkRevoked(t)
  /\ UNCHANGED <<now, born, bannedTo, req, parent, ended, lost>>

Tick ==
  /\ now < MaxTime
  /\ now' = now + 1
  /\ UNCHANGED <<row, born, bannedTo, req, parent, ended, lost>>

Next ==
  \/ \E r \in Requests : \/ BeginLogin(r)
                         \/ Revoke(r)
                         \/ LoseRevoke(r)
                         \/ Ban(r)
                         \/ GiveUp(r)
  \/ \E r \in Requests, s \in Sids : \/ BeginRotate(r, s)
                                     \/ BeginLogout(r, s)
                                     \/ CreateForLogin(r, s)
                                     \/ CreateForRotate(r, s)
  \/ \E s, t \in Sids : RevokeOther(s, t)
  \/ Tick

Spec == Init /\ [][Next]_vars

-----------------------------------------------------------------------------
(***************************************************************************)
(* Properties.                                                             *)
(***************************************************************************)

\* A logout, or a rotation, whose writes all took effect leaves neither token
\* of the old session of any use, also after the blacklist key has expired and
\* whatever the other requests on the same session were doing meanwhile.
EndedIsUnusable ==
  \A s \in ended : ~AccessHonoured(s) /\ ~Redeemable(s)

\* How the gateways judge the tokens of a pair, while Redis answers.
Judged(s, honoured) ==
  IF ~Known(s) THEN "none" ELSE IF honoured THEN "good" ELSE "refused"

AccessJudged == [s \in Sids |-> Judged(s, AccessHonoured(s))]
RefreshJudged == [s \in Sids |-> Judged(s, Redeemable(s))]

Life == INSTANCE TokenLife WITH access <- AccessJudged, refresh <- RefreshJudged

\* A pair is good when it is issued, and a token that is refused once is refused
\* ever after: no interleaving, lost write, expiry of a blacklist key or later
\* request brings it back.
ImplementsTokenLife == Life!Spec

Successors(s) == {c \in Sids : parent[c] = s}

\* Rotation does not lock the row between its SELECT and its UPDATE, so one
\* refresh token can be exchanged several times; but no more often than there
\* are requests at work at once, plus one for each UPDATE that failed.
ExchangesBounded ==
  \A s \in Sids : Cardinality(Successors(s)) <= Cardinality(Requests) + lost

=============================================================================
