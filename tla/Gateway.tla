------------------------------ MODULE Gateway ------------------------------
(***************************************************************************)
(* What a request passes on its way to a handler of a gateway              *)
(* (backend/<portal>-gateway/cmd/main.go, backend/pkg/middleware): the JWT *)
(* and the rate limiter, the idempotency middleware, then CSRF, the        *)
(* blacklist, RequireMFA and RequirePermission, in this order.             *)
(*                                                                         *)
(* The idempotency middleware wraps those behind it: its steps are those   *)
(* of Idempotency, put in their place in the chain.  What Idempotency      *)
(* calls the handler is here the rest of the chain: a refusal is an error  *)
(* it sees, and a replay never gets that far.  Except the blacklist, which *)
(* is read in Redis, a check is one choice: JWT, CSRF, MFA and permission  *)
(* depend on the request alone, and RateLimiter is a module of its own.    *)
(***************************************************************************)
EXTENDS Idempotency

CONSTANTS
  Plain,     \* GETs, and requests without an Idempotency-Key
  Tokens     \* the access tokens, named by their jti

ASSUME PlainAssumption == Plain \cap Requests = {}

VARIABLES
  token,     \* token[r]: what r carries
  place,     \* place[r]: how far r has come
  blacklist, \* the keys blacklist:<jti> in Redis
  tooLate,   \* history: requests whose token was revoked before they arrived
  unchecked, \* history: requests for which the blacklist gave no answer
  handled    \* history: requests whose handler has run

\* vars and stores, Init and the actions of the middleware are Idempotency's.
revocation == <<blacklist, tooLate, unchecked>>
chainVars == <<vars, token, place, revocation, handled>>

All == Requests \cup Plain

\* Whose handler runs has the middleware waiting at its next(c): it has neither
\* still to look up nor already answered.
InStep == \A r \in Requests : place[r] = "handler" => step[r] = "run"

ChainTypeOK ==
  /\ TypeOK
  /\ InStep
  /\ token \in [All -> Tokens]
  /\ place \in [All -> {"new", "inside", "handler", "over"}]
  /\ blacklist \in SUBSET Tokens
  /\ tooLate \in SUBSET All
  /\ unchecked \in SUBSET All
  /\ handled \in SUBSET All

-----------------------------------------------------------------------------

ChainInit ==
  /\ Init
  /\ token \in [All -> Tokens]
  /\ place = [r \in All |-> "new"]
  /\ blacklist = {}
  /\ tooLate = {}
  /\ unchecked = {}
  /\ handled = {}

Move(r, next) == place' = [place EXCEPT ![r] = next]

\* r arrives; the JWT or the limiter refuses it, or both let it through.
Arrive(r) ==
  /\ place[r] = "new"
  /\ tooLate' = IF token[r] \in blacklist THEN tooLate \cup {r} ELSE tooLate
  /\ Move(r, "over") \/ Move(r, "inside")
  /\ UNCHANGED <<vars, token, blacklist, unchecked, handled>>

\* What the idempotency middleware does itself, before and after its next(c).
Deduplicate(r) ==
  /\ place[r] = "inside"
  /\ \/ HitCache(r) \/ MissCache(r) \/ Conflict(r)
     \/ HitTable(r) \/ Recache(r) \/ MissTable(r)
     \/ Store(r) \/ Cache(r)
  /\ UNCHANGED <<token, place, revocation, handled>>

\* r is where the middleware calls next(c), or has passed it by.  A slip to
\* compare with: the middleware goes on to next(c) after a replay or a conflict.
AtNextAnyway(r) == place[r] = "inside"
AtNext(r) == /\ place[r] = "inside"
             /\ r \in Requests => step[r] = "run"

\* What next(c) returns.  A slip to compare with: a refusal is written as a
\* response and no error returned.
ReturnAsHandled(r) == RunStoringErrors(r, "error")
Return(r) == Run(r, "error")

\* A middleware behind refuses: CSRF, blacklist, MFA, permission.
Refuse(r) ==
  /\ AtNext(r)
  /\ \/ r \in Requests /\ Return(r) /\ UNCHANGED place
     \/ r \in Plain /\ Move(r, "over") /\ UNCHANGED vars
  /\ UNCHANGED <<token, revocation, handled>>

\* IsTokenBlacklisted says no when Redis does not answer.  A slip to compare
\* with: another id than the jti is looked up.
NotBlacklistedElsewhere(r) == UNCHANGED unchecked
NotBlacklisted(r) ==
  \/ token[r] \notin blacklist /\ UNCHANGED unchecked
  \/ unchecked' = unchecked \cup {r}

\* All of CSRF, blacklist, MFA and permission let r pass.
Pass(r) ==
  /\ AtNext(r)
  /\ NotBlacklisted(r)
  /\ Move(r, "handler")
  /\ UNCHANGED <<vars, token, blacklist, tooLate, handled>>

\* The handler runs.  Nothing is left of a plain request.
Handle(r) ==
  /\ place[r] = "handler"
  /\ handled' = handled \cup {r}
  /\ \/ /\ r \in Requests
        /\ \E how \in Outcomes : Run(r, how)
        /\ Move(r, "inside")
     \/ /\ r \in Plain
        /\ Move(r, "over")
        /\ UNCHANGED vars
  /\ UNCHANGED <<token, revocation>>

\* The connection or the gateway goes down with r.
Drop(r) ==
  /\ place[r] \in {"inside", "handler"}
  /\ Abort(r)
  /\ Move(r, "over")
  /\ UNCHANGED <<token, revocation, handled>>

\* Logout, rotation or RevokeSession puts the jti on the blacklist, for longer
\* than the token lives.
Revoke(t) ==
  /\ t \notin blacklist
  /\ blacklist' = blacklist \cup {t}
  /\ UNCHANGED <<vars, token, place, tooLate, unchecked, handled>>

ChainTick ==
  /\ Tick
  /\ UNCHANGED <<token, place, revocation, handled>>

ChainNext ==
  \/ \E r \in All : Arrive(r) \/ Refuse(r) \/ Pass(r) \/ Handle(r)
  \/ \E r \in Requests : Deduplicate(r) \/ Drop(r)
  \/ \E t \in Tokens : Revoke(t)
  \/ ChainTick

ChainSpec == ChainInit /\ [][ChainNext]_chainVars

-----------------------------------------------------------------------------
(***************************************************************************)
(* Properties.                                                             *)
(***************************************************************************)

\* The chain keeps the promises of Idempotency: whatever is refused before,
\* inside or after the middleware looks to it like some handler's outcome.
ImplementsIdempotency == Spec

\* A request whose token was revoked before it arrived runs no handler, however
\* long the lookups before the blacklist take.  Only a blacklist that does not
\* answer lets it through.
RevokedRunsNothing == handled \cap tooLate \subseteq unchecked

\* Whoever is answered with a response, its own or a replay, is answered with
\* one of a request that all the checks have let through to its handler,
\* though the middleware that stores it stands before the checks.
RepliesWerePermitted ==
  \A r \in Requests : source[r] \in Requests => source[r] \in handled

=============================================================================
