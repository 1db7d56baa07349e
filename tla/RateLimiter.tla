----------------------------- MODULE RateLimiter -----------------------------
(***************************************************************************)
(* The sliding window of backend/pkg/redis as RateLimiter                  *)
(* (backend/pkg/middleware/ratelimit.go) uses it: one sorted set per key,  *)
(* whose members are the seconds in which requests came, refused ones      *)
(* included.                                                               *)
(*                                                                         *)
(* A pipeline is not a transaction: a gateway reads its clock, and later   *)
(* Redis executes the commands, with those of other requests in between.   *)
(* The client sends a pipeline again when the connection breaks, and gives *)
(* it up after some time, whatever of it has been executed.                *)
(* The clocks of the gateways and of Redis are taken to be one.            *)
(***************************************************************************)
EXTENDS Integers, FiniteSets

CONSTANTS
  Requests,  \* the requests that are in the limiter at a time
  Users,     \* the users of one portal, or the addresses logins come from
  Zero,      \* the UserID nobody has
  Portal,    \* "selfcare", "operator" or "admin"; "login" is that of any of them
  Limit,     \* RateLimitRPM, RateLimitRPS, or that of EndpointRateLimiter
  Window,    \* a minute or a second, in seconds
  Delay,     \* seconds after which the Redis client gives a pipeline up
  MaxTime    \* bound of the model: the last second

ASSUME RequestsAssumption == IsFiniteSet(Requests)
ASSUME UsersAssumption == Zero \notin Users
ASSUME LimitAssumption == Limit \in Nat \ {0} /\ Window \in Nat \ {0}
ASSUME TimeAssumption == Delay \in 0 .. Window - 1 /\ MaxTime \in Nat

VARIABLES
  now,       \* time.Now().Unix()
  request,   \* request[r]: its next command, user, time and answer to ZCARD
  hits,      \* hits[k]: the members of the sorted set of key k
  until,     \* until[k]: when key k expires
  admitted,  \* history: admitted[k]: seconds in which a request was let through
  sent,      \* history: sent[u]: seconds of the requests of u that were added
  early,     \* history: keys that refused before Limit seconds had been sent
  undue      \* history: users who were refused for the requests of others

history == <<admitted, sent, early, undue>>
vars == <<now, request, hits, until, history>>

\* DefaultKeyExtractor: claims.UserID, which the self-care login leaves zero (it
\* sets SubscriberID); LoginKeyExtractor: the address.
Key(u) == IF Portal = "selfcare" THEN Zero ELSE u

Keys == {Key(u) : u \in Users}

TypeOK ==
  /\ now \in 0 .. MaxTime
  /\ request \in [Requests -> [step : {"idle", "count", "add"}, user : Users,
                               at : 0 .. now, count : Nat]]
  /\ hits \in [Keys -> SUBSET (0 .. now)]
  /\ until \in [Keys -> 0 .. MaxTime + Window]
  /\ admitted \in [Keys -> SUBSET (0 .. now)]
  /\ sent \in [Users -> SUBSET (0 .. now)]
  /\ early \in SUBSET Keys
  /\ undue \in SUBSET Users

-----------------------------------------------------------------------------

Init ==
  /\ now = 0
  /\ request \in [Requests -> [step : {"idle"}, user : Users, at : {0}, count : {0}]]
  /\ hits = [k \in Keys |-> {}]
  /\ until = [k \in Keys |-> 0]
  /\ admitted = [k \in Keys |-> {}]
  /\ sent = [u \in Users |-> {}]
  /\ early = {}
  /\ undue = {}

KeyOf(r) == Key(request[r].user)

\* The score ZREMRANGEBYSCORE removes up to.  A slip to compare with: up to that
\* of the second before.
WindowStartExclusive(r) == request[r].at - Window - 1
WindowStart(r) == request[r].at - Window

\* A slip to compare with: the request itself is not thought of.
AllowedUpToLimit(count) == count <= Limit
Allowed(count) == count < Limit

\* A request of u comes in; the time is read.
Begin(r, u) ==
  /\ request[r].step = "idle"
  /\ request' = [request EXCEPT ![r] = [step |-> "count", user |-> u,
                                        at |-> now, count |-> 0]]
  /\ UNCHANGED <<now, hits, until, history>>

\* ZREMRANGEBYSCORE, ZCARD
Count(r) ==
  LET kept == {t \in hits[KeyOf(r)] : t > WindowStart(r)}
  IN  /\ request[r].step = "count"
      /\ hits' = [hits EXCEPT ![KeyOf(r)] = kept]
      /\ request' = [request EXCEPT ![r].step = "add", ![r].count = Cardinality(kept)]
      /\ UNCHANGED <<now, until, history>>

Idle(r) == [request[r] EXCEPT !.step = "idle", !.at = 0, !.count = 0]

\* The seconds of the window of r in which one of us sent requests.
SentBy(us, r) ==
  {t \in 0 .. now : t > request[r].at - Window /\ \E u \in us : t \in sent[u]}

Sharing(k) == {u \in Users : Key(u) = k}

\* The answer to the request: next(c), or 429.
Answer(r) ==
  LET u == request[r].user
      k == KeyOf(r)
  IN  IF Allowed(request[r].count)
        THEN /\ admitted' = [admitted EXCEPT ![k] = @ \cup {request[r].at}]
             /\ UNCHANGED <<early, undue>>
        ELSE /\ early' = IF Cardinality(SentBy(Sharing(k), r)) < Limit
                           THEN early \cup {k} ELSE early
             /\ undue' = IF Cardinality(SentBy({u}, r)) < Limit
                           THEN undue \cup {u} ELSE undue
             /\ UNCHANGED admitted

\* The member of the set.  A slip to compare with: it is in another unit.
MemberInTenths(r) == 10 * request[r].at
Member(r) == request[r].at

\* ZADD and EXPIRE take effect.
Enter(r) ==
  /\ hits' = [hits EXCEPT ![KeyOf(r)] = @ \cup {Member(r)}]
  /\ until' = [until EXCEPT ![KeyOf(r)] = now + Window]
  /\ sent' = [sent EXCEPT ![request[r].user] = @ \cup {request[r].at}]

\* The pipeline is over, and answered.
Add(r) ==
  /\ request[r].step = "add"
  /\ Enter(r)
  /\ Answer(r)
  /\ request' = [request EXCEPT ![r] = Idle(r)]
  /\ UNCHANGED now

\* Redis does not answer, before the last commands or with their reply: the
\* pipeline is sent again, with the time of the first, or the request is let
\* through unlimited.
Again(r) == [request[r] EXCEPT !.step = "count", !.count = 0]

FailOpen(r) ==
  /\ request[r].step # "idle"
  /\ \E next \in {Again(r), Idle(r)} : request' = [request EXCEPT ![r] = next]
  /\ \/ UNCHANGED <<hits, until, sent>>
     \/ request[r].step = "add" /\ Enter(r)
  /\ UNCHANGED <<now, admitted, early, undue>>

\* A key is gone at its expiry.
Tick ==
  /\ now < MaxTime
  /\ \A r \in Requests : request[r].step # "idle" => now < request[r].at + Delay
  /\ now' = now + 1
  /\ hits' = [k \in Keys |-> IF until[k] <= now' THEN {} ELSE hits[k]]
  /\ UNCHANGED <<request, until, history>>

Next ==
  \/ \E r \in Requests : \/ \E u \in Users : Begin(r, u)
                         \/ Count(r) \/ Add(r) \/ FailOpen(r)
  \/ Tick

Spec == Init /\ [][Next]_vars

-----------------------------------------------------------------------------
(***************************************************************************)
(* Properties.                                                             *)
(***************************************************************************)

\* The limiter counts seconds, not requests: in any window it lets requests of
\* a key through, on what it has counted, in at most Limit different seconds,
\* however many come at a time, and in Delay more while pipelines are under way
\* that do not see each other.
AdmissionsSpread ==
  \A k \in Keys, end \in 0 .. now :
    Cardinality({t \in admitted[k] : end - Window < t /\ t <= end})
      <= Limit + Delay

\* Nobody is refused before requests of the key, refused ones and the first
\* sending of a pipeline that is sent again included, have come in Limit seconds
\* of the window: no member outlives the window, and none is of another key.
RefusalsAreDue == early = {}

\* docs/SECURITY.md, 4.1: the limit is one per user.  Nobody is refused who has
\* sent requests in fewer than Limit seconds of the window, whatever other users
\* have sent.
LimitIsPerUser == undue = {}

=============================================================================
