---------------------------- MODULE Idempotency ----------------------------
(***************************************************************************)
(* IdempotencyMiddleware (backend/pkg/middleware/idempotency.go) for one   *)
(* Idempotency-Key of one portal: the row of rpc_idempotency_keys, its     *)
(* copy in Redis, and the mutating requests that carry the key: first      *)
(* calls, retries, and calls that reuse it with another body.              *)
(*                                                                         *)
(* Nothing is reserved before the handler runs.  A request asks Redis,     *)
(* then the table, runs the handler, and only then stores the response, so *)
(* these are separate steps between which other requests act, any of the   *)
(* two stores may fail, and the gateway may stop.                          *)
(***************************************************************************)
EXTENDS Integers, FiniteSets

CONSTANTS
  Requests,  \* the requests sent with the key
  Bodies,    \* request bodies, up to their SHA-256
  TTL,       \* cfg.Security.IdempotencyTTL, in ticks of the clock
  MaxTime,   \* bound of the model: the last tick of the clock
  NoReq      \* no request

ASSUME SetsAssumption == NoReq \notin Requests /\ Bodies # {}
ASSUME TTLAssumption == TTL \in Nat \ {0} /\ MaxTime \in Nat

VARIABLES
  now,       \* the clock of the gateways, PostgreSQL and Redis
  step,      \* step[r]: the statement of the middleware r executes next
  body,      \* body[r]: what r sent
  table,     \* the row of the key: whose response it holds, until when
  cache,     \* the Redis entry of the key
  outcome,   \* outcome[r]: how the handler ended, if it ran
  answer,    \* answer[r]: how r was answered
  source,    \* source[r]: the request whose response r was given
  promised,  \* history: the latest expiry some request has stored
  expected,  \* history: expected[r] is promised as it was when r arrived
  ranAt,     \* history: ranAt[r] is when r passed the lookup
  blind      \* history: requests whose lookup in the table failed

stores == <<table, cache>>
replies == <<outcome, answer, source>>
history == <<promised, expected, ranAt, blind>>
vars == <<now, step, body, stores, replies, history>>

Steps == {"new", "lookup", "recache", "run", "store", "cache", "done"}
Outcomes == {"object", "other", "error"}
Answers == {"none", "own", "fromCache", "fromTable", "conflict", "error"}

\* A stored response, named after the request that produced it.  In the table
\* it stands next to the hash of a body.
Entry == [by : Requests \cup {NoReq}, hash : Bodies, until : Nat]

TypeOK ==
  /\ now \in Nat
  /\ step \in [Requests -> Steps]
  /\ body \in [Requests -> Bodies]
  /\ table \in Entry
  /\ cache \in [by : Requests \cup {NoReq}, until : Nat]
  /\ outcome \in [Requests -> {"none"} \cup Outcomes]
  /\ answer \in [Requests -> Answers]
  /\ source \in [Requests -> Requests \cup {NoReq}]
  /\ promised \in Nat
  /\ expected \in [Requests -> Nat]
  /\ ranAt \in [Requests -> Nat]
  /\ blind \in SUBSET Requests

-----------------------------------------------------------------------------

\* GET finds the entry; WHERE ... expires_at > NOW() selects the row.
Fresh(entry) == now < entry.until

Go(r, next) == step' = [step EXCEPT ![r] = next]

\* r is answered, with the response of request s, and is over.
Reply(r, how, s) ==
  /\ Go(r, "done")
  /\ answer' = [answer EXCEPT ![r] = how]
  /\ source' = [source EXCEPT ![r] = s]

\* INSERT ... ON CONFLICT DO UPDATE: hash, response and expiry are replaced
\* together.  Slips to compare with: a DO UPDATE that leaves one of them out, an
\* expiry in the past.
UpsertKeepsHash(r) == [by |-> r, hash |-> table.hash, until |-> now + TTL]

UpsertKeepsExpiry(r) ==
  [by |-> r, hash |-> body[r],
   until |-> IF table.by = NoReq THEN now + TTL ELSE table.until]

UpsertInThePast(r) == [by |-> r, hash |-> body[r], until |-> now - TTL]

Upsert(r) == [by |-> r, hash |-> body[r], until |-> now + TTL]

-----------------------------------------------------------------------------

Init ==
  /\ now = 0
  /\ step = [r \in Requests |-> "new"]
  /\ body \in [Requests -> Bodies]
  /\ table = [by |-> NoReq, hash |-> CHOOSE b \in Bodies : TRUE, until |-> 0]
  /\ cache = [by |-> NoReq, until |-> 0]
  /\ outcome = [r \in Requests |-> "none"]
  /\ answer = [r \in Requests |-> "none"]
  /\ source = [r \in Requests |-> NoReq]
  /\ promised = 0
  /\ expected = [r \in Requests |-> 0]
  /\ ranAt = [r \in Requests |-> 0]
  /\ blind = {}

\* r arrives.  A hit in Redis is the answer, whatever body r carries.
HitCache(r) ==
  /\ step[r] = "new"
  /\ Fresh(cache)
  /\ Reply(r, "fromCache", cache.by)
  /\ expected' = [expected EXCEPT ![r] = promised]
  /\ UNCHANGED <<now, body, stores, outcome, promised, ranAt, blind>>

\* r arrives and Redis has nothing, or fails.
MissCache(r) ==
  /\ step[r] = "new"
  /\ Go(r, "lookup")
  /\ expected' = [expected EXCEPT ![r] = promised]
  /\ UNCHANGED <<now, body, stores, replies, promised, ranAt, blind>>

\* The row is there, for another body: 409.
Conflict(r) ==
  /\ step[r] = "lookup"
  /\ Fresh(table)
  /\ table.hash # body[r]
  /\ Reply(r, "conflict", NoReq)
  /\ UNCHANGED <<now, body, stores, outcome, history>>

\* The row is there: its response is copied to Redis (Recache) and sent.
HitTable(r) ==
  /\ step[r] = "lookup"
  /\ Fresh(table)
  /\ table.hash = body[r]
  /\ Go(r, "recache")
  /\ source' = [source EXCEPT ![r] = table.by]
  /\ UNCHANGED <<now, body, stores, outcome, answer, history>>

Recache(r) ==
  /\ step[r] = "recache"
  /\ Reply(r, "fromTable", source[r])
  /\ \/ cache' = [by |-> source[r], until |-> now + TTL]
     \/ UNCHANGED cache  \* Set failed; its error is dropped
  /\ UNCHANGED <<now, body, table, outcome, history>>

\* No row: the handler is to run.  Every error of QueryRow, pgx.ErrNoRows or
\* not, is taken for "no row".
MissTable(r) ==
  /\ step[r] = "lookup"
  /\ Go(r, "run")
  /\ ranAt' = [ranAt EXCEPT ![r] = now]
  /\ blind' = IF Fresh(table) THEN blind \cup {r} ELSE blind
  /\ UNCHANGED <<now, body, stores, replies, promised, expected>>

\* The handler runs.  A 2xx with a JSON object is stored; a 2xx with another
\* body (204, a list) is sent and forgotten, an error returned at once.
\* A slip to compare with: the status is not looked at.
RunStoringErrors(r, how) ==
  /\ step[r] = "run"
  /\ outcome' = [outcome EXCEPT ![r] = how]
  /\ Go(r, "store")
  /\ UNCHANGED <<now, body, stores, answer, source, history>>

Run(r, how) ==
  /\ step[r] = "run"
  /\ outcome' = [outcome EXCEPT ![r] = how]
  /\ \/ /\ how = "object"
        /\ Go(r, "store")
        /\ UNCHANGED <<answer, source>>
     \/ how = "other" /\ Reply(r, "own", r)
     \/ how = "error" /\ Reply(r, "error", NoReq)
  /\ UNCHANGED <<now, body, stores, history>>

Store(r) ==
  /\ step[r] = "store"
  /\ Go(r, "cache")
  /\ \/ table' = Upsert(r) /\ promised' = now + TTL
     \/ UNCHANGED <<table, promised>>  \* Exec failed; its error is dropped
  /\ UNCHANGED <<now, body, cache, replies, expected, ranAt, blind>>

Cache(r) ==
  /\ step[r] = "cache"
  /\ Reply(r, "own", r)
  /\ \/ cache' = [by |-> r, until |-> now + TTL]
     \/ UNCHANGED cache
  /\ UNCHANGED <<now, body, table, outcome, history>>

\* The gateway stops, or the client's connection takes r down with it.
Abort(r) ==
  /\ step[r] \notin {"new", "done"}
  /\ Go(r, "done")
  /\ UNCHANGED <<now, body, stores, replies, history>>

Tick ==
  /\ now < MaxTime
  /\ now' = now + 1
  /\ UNCHANGED <<step, body, stores, replies, history>>

Next ==
  \/ \E r \in Requests :
       \/ HitCache(r) \/ MissCache(r)
       \/ Conflict(r) \/ HitTable(r) \/ Recache(r) \/ MissTable(r)
       \/ \E how \in Outcomes : Run(r, how)
       \/ Store(r) \/ Cache(r) \/ Abort(r)
  \/ Tick

Spec == Init /\ [][Next]_vars

-----------------------------------------------------------------------------
(***************************************************************************)
(* Properties.                                                             *)
(***************************************************************************)

Ran == {r \in Requests : outcome[r] # "none"}

\* A retry that arrives after some call has stored its response, and reads the
\* table before the expiry that call stored, never runs the handler again;
\* only a failing SELECT lets it through.
SequentialOnce ==
  \A r \in Ran \ blind : expected[r] <= ranAt[r]

\* Whatever is replayed is the response of a call that succeeded.
ReplayIsOfSuccess ==
  \A r \in Requests :
    answer[r] \in {"fromCache", "fromTable"} =>
      source[r] \in Requests /\ outcome[source[r]] = "object"

\* A replay out of the table is the response to the very same body, though
\* concurrent calls with other bodies overwrite the row in between.
TableReplayMatchesBody ==
  \A r \in Requests :
    answer[r] = "fromTable" => body[source[r]] = body[r]

=============================================================================
