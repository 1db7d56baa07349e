---------------------------- MODULE GatewayProofs ----------------------------
(***************************************************************************)
(* Proofs about Idempotency and Gateway, for all sets of requests, bodies  *)
(* and tokens and every lifetime of a key: what the middleware replays,    *)
(* and when it is sure to replay; that the chain of middlewares implements *)
(* it, and what the chain adds.                                            *)
(***************************************************************************)
EXTENDS Gateway, TLAPS

USE SetsAssumption, TTLAssumption, PlainAssumption

-----------------------------------------------------------------------------
(***************************************************************************)
(* Type correctness of the middleware.                                     *)
(***************************************************************************)

LEMMA TypeInit == Init => TypeOK
<1> SUFFICES ASSUME Init PROVE TypeOK
  OBVIOUS
<1>1. (CHOOSE b \in Bodies : TRUE) \in Bodies
  OBVIOUS
<1> QED
  BY <1>1 DEF Init, TypeOK, Entry, Steps, Answers

LEMMA TypeStep == TypeOK /\ [Next]_vars => TypeOK'
<1> SUFFICES ASSUME TypeOK, [Next]_vars PROVE TypeOK'
  OBVIOUS
<1> USE DEF TypeOK, Go, Reply, stores, replies, history
<1>1. ASSUME NEW r \in Requests, HitCache(r)
      PROVE  TypeOK'
  BY <1>1 DEF HitCache, Steps, Answers
<1>2. ASSUME NEW r \in Requests, MissCache(r)
      PROVE  TypeOK'
  BY <1>2 DEF MissCache, Steps
<1>3. ASSUME NEW r \in Requests, Conflict(r)
      PROVE  TypeOK'
  BY <1>3 DEF Conflict, Steps, Answers
<1>4. ASSUME NEW r \in Requests, HitTable(r)
      PROVE  TypeOK'
  BY <1>4 DEF HitTable, Steps, Entry
<1>5. ASSUME NEW r \in Requests, Recache(r)
      PROVE  TypeOK'
  BY <1>5 DEF Recache, Steps, Answers
<1>6. ASSUME NEW r \in Requests, MissTable(r)
      PROVE  TypeOK'
  BY <1>6 DEF MissTable, Steps
<1>7. ASSUME NEW r \in Requests, NEW how \in Outcomes, Run(r, how)
      PROVE  TypeOK'
  BY <1>7 DEF Run, Steps, Answers
<1>8. ASSUME NEW r \in Requests, Store(r)
      PROVE  TypeOK'
  BY <1>8 DEF Store, Upsert, Steps, Entry
<1>9. ASSUME NEW r \in Requests, Cache(r)
      PROVE  TypeOK'
  BY <1>9 DEF Cache, Steps, Answers
<1>10. ASSUME NEW r \in Requests, Abort(r)
       PROVE  TypeOK'
  BY <1>10 DEF Abort, Steps
<1>11. CASE Tick
  BY <1>11 DEF Tick
<1>12. CASE UNCHANGED vars
  BY <1>12 DEF vars
<1> QED
  BY <1>1, <1>2, <1>3, <1>4, <1>5, <1>6, <1>7, <1>8, <1>9, <1>10, <1>11, <1>12
     DEF Next

\* Every store, step and answer stays in its domain.
THEOREM TypeCorrect == Spec => []TypeOK
  BY TypeInit, TypeStep, PTL DEF Spec

-----------------------------------------------------------------------------
(***************************************************************************)
(* Retries after a stored response.                                        *)
(***************************************************************************)

\* The row lasts as long as any request was promised, so that a request that
\* finds no row has outlived what it was to expect.
PromiseInv ==
  /\ promised <= table.until /\ promised <= now + TTL
  /\ \A r \in Requests : expected[r] <= promised
  /\ \A r \in Requests \ blind :
       step[r] \notin {"new", "lookup"} /\ (step[r] = "run" \/ r \in Ran) =>
         expected[r] <= ranAt[r]
  /\ \A r \in Requests : step[r] \in {"new", "lookup"} => outcome[r] = "none"
  /\ \A r \in Requests : step[r] = "run" => outcome[r] = "none"

LEMMA PromiseStep == TypeOK /\ PromiseInv /\ [Next]_vars => PromiseInv'
<1> SUFFICES ASSUME TypeOK, PromiseInv, [Next]_vars PROVE PromiseInv'
  OBVIOUS
<1> USE DEF TypeOK, PromiseInv, Ran, Go, Reply, stores, replies, history
<1>1. ASSUME NEW r \in Requests, HitCache(r) \/ MissCache(r)
      PROVE  PromiseInv'
  BY <1>1 DEF HitCache, MissCache, Entry
<1>2. ASSUME NEW r \in Requests, Conflict(r) \/ HitTable(r) \/ Recache(r)
      PROVE  PromiseInv'
  BY <1>2 DEF Conflict, HitTable, Recache
<1>3. ASSUME NEW r \in Requests, MissTable(r)
      PROVE  PromiseInv'
  BY <1>3 DEF MissTable, Fresh, Entry
<1>4. ASSUME NEW r \in Requests, NEW how \in Outcomes, Run(r, how)
      PROVE  PromiseInv'
  BY <1>4 DEF Run, Outcomes
<1>5. ASSUME NEW r \in Requests, Store(r)
      PROVE  PromiseInv'
  BY <1>5 DEF Store, Upsert, Entry
<1>6. ASSUME NEW r \in Requests, Cache(r) \/ Abort(r)
      PROVE  PromiseInv'
  BY <1>6 DEF Cache, Abort
<1>7. ASSUME Tick \/ UNCHANGED vars
      PROVE  PromiseInv'
  BY <1>7 DEF Tick, vars
<1> QED
  BY <1>1, <1>2, <1>3, <1>4, <1>5, <1>6, <1>7 DEF Next

\* A retry that comes after a stored response and looks before its expiry does
\* not run the handler again, unless its SELECT fails.
THEOREM RetriesRunOnce == Spec => []SequentialOnce
<1>1. Init => PromiseInv
  BY DEF Init, PromiseInv, Ran
<1>2. PromiseInv => SequentialOnce
  BY DEF PromiseInv, SequentialOnce, Ran
<1> QED
  BY <1>1, <1>2, TypeInit, TypeStep, PromiseStep, PTL DEF Spec

-----------------------------------------------------------------------------
(***************************************************************************)
(* What is replayed.                                                       *)
(***************************************************************************)

Succeeded(r) == r \in Requests /\ outcome[r] = "object"

\* Both stores, and whoever is about to write or send a response, hold one of
\* a call that succeeded; the row and what was read from it also have the body
\* of that call.
ReplayInv ==
  /\ table.by # NoReq => Succeeded(table.by) /\ body[table.by] = table.hash
  /\ cache.by # NoReq => Succeeded(cache.by)
  /\ table.by = NoReq => table.until = 0
  /\ cache.by = NoReq => cache.until = 0
  /\ \A r \in Requests :
       /\ step[r] \in {"store", "cache"} => Succeeded(r)
       /\ step[r] = "recache" =>
            Succeeded(source[r]) /\ body[source[r]] = body[r]
       /\ answer[r] = "fromCache" => Succeeded(source[r])
       /\ answer[r] = "fromTable" =>
            Succeeded(source[r]) /\ body[source[r]] = body[r]
       /\ step[r] # "done" => answer[r] = "none"
       /\ step[r] \in {"new", "lookup", "run"} => outcome[r] = "none"

LEMMA ReplayStep == TypeOK /\ ReplayInv /\ [Next]_vars => ReplayInv'
<1> SUFFICES ASSUME TypeOK, ReplayInv, [Next]_vars PROVE ReplayInv'
  OBVIOUS
<1> USE DEF TypeOK, ReplayInv, Succeeded, Go, Reply, stores, replies, history
<1>1. ASSUME NEW r \in Requests, HitCache(r)
      PROVE  ReplayInv'
  BY <1>1 DEF HitCache, Fresh
<1>2. ASSUME NEW r \in Requests, MissCache(r) \/ Conflict(r) \/ MissTable(r)
      PROVE  ReplayInv'
  BY <1>2 DEF MissCache, Conflict, MissTable
<1>3. ASSUME NEW r \in Requests, HitTable(r)
      PROVE  ReplayInv'
  BY <1>3 DEF HitTable, Fresh, Entry
<1>4. ASSUME NEW r \in Requests, Recache(r)
      PROVE  ReplayInv'
  BY <1>4 DEF Recache
<1>5. ASSUME NEW r \in Requests, NEW how \in Outcomes, Run(r, how)
      PROVE  ReplayInv'
  BY <1>5 DEF Run, Outcomes
<1>6. ASSUME NEW r \in Requests, Store(r)
      PROVE  ReplayInv'
  BY <1>6 DEF Store, Upsert
<1>7. ASSUME NEW r \in Requests, Cache(r)
      PROVE  ReplayInv'
  BY <1>7 DEF Cache
<1>8. ASSUME NEW r \in Requests, Abort(r)
      PROVE  ReplayInv'
  BY <1>8 DEF Abort
<1>9. ASSUME Tick \/ UNCHANGED vars
      PROVE  ReplayInv'
  BY <1>9 DEF Tick, vars
<1> QED
  BY <1>1, <1>2, <1>3, <1>4, <1>5, <1>6, <1>7, <1>8, <1>9 DEF Next

LEMMA ReplayInvariant == Spec => []ReplayInv
<1>1. Init => ReplayInv
  BY DEF Init, ReplayInv
<1> QED
  BY <1>1, TypeInit, TypeStep, ReplayStep, PTL DEF Spec

\* Only responses of successful calls are replayed, also while other calls
\* overwrite the row and the Redis entry.
THEOREM ReplaysAreSuccesses == Spec => []ReplayIsOfSuccess
<1> ReplayInv => ReplayIsOfSuccess
  BY DEF ReplayInv, ReplayIsOfSuccess, Succeeded
<1> QED
  BY ReplayInvariant, PTL

\* A replay out of the table answers the body it was stored for.
THEOREM TableReplaysMatch == Spec => []TableReplayMatchesBody
<1> ReplayInv => TableReplayMatchesBody
  BY DEF ReplayInv, TableReplayMatchesBody
<1> QED
  BY ReplayInvariant, PTL

-----------------------------------------------------------------------------
(***************************************************************************)
(* Implementation of Idempotency.                                          *)
(***************************************************************************)

\* Every step of the chain is one of the idempotency middleware, or none of its
\* business: a refusal behind it and the handler are both its next(c).
LEMMA StepSimulation == [ChainNext]_chainVars => [Next]_vars
<1> SUFFICES ASSUME [ChainNext]_chainVars PROVE Next \/ UNCHANGED vars
  OBVIOUS
<1>1. ASSUME NEW r \in All, Arrive(r)
      PROVE  UNCHANGED vars
  BY <1>1 DEF Arrive
<1>2. ASSUME NEW r \in All, Refuse(r)
      PROVE  Next \/ UNCHANGED vars
  <2>1. CASE r \in Requests /\ Return(r)
    BY <2>1 DEF Return, Next, Outcomes
  <2> QED
    BY <1>2, <2>1 DEF Refuse
<1>3. ASSUME NEW r \in All, Pass(r)
      PROVE  UNCHANGED vars
  BY <1>3 DEF Pass
<1>4. ASSUME NEW r \in All, Handle(r)
      PROVE  Next \/ UNCHANGED vars
  <2>1. ASSUME r \in Requests, NEW how \in Outcomes, Run(r, how)
        PROVE  Next
    BY <2>1 DEF Next
  <2> QED
    BY <1>4, <2>1 DEF Handle
<1>5. ASSUME NEW r \in Requests, Deduplicate(r)
      PROVE  Next
  BY <1>5 DEF Deduplicate, Next
<1>6. ASSUME NEW r \in Requests, Drop(r)
      PROVE  Next
  BY <1>6 DEF Drop, Next
<1>7. ASSUME NEW t \in Tokens, Revoke(t)
      PROVE  UNCHANGED vars
  BY <1>7 DEF Revoke
<1>8. CASE ChainTick
  BY <1>8 DEF ChainTick, Next
<1>9. CASE UNCHANGED chainVars
  BY <1>9 DEF chainVars
<1> QED
  BY <1>1, <1>2, <1>3, <1>4, <1>5, <1>6, <1>7, <1>8, <1>9 DEF ChainNext

\* What Idempotency promises of its middleware holds in a gateway, whatever
\* the middlewares around it refuse and whenever tokens are revoked.
THEOREM ChainImplementsIdempotency == ChainSpec => ImplementsIdempotency
<1>1. ChainInit => Init
  BY DEF ChainInit
<1> QED
  BY <1>1, StepSimulation, PTL DEF ChainSpec, ImplementsIdempotency, Spec

\* In particular what is proved of the middleware above.
THEOREM ChainKeepsPromises ==
  ChainSpec => [](SequentialOnce /\ ReplayIsOfSuccess /\ TableReplayMatchesBody)
<1>1. ChainSpec => Spec
  BY ChainImplementsIdempotency DEF ImplementsIdempotency
<1> QED
  BY <1>1, RetriesRunOnce, ReplaysAreSuccesses, TableReplaysMatch, PTL

-----------------------------------------------------------------------------
(***************************************************************************)
(* Type correctness of the chain.                                          *)
(***************************************************************************)

\* The middleware moves while the request is inside, or with it.
LEMMA InStepKept == ChainTypeOK /\ [ChainNext]_chainVars => InStep'
<1> SUFFICES ASSUME ChainTypeOK, [ChainNext]_chainVars,
                    NEW x \in Requests, place'[x] = "handler"
             PROVE  step'[x] = "run"
  BY DEF InStep
<1>1. /\ place \in [All -> {"new", "inside", "handler", "over"}]
      /\ step \in [Requests -> Steps]
      /\ place[x] = "handler" => step[x] = "run"
  BY DEF ChainTypeOK, TypeOK, InStep
<1> USE DEF Move, All
<1>2. ASSUME NEW r \in All, Arrive(r)
      PROVE  step'[x] = "run"
  BY <1>1, <1>2 DEF Arrive, vars
<1>3. ASSUME NEW r \in All, Refuse(r)
      PROVE  step'[x] = "run"
  BY <1>1, <1>3 DEF Refuse, AtNext, Return, Run, Go, Reply, vars
<1>4. ASSUME NEW r \in All, Pass(r)
      PROVE  step'[x] = "run"
  BY <1>1, <1>4 DEF Pass, AtNext, vars
<1>5. ASSUME NEW r \in All, Handle(r)
      PROVE  step'[x] = "run"
  BY <1>1, <1>5 DEF Handle, Run, Go, Reply, vars
<1>6. ASSUME NEW r \in Requests, Deduplicate(r)
      PROVE  step'[x] = "run"
  BY <1>1, <1>6 DEF Deduplicate, HitCache, MissCache, Conflict, HitTable, Recache,
                    MissTable, Store, Cache, Go, Reply
<1>7. ASSUME NEW r \in Requests, Drop(r)
      PROVE  step'[x] = "run"
  BY <1>1, <1>7 DEF Drop, Abort, Go
<1>8. CASE (\E t \in Tokens : Revoke(t)) \/ ChainTick \/ UNCHANGED chainVars
  BY <1>1, <1>8 DEF Revoke, ChainTick, Tick, chainVars, vars
<1> QED
  BY <1>2, <1>3, <1>4, <1>5, <1>6, <1>7, <1>8 DEF ChainNext

LEMMA ChainTypeStep == ChainTypeOK /\ [ChainNext]_chainVars => ChainTypeOK'
<1> SUFFICES ASSUME ChainTypeOK, [ChainNext]_chainVars PROVE ChainTypeOK'
  OBVIOUS
<1>1. TypeOK' /\ InStep'
  BY StepSimulation, TypeStep, InStepKept DEF ChainTypeOK
<1> USE <1>1 DEF ChainTypeOK, Move, All, revocation
<1>2. ASSUME NEW r \in All, Arrive(r)
      PROVE  ChainTypeOK'
  BY <1>2 DEF Arrive
<1>3. ASSUME NEW r \in All, Refuse(r)
      PROVE  ChainTypeOK'
  BY <1>3 DEF Refuse
<1>4. ASSUME NEW r \in All, Pass(r)
      PROVE  ChainTypeOK'
  BY <1>4 DEF Pass, NotBlacklisted
<1>5. ASSUME NEW r \in All, Handle(r)
      PROVE  ChainTypeOK'
  BY <1>5 DEF Handle
<1>6. ASSUME NEW r \in Requests, Deduplicate(r) \/ Drop(r)
      PROVE  ChainTypeOK'
  BY <1>6 DEF Deduplicate, Drop
<1>7. ASSUME NEW t \in Tokens, Revoke(t)
      PROVE  ChainTypeOK'
  BY <1>7 DEF Revoke
<1>8. CASE ChainTick \/ UNCHANGED chainVars
  BY <1>8 DEF ChainTick, chainVars
<1> QED
  BY <1>2, <1>3, <1>4, <1>5, <1>6, <1>7, <1>8 DEF ChainNext

\* The variables of the middleware and of the chain stay of their types, and the
\* handler runs only while the middleware is at its next(c).
THEOREM ChainTypeCorrect == ChainSpec => []ChainTypeOK
<1>1. ChainInit => ChainTypeOK
  <2> SUFFICES ASSUME ChainInit PROVE ChainTypeOK
    OBVIOUS
  <2>1. TypeOK
    BY TypeInit DEF ChainInit
  <2>2. InStep
    BY DEF ChainInit, InStep, All
  <2> QED
    BY <2>1, <2>2 DEF ChainInit, ChainTypeOK
<1> QED
  BY <1>1, ChainTypeStep, PTL DEF ChainSpec

-----------------------------------------------------------------------------
(***************************************************************************)
(* Revoked tokens.                                                         *)
(***************************************************************************)

\* A request that came too late has its token on the blacklist, and has not got
\* to its handler but for a blacklist that did not answer.
RevokedInv ==
  /\ token \in [All -> Tokens]
  /\ place \in [All -> {"new", "inside", "handler", "over"}]
  /\ tooLate \subseteq All
  /\ \A r \in All :
       /\ r \in tooLate => token[r] \in blacklist /\ place[r] # "new"
       /\ place[r] = "new" => r \notin handled
       /\ place[r] = "handler" /\ r \in tooLate => r \in unchecked
       /\ r \in handled /\ r \in tooLate => r \in unchecked

LEMMA RevokedStep == RevokedInv /\ [ChainNext]_chainVars => RevokedInv'
<1> SUFFICES ASSUME RevokedInv, [ChainNext]_chainVars PROVE RevokedInv'
  OBVIOUS
<1> USE DEF RevokedInv, Move, All
<1>1. ASSUME NEW r \in All, Arrive(r)
      PROVE  RevokedInv'
  BY <1>1 DEF Arrive
<1>2. ASSUME NEW r \in All, Refuse(r)
      PROVE  RevokedInv'
  BY <1>2 DEF Refuse, AtNext, revocation
<1>3. ASSUME NEW r \in All, Pass(r)
      PROVE  RevokedInv'
  BY <1>3 DEF Pass, AtNext, NotBlacklisted
<1>4. ASSUME NEW r \in All, Handle(r)
      PROVE  RevokedInv'
  BY <1>4 DEF Handle, revocation
<1>5. ASSUME NEW r \in Requests, Deduplicate(r)
      PROVE  RevokedInv'
  BY <1>5 DEF Deduplicate, revocation
<1>6. ASSUME NEW r \in Requests, Drop(r)
      PROVE  RevokedInv'
  BY <1>6 DEF Drop, revocation
<1>7. ASSUME NEW t \in Tokens, Revoke(t)
      PROVE  RevokedInv'
  BY <1>7 DEF Revoke
<1>8. CASE ChainTick
  BY <1>8 DEF ChainTick, revocation
<1>9. CASE UNCHANGED chainVars
  BY <1>9 DEF chainVars, revocation
<1> QED
  BY <1>1, <1>2, <1>3, <1>4, <1>5, <1>6, <1>7, <1>8, <1>9 DEF ChainNext

\* A request whose token was revoked before it arrived runs no handler, unless
\* the blacklist does not answer.
THEOREM RevokedAreStopped == ChainSpec => []RevokedRunsNothing
<1>1. ChainInit => RevokedInv
  BY DEF ChainInit, RevokedInv
<1>2. RevokedInv => RevokedRunsNothing
  BY DEF RevokedInv, RevokedRunsNothing
<1> QED
  BY <1>1, <1>2, RevokedStep, PTL DEF ChainSpec

-----------------------------------------------------------------------------
(***************************************************************************)
(* Replies.                                                                *)
(***************************************************************************)

\* Both stores, and whoever is about to write or send a response, name a
\* request whose handler has run.
PermittedInv ==
  /\ now \in Nat
  /\ place \in [All -> {"new", "inside", "handler", "over"}]
  /\ step \in [Requests -> Steps]
  /\ source \in [Requests -> Requests \cup {NoReq}]
  /\ table.by \in handled \/ (table.by = NoReq /\ table.until = 0)
  /\ cache.by \in handled \/ (cache.by = NoReq /\ cache.until = 0)
  /\ table.by \in Requests \cup {NoReq}
  /\ cache.by \in Requests \cup {NoReq}
  /\ \A r \in Requests :
       /\ step[r] \in {"store", "cache"} => r \in handled
       /\ step[r] = "recache" => source[r] \in handled
       /\ source[r] \in Requests => source[r] \in handled

LEMMA PermittedDeduplicate ==
  ASSUME PermittedInv, NEW r \in Requests, Deduplicate(r)
  PROVE  PermittedInv'
<1> USE DEF PermittedInv, Deduplicate, All, Steps, Fresh, Go,
            Reply, stores, replies, history
<1>1. CASE HitCache(r)
  BY <1>1 DEF HitCache
<1>2. CASE MissCache(r) \/ Conflict(r) \/ MissTable(r)
  BY <1>2 DEF MissCache, Conflict, MissTable
<1>3. CASE HitTable(r)
  BY <1>3 DEF HitTable
<1>4. CASE Recache(r)
  BY <1>4 DEF Recache
<1>5. CASE Store(r)
  BY <1>5 DEF Store, Upsert
<1>6. CASE Cache(r)
  BY <1>6 DEF Cache
<1> QED
  BY <1>1, <1>2, <1>3, <1>4, <1>5, <1>6

LEMMA PermittedStep == PermittedInv /\ [ChainNext]_chainVars => PermittedInv'
<1> SUFFICES ASSUME PermittedInv, [ChainNext]_chainVars PROVE PermittedInv'
  OBVIOUS
<1> USE DEF PermittedInv, Move, All, vars, stores, replies, history
<1>1. ASSUME NEW r \in All, Arrive(r)
      PROVE  PermittedInv'
  BY <1>1 DEF Arrive
<1>2. ASSUME NEW r \in All, Refuse(r)
      PROVE  PermittedInv'
  <2>1. CASE r \in Requests /\ Return(r) /\ UNCHANGED place
    BY <1>2, <2>1 DEF Refuse, Return, Run, Reply, Go, Steps,
                      stores, history
  <2>2. CASE Move(r, "over") /\ UNCHANGED vars
    BY <1>2, <2>2 DEF Refuse
  <2> QED
    BY <1>2, <2>1, <2>2 DEF Refuse
<1>3. ASSUME NEW r \in All, Pass(r)
      PROVE  PermittedInv'
  BY <1>3 DEF Pass
<1>4. ASSUME NEW r \in All, Handle(r)
      PROVE  PermittedInv'
  <2>1. ASSUME r \in Requests, NEW how \in Outcomes, Run(r, how),
               Move(r, "inside")
        PROVE  PermittedInv'
    BY <1>4, <2>1 DEF Handle, Run, Reply, Go, Steps,
                      stores, history
  <2>2. CASE Move(r, "over") /\ UNCHANGED vars
    BY <1>4, <2>2 DEF Handle
  <2> QED
    BY <1>4, <2>1, <2>2 DEF Handle
<1>5. ASSUME NEW r \in Requests, Deduplicate(r)
      PROVE  PermittedInv'
  BY <1>5, PermittedDeduplicate
<1>6. ASSUME NEW r \in Requests, Drop(r)
      PROVE  PermittedInv'
  BY <1>6 DEF Drop, Abort, Go, Steps, stores, replies,
              history
<1>7. ASSUME NEW t \in Tokens, Revoke(t)
      PROVE  PermittedInv'
  BY <1>7 DEF Revoke
<1>8. CASE ChainTick
  BY <1>8 DEF ChainTick, Tick, stores, replies, history
<1>9. CASE UNCHANGED chainVars
  BY <1>9 DEF chainVars
<1> QED
  BY <1>1, <1>2, <1>3, <1>4, <1>5, <1>6, <1>7, <1>8, <1>9 DEF ChainNext

\* Own responses and replays are of requests that all checks have let through.
THEOREM RepliesArePermitted == ChainSpec => []RepliesWerePermitted
<1>1. ChainInit => PermittedInv
  BY DEF ChainInit, Init, PermittedInv, Steps
<1>2. PermittedInv => RepliesWerePermitted
  BY DEF PermittedInv, RepliesWerePermitted
<1> QED
  BY <1>1, <1>2, PermittedStep, PTL DEF ChainSpec

=============================================================================
