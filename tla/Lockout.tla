------------------------------ MODULE Lockout ------------------------------
(***************************************************************************)
(* The account lockout of backend/pkg/auth: one row of                     *)
(* subscriber_credentials and the login attempts that run against it       *)
(* concurrently, one goroutine each.  staff.go runs the same statements on *)
(* a row of users.                                                         *)
(*                                                                         *)
(* An attempt reads the row and tests the lock (Admit), spends a long time *)
(* in bcrypt, and only then writes the verdict back (RecordFailure,        *)
(* ResetFailures): the test and the write are two steps, and any number of *)
(* other attempts may act in between.                                      *)
(***************************************************************************)
EXTENDS Integers, FiniteSets

CONSTANTS
  Attempts,         \* login requests the gateway may be running at one time
  MaxFailed,        \* cfg.Security.MaxFailedLoginAttempts
  LockoutDuration,  \* cfg.Security.LockoutDuration, in ticks of the clock
  AuditPortals,     \* the portal types chk_audit_portal_type admits
  MaxTime,          \* bound of the model: the last tick of the clock
  MaxLost,          \* bound of the model: write-backs lost in one window
  NoLock            \* the SQL NULL of locked_until

ASSUME AttemptsAssumption == IsFiniteSet(Attempts)
ASSUME LimitsAssumption == /\ MaxFailed \in Nat \ {0}
                           /\ LockoutDuration \in Nat \ {0}
                           /\ MaxTime \in Nat
                           /\ MaxLost \in Nat
ASSUME NoLockAssumption == NoLock \notin Int

VARIABLES
  now,          \* the clock, the same for the gateway and for PostgreSQL
  active,       \* is_active
  failed,       \* failed_login_attempts
  lockedUntil,  \* locked_until, or NoLock
  attempt,      \* attempt[a]: "idle", or what bcrypt will say of the secret
  wrongs,       \* history: wrong secrets judged in the present window
  lost,         \* history: write-backs of this window that never arrived
  rejected      \* history: those the audit trigger's INSERT took down

vars == <<now, active, failed, lockedUntil, attempt, wrongs, lost, rejected>>

(***************************************************************************)
(* A window ends when the lock it led to runs out, or with a login that    *)
(* resets the counter.  wrongs, lost and rejected are observers: no guard  *)
(* reads them, except the bound on lost.                                   *)
(***************************************************************************)

Verdict == {"right", "wrong"}

InFlight == {a \in Attempts : attempt[a] # "idle"}

TypeOK ==
  /\ now \in Nat
  /\ active \in BOOLEAN
  /\ failed \in Nat
  /\ lockedUntil \in Nat \cup {NoLock}
  /\ attempt \in [Attempts -> {"idle"} \cup Verdict]
  /\ wrongs \in Nat
  /\ lost \in Nat
  /\ rejected \in Nat

-----------------------------------------------------------------------------

\* The test of Authenticate: locked_until is set and still After(now).
Locked == lockedUntil # NoLock /\ lockedUntil > now

\* The test of the UPDATE: strictly before NOW(), so that in the one instant
\* where locked_until = NOW() the row is neither locked nor expired.
Expired == lockedUntil # NoLock /\ lockedUntil < now

\* The audit trigger of the row inserts the portal type 'system' in audit_log
\* (no session of the gateways sets app.current_portal); where the CHECK of
\* audit_log rejects it, the UPDATE that fired the trigger fails with it.
AuditAccepts == "system" \in AuditPortals

\* A slip to compare with: the first failure after a lock is not counted.
FailedAfterForgetsFirst == IF Expired THEN 0 ELSE failed + 1

FailedAfter == IF Expired THEN 1 ELSE failed + 1

\* Slips to compare with: the limit tested with >, the interval subtracted.
LockAfterOffByOne ==
  IF FailedAfter > MaxFailed THEN now + LockoutDuration
  ELSE IF Expired THEN NoLock
  ELSE lockedUntil

LockAfterBackdated ==
  IF FailedAfter >= MaxFailed THEN now - LockoutDuration
  ELSE IF Expired THEN NoLock
  ELSE lockedUntil

LockAfter ==
  IF FailedAfter >= MaxFailed THEN now + LockoutDuration
  ELSE IF Expired THEN NoLock
  ELSE lockedUntil

-----------------------------------------------------------------------------

Init ==
  /\ now = 0
  /\ active = TRUE
  /\ failed = 0
  /\ lockedUntil = NoLock
  /\ attempt = [a \in Attempts |-> "idle"]
  /\ wrongs = 0
  /\ lost = 0
  /\ rejected = 0

\* A slip to compare with: the lock is not tested before the comparison.
AdmitUnchecked(a, verdict) ==
  /\ attempt[a] = "idle"
  /\ active
  /\ attempt' = [attempt EXCEPT ![a] = verdict]
  /\ UNCHANGED <<now, active, failed, lockedUntil, wrongs, lost, rejected>>

\* Authenticate up to the comparison: the row is read, found unlocked and
\* active.  A request turned away here changes nothing.
Admit(a, verdict) ==
  /\ attempt[a] = "idle"
  /\ ~Locked
  /\ active
  /\ attempt' = [attempt EXCEPT ![a] = verdict]
  /\ UNCHANGED <<now, active, failed, lockedUntil, wrongs, lost, rejected>>

\* incrementFailedAttempts: one UPDATE, atomic on the row as it now is.  Its
\* error is dropped, so the attempt ends the same way when the audit trigger
\* rejects the UPDATE.
RecordFailure(a) ==
  /\ attempt[a] = "wrong"
  /\ attempt' = [attempt EXCEPT ![a] = "idle"]
  /\ wrongs' = wrongs + 1
  /\ IF AuditAccepts
       THEN failed' = FailedAfter /\ lockedUntil' = LockAfter /\ UNCHANGED rejected
       ELSE rejected' = rejected + 1 /\ UNCHANGED <<failed, lockedUntil>>
  /\ UNCHANGED <<now, active, lost>>

NewWindow == wrongs' = 0 /\ lost' = 0 /\ rejected' = 0

\* resetFailedAttempts, by whichever attempt held the right secret.
ResetFailures(a) ==
  /\ attempt[a] = "right"
  /\ attempt' = [attempt EXCEPT ![a] = "idle"]
  /\ IF AuditAccepts
       THEN failed' = 0 /\ lockedUntil' = NoLock /\ NewWindow
       ELSE UNCHANGED <<failed, lockedUntil, wrongs, lost, rejected>>
  /\ UNCHANGED <<now, active>>

\* The write-back fails (the connection, or the request's context, is gone)
\* and the error is assigned to _: the verdict stands, the row does not move.
LoseWriteBack(a) ==
  /\ attempt[a] \in Verdict
  /\ lost < MaxLost
  /\ attempt' = [attempt EXCEPT ![a] = "idle"]
  /\ IF attempt[a] = "wrong"
       THEN wrongs' = wrongs + 1 /\ lost' = lost + 1
       ELSE UNCHANGED <<wrongs, lost>>
  /\ UNCHANGED <<now, active, failed, lockedUntil, rejected>>

\* setSubscriberStatus of the operator portal, the same row's only other
\* writer that matters here.  Its UPDATE fires the same trigger.
SetActive(status) ==
  /\ AuditAccepts
  /\ active' = status
  /\ UNCHANGED <<now, failed, lockedUntil, attempt, wrongs, lost, rejected>>

Tick ==
  /\ now < MaxTime
  /\ now' = now + 1
  /\ IF lockedUntil = now + 1
       THEN NewWindow
       ELSE UNCHANGED <<wrongs, lost, rejected>>
  /\ UNCHANGED <<active, failed, lockedUntil, attempt>>

Next ==
  \/ \E a \in Attempts, v \in Verdict : Admit(a, v)
  \/ \E a \in Attempts : RecordFailure(a)
  \/ \E a \in Attempts : ResetFailures(a)
  \/ \E a \in Attempts : LoseWriteBack(a)
  \/ \E status \in BOOLEAN : SetActive(status)
  \/ Tick

Spec == Init /\ [][Next]_vars

-----------------------------------------------------------------------------
(***************************************************************************)
(* Properties.                                                             *)
(***************************************************************************)

\* failed_login_attempts and locked_until are moved by two CASE expressions of
\* one UPDATE that test different things; together they must keep the counter
\* at or above its limit exactly while a lock (running or run out) is stored.
CounterMatchesLock == failed >= MaxFailed <=> lockedUntil # NoLock

\* However the attempts interleave and wherever a lock ran out in between,
\* MaxFailed wrong secrets judged in one window leave a lock on the account, but
\* for those whose UPDATE did not arrive or was rejected.
CountedFailuresLock == wrongs - lost - rejected >= MaxFailed => lockedUntil # NoLock

\* What docs/SECURITY.md says of it ("If failed_login_attempts >= 5 -> account
\* locked"), with an excuse for lost UPDATEs only.
LockAfterMaxFailures == wrongs - lost >= MaxFailed => lockedUntil # NoLock

\* The lock is tested before bcrypt and set after it, so attempts admitted
\* together can overshoot the limit; the overshoot is bounded: a window never
\* sees more wrong secrets than MaxFailed - 1, one per concurrent attempt, and
\* one per UPDATE without effect.
WrongsBounded == wrongs <= MaxFailed - 1 + Cardinality(Attempts) + lost + rejected

=============================================================================
