--------------------------- MODULE LockoutProofs ---------------------------
(***************************************************************************)
(* Proofs about Lockout, for every number of concurrent attempts, every    *)
(* limit and every lockout duration.  The bounds MaxTime and MaxLost play  *)
(* no part in them.                                                        *)
(***************************************************************************)
EXTENDS Lockout, TLAPS, FiniteSetTheorems

USE LimitsAssumption, NoLockAssumption

-----------------------------------------------------------------------------
(***************************************************************************)
(* Type correctness, and the coupling of the counter with the lock.        *)
(***************************************************************************)

\* Authenticate and its two UPDATEs keep every column in its domain.
THEOREM TypeCorrect == Spec => []TypeOK
<1>1. Init => TypeOK
  BY DEF Init, TypeOK
<1>2. TypeOK /\ [Next]_vars => TypeOK'
  <2> SUFFICES ASSUME TypeOK, [Next]_vars PROVE TypeOK'
    OBVIOUS
  <2> USE DEF TypeOK
  <2>1. ASSUME NEW a \in Attempts, NEW v \in Verdict, Admit(a, v)
        PROVE  TypeOK'
    BY <2>1 DEF Admit
  <2>2. ASSUME NEW a \in Attempts, RecordFailure(a)
        PROVE  TypeOK'
    BY <2>2 DEF RecordFailure, FailedAfter, LockAfter
  <2>3. ASSUME NEW a \in Attempts, ResetFailures(a)
        PROVE  TypeOK'
    BY <2>3 DEF ResetFailures, NewWindow
  <2>4. ASSUME NEW a \in Attempts, LoseWriteBack(a)
        PROVE  TypeOK'
    BY <2>4 DEF LoseWriteBack
  <2>5. ASSUME NEW status \in BOOLEAN, SetActive(status)
        PROVE  TypeOK'
    BY <2>5 DEF SetActive
  <2>6. CASE Tick
    BY <2>6 DEF Tick, NewWindow
  <2>7. CASE UNCHANGED vars
    BY <2>7 DEF vars
  <2> QED
    BY <2>1, <2>2, <2>3, <2>4, <2>5, <2>6, <2>7 DEF Next
<1> QED
  BY <1>1, <1>2, PTL DEF Spec

\* What one UPDATE of incrementFailedAttempts leaves in the row: the two CASE
\* expressions agree on whether the limit is reached.
LEMMA UpdateKeepsCoupling ==
  ASSUME TypeOK, CounterMatchesLock
  PROVE  /\ FailedAfter \in Nat
         /\ LockAfter \in Nat \cup {NoLock}
         /\ FailedAfter >= MaxFailed <=> LockAfter # NoLock
  BY DEF TypeOK, CounterMatchesLock, FailedAfter, LockAfter, Expired

\* The counter is at its limit exactly while a lock is stored, whatever the
\* interleaving of the attempts and the lost write-backs.
THEOREM CounterCoupled == Spec => []CounterMatchesLock
<1>1. Init => CounterMatchesLock
  BY DEF Init, CounterMatchesLock
<1>2. TypeOK /\ CounterMatchesLock /\ [Next]_vars => CounterMatchesLock'
  <2> SUFFICES ASSUME TypeOK, CounterMatchesLock, [Next]_vars
               PROVE  CounterMatchesLock'
    OBVIOUS
  <2>1. ASSUME NEW a \in Attempts, RecordFailure(a)
        PROVE  CounterMatchesLock'
    BY <2>1, UpdateKeepsCoupling DEF RecordFailure, CounterMatchesLock
  <2>2. ASSUME NEW a \in Attempts, ResetFailures(a)
        PROVE  CounterMatchesLock'
    BY <2>2 DEF ResetFailures, CounterMatchesLock
  <2>3. CASE UNCHANGED <<failed, lockedUntil>>
    BY <2>3 DEF CounterMatchesLock
  <2> QED
    BY <2>1, <2>2, <2>3 DEF Next, vars, Admit, LoseWriteBack, SetActive, Tick
<1> QED
  BY <1>1, <1>2, TypeCorrect, PTL DEF Spec

-----------------------------------------------------------------------------
(***************************************************************************)
(* The two bounds on the wrong secrets of a window, whatever the CHECK of  *)
(* audit_log admits.                                                       *)
(***************************************************************************)

\* Every wrong secret of the window is in the counter or had no effect.
Accounted == wrongs <= failed + lost + rejected

\* Once a lock has run out the next window is open: the counter still shows
\* the old one, but every wrong secret seen since had no effect.
RunOutStartsAfresh ==
  lockedUntil # NoLock /\ lockedUntil <= now => wrongs <= lost + rejected

\* The wrong secrets seen and the attempts that may still add one.
RoomForInFlight ==
  wrongs + Cardinality(InFlight)
    <= MaxFailed - 1 + Cardinality(Attempts) + lost + rejected

\* The inductive invariant.
WindowInv ==
  /\ TypeOK
  /\ CounterMatchesLock
  /\ Accounted
  /\ RunOutStartsAfresh
  /\ RoomForInFlight

LEMMA InFlightFinite ==
  /\ Cardinality(Attempts) \in Nat
  /\ Cardinality(InFlight) \in Nat
  /\ Cardinality(InFlight) <= Cardinality(Attempts)
  /\ IsFiniteSet(InFlight)
<1>1. InFlight \in SUBSET Attempts
  BY DEF InFlight
<1> QED
  BY <1>1, AttemptsAssumption, FS_Subset, FS_CardinalityType

\* An attempt that ends leaves one attempt fewer in flight.
LEMMA EndingFreesOne ==
  ASSUME TypeOK, NEW a \in Attempts, attempt[a] # "idle",
         attempt' = [attempt EXCEPT ![a] = "idle"]
  PROVE  Cardinality(InFlight') = Cardinality(InFlight) - 1
<1>1. InFlight' = InFlight \ {a} /\ a \in InFlight
  BY DEF TypeOK, InFlight
<1> QED
  BY <1>1, InFlightFinite, FS_RemoveElement

\* While no lock runs the window has room for every attempt there can be.
LEMMA UnlockedHasRoom ==
  ASSUME WindowInv, ~Locked
  PROVE  wrongs <= MaxFailed - 1 + lost + rejected
<1>1. CASE lockedUntil = NoLock
  BY <1>1 DEF WindowInv, TypeOK, CounterMatchesLock, Accounted
<1>2. CASE lockedUntil # NoLock
  BY <1>2 DEF WindowInv, TypeOK, Locked, RunOutStartsAfresh
<1> QED
  BY <1>1, <1>2

LEMMA WindowInvInit == Init => WindowInv
<1> SUFFICES ASSUME Init PROVE WindowInv
  OBVIOUS
<1>1. InFlight = {}
  BY DEF Init, InFlight
<1>2. Cardinality(InFlight) = 0
  BY <1>1, FS_EmptySet
<1> QED
  BY <1>2, InFlightFinite
     DEF Init, WindowInv, TypeOK, CounterMatchesLock, Accounted,
         RunOutStartsAfresh, RoomForInFlight

LEMMA WindowInvAdmit ==
  ASSUME WindowInv, NEW a \in Attempts, NEW v \in Verdict, Admit(a, v)
  PROVE  WindowInv'
<1>1. wrongs <= MaxFailed - 1 + lost + rejected
  BY UnlockedHasRoom DEF Admit
<1>2. InFlight' \in SUBSET Attempts
  BY DEF InFlight
<1>3. Cardinality(InFlight') \in Nat /\ Cardinality(InFlight') <= Cardinality(Attempts)
  BY <1>2, AttemptsAssumption, FS_Subset, FS_CardinalityType
<1>4. TypeOK'
  BY DEF WindowInv, TypeOK, Admit
<1>5. RoomForInFlight'
  BY <1>1, <1>3, InFlightFinite DEF WindowInv, TypeOK, Admit, RoomForInFlight
<1> QED
  BY <1>4, <1>5
     DEF WindowInv, Admit, CounterMatchesLock, Accounted, RunOutStartsAfresh

LEMMA WindowInvRecordFailure ==
  ASSUME WindowInv, NEW a \in Attempts, RecordFailure(a)
  PROVE  WindowInv'
<1> USE DEF WindowInv, TypeOK
<1>1. /\ wrongs' = wrongs + 1
      /\ UNCHANGED <<now, active, lost>>
      /\ attempt' = [attempt EXCEPT ![a] = "idle"]
      /\ \/ /\ failed' = FailedAfter /\ lockedUntil' = LockAfter
            /\ rejected' = rejected
         \/ /\ rejected' = rejected + 1
            /\ UNCHANGED <<failed, lockedUntil>>
  BY DEF RecordFailure
<1>2. TypeOK' /\ CounterMatchesLock'
  BY <1>1, UpdateKeepsCoupling DEF CounterMatchesLock
<1>3. Accounted'
  <2>1. CASE rejected' = rejected + 1
    BY <1>1, <2>1 DEF Accounted
  <2>2. CASE rejected' = rejected /\ Expired
    BY <1>1, <2>2 DEF Accounted, FailedAfter, Expired, RunOutStartsAfresh
  <2>3. CASE rejected' = rejected /\ ~Expired
    BY <1>1, <2>3 DEF Accounted, FailedAfter
  <2> QED
    BY <1>1, <2>1, <2>2, <2>3
<1>4. RunOutStartsAfresh'
  <2>1. CASE rejected' = rejected + 1
    BY <1>1, <2>1 DEF RunOutStartsAfresh
  <2>2. CASE rejected' = rejected
    BY <1>1, <2>2
       DEF RunOutStartsAfresh, CounterMatchesLock, LockAfter, FailedAfter, Expired
  <2> QED
    BY <1>1, <2>1, <2>2
<1>5. Cardinality(InFlight') = Cardinality(InFlight) - 1
  BY EndingFreesOne DEF RecordFailure
<1>6. RoomForInFlight'
  BY <1>1, <1>5, InFlightFinite DEF RoomForInFlight
<1> QED
  BY <1>2, <1>3, <1>4, <1>6

LEMMA WindowInvResetFailures ==
  ASSUME WindowInv, NEW a \in Attempts, ResetFailures(a)
  PROVE  WindowInv'
<1>1. /\ UNCHANGED <<now, active>>
      /\ attempt' = [attempt EXCEPT ![a] = "idle"]
      /\ \/ /\ failed' = 0 /\ lockedUntil' = NoLock
            /\ wrongs' = 0 /\ lost' = 0 /\ rejected' = 0
         \/ UNCHANGED <<failed, lockedUntil, wrongs, lost, rejected>>
  BY DEF ResetFailures, NewWindow
<1>2. Cardinality(InFlight') = Cardinality(InFlight) - 1
  BY EndingFreesOne DEF ResetFailures, WindowInv
<1>3. TypeOK' /\ CounterMatchesLock' /\ Accounted' /\ RunOutStartsAfresh'
  BY <1>1 DEF WindowInv, TypeOK, CounterMatchesLock, Accounted, RunOutStartsAfresh
<1>4. RoomForInFlight'
  BY <1>1, <1>2, InFlightFinite DEF WindowInv, TypeOK, RoomForInFlight
<1> QED
  BY <1>3, <1>4 DEF WindowInv

LEMMA WindowInvLoseWriteBack ==
  ASSUME WindowInv, NEW a \in Attempts, LoseWriteBack(a)
  PROVE  WindowInv'
<1> USE DEF WindowInv, TypeOK
<1>1. /\ UNCHANGED <<now, active, failed, lockedUntil, rejected>>
      /\ attempt' = [attempt EXCEPT ![a] = "idle"]
      /\ \/ wrongs' = wrongs + 1 /\ lost' = lost + 1
         \/ wrongs' = wrongs /\ lost' = lost
  BY DEF LoseWriteBack
<1>2. Cardinality(InFlight') = Cardinality(InFlight) - 1
  BY EndingFreesOne DEF LoseWriteBack, Verdict
<1>3. TypeOK' /\ CounterMatchesLock'
  BY <1>1 DEF CounterMatchesLock
<1>4. Accounted' /\ RunOutStartsAfresh'
  BY <1>1 DEF Accounted, RunOutStartsAfresh
<1>5. RoomForInFlight'
  BY <1>1, <1>2, InFlightFinite DEF RoomForInFlight
<1> QED
  BY <1>3, <1>4, <1>5

LEMMA WindowInvTick ==
  ASSUME WindowInv, Tick
  PROVE  WindowInv'
<1>1. InFlight' = InFlight
  BY DEF Tick, InFlight
<1>2. CASE lockedUntil = now + 1
  BY <1>1, <1>2, InFlightFinite
     DEF Tick, NewWindow, WindowInv, TypeOK, CounterMatchesLock, Accounted,
         RunOutStartsAfresh, RoomForInFlight
<1>3. CASE lockedUntil # now + 1
  BY <1>1, <1>3
     DEF Tick, NewWindow, WindowInv, TypeOK, CounterMatchesLock, Accounted,
         RunOutStartsAfresh, RoomForInFlight
<1> QED
  BY <1>2, <1>3

LEMMA WindowInvInductive == WindowInv /\ [Next]_vars => WindowInv'
<1> SUFFICES ASSUME WindowInv, [Next]_vars PROVE WindowInv'
  OBVIOUS
<1>1. CASE UNCHANGED <<now, failed, lockedUntil, attempt, wrongs, lost, rejected>> /\ active' \in BOOLEAN
  <2>1. InFlight' = InFlight
    BY <1>1 DEF InFlight
  <2> QED
    BY <1>1, <2>1
       DEF WindowInv, TypeOK, CounterMatchesLock, Accounted,
           RunOutStartsAfresh, RoomForInFlight
<1>2. CASE UNCHANGED vars
  BY <1>1, <1>2 DEF vars, WindowInv, TypeOK
<1>3. CASE \E status \in BOOLEAN : SetActive(status)
  BY <1>1, <1>3 DEF SetActive
<1> QED
  BY <1>2, <1>3, WindowInvAdmit, WindowInvRecordFailure, WindowInvResetFailures,
     WindowInvLoseWriteBack, WindowInvTick DEF Next

\* MaxFailed wrong secrets in a window, those without effect not counted, leave
\* a lock behind.
THEOREM LockFollowsFailures == Spec => []CountedFailuresLock
<1>1. WindowInv => CountedFailuresLock
  BY DEF WindowInv, TypeOK, CounterMatchesLock, Accounted, CountedFailuresLock
<1> QED
  BY <1>1, WindowInvInit, WindowInvInductive, PTL DEF Spec

\* A window never sees more wrong secrets than the limit allows plus one for
\* each attempt that was already past the lock test, and the UPDATEs without
\* effect.
THEOREM OvershootBounded == Spec => []WrongsBounded
<1>1. WindowInv => WrongsBounded
  BY InFlightFinite DEF WindowInv, TypeOK, RoomForInFlight, WrongsBounded
<1> QED
  BY <1>1, WindowInvInit, WindowInvInductive, PTL DEF Spec

-----------------------------------------------------------------------------
(***************************************************************************)
(* What the migrations install: a CHECK that does not know the portal type *)
(* of the trigger.                                                         *)
(***************************************************************************)

\* The account shows no failure and no lock.
NeverLocks == failed = 0 /\ lockedUntil = NoLock

\* With the CHECK of 001_initial_schema.sql no number of wrong secrets locks an
\* account, or is even counted.
THEOREM ShippedCheckNeverLocks ==
  ASSUME "system" \notin AuditPortals
  PROVE  Spec => []NeverLocks
<1>1. Init => NeverLocks
  BY DEF Init, NeverLocks
<1>2. NeverLocks /\ [Next]_vars => NeverLocks'
  BY DEF NeverLocks, Next, vars, Admit, RecordFailure, ResetFailures, LoseWriteBack,
         SetActive, Tick, AuditAccepts
<1> QED
  BY <1>1, <1>2, PTL DEF Spec

=============================================================================
