------------------------- MODULE RateLimiterProofs -------------------------
(***************************************************************************)
(* Proofs about RateLimiter, for all numbers of requests and users, every  *)
(* limit, window and delay.                                                *)
(***************************************************************************)
EXTENDS RateLimiter, FiniteSetTheorems, WellFoundedInduction, TLAPS

USE RequestsAssumption, UsersAssumption, LimitAssumption, TimeAssumption

-----------------------------------------------------------------------------
(***************************************************************************)
(* Type correctness.                                                       *)
(***************************************************************************)

\* The type of a request in the limiter, at a time.
Entry(t) == [step : {"idle", "count", "add"}, user : Users, at : 0 .. t, count : Nat]

\* Seconds of the past are finitely many.
LEMMA SecondsFinite ==
  ASSUME NEW t \in Nat, NEW S \in SUBSET (0 .. t)
  PROVE  IsFiniteSet(S) /\ Cardinality(S) \in Nat
<1>1. IsFiniteSet(0 .. t)
  BY FS_Interval
<1>2. IsFiniteSet(S)
  BY <1>1, FS_Subset
<1> QED
  BY <1>2, FS_CardinalityType

LEMMA TypeInit == Init => TypeOK
<1> SUFFICES ASSUME Init PROVE TypeOK
  OBVIOUS
<1>1. request \in [Requests -> Entry(0)]
  BY DEF Init, Entry
<1> QED
  BY <1>1 DEF Init, TypeOK, Entry

LEMMA TypeStep == TypeOK /\ [Next]_vars => TypeOK'
<1> SUFFICES ASSUME TypeOK, [Next]_vars PROVE TypeOK'
  OBVIOUS
<1>a. now \in Nat /\ now <= MaxTime /\ request \in [Requests -> Entry(now)]
  BY DEF TypeOK, Entry
<1>b. ASSUME NEW r \in Requests, NEW e \in Entry(now),
             request' = [request EXCEPT ![r] = e]
      PROVE  request' \in [Requests -> Entry(now)]
  BY <1>a, <1>b
<1>c. ASSUME NEW r \in Requests PROVE Idle(r) \in Entry(now)
  <2>1. request[r] \in Entry(now) /\ 0 \in 0 .. now
    BY <1>a
  <2> QED
    BY <2>1 DEF Idle, Entry
<1>d. ASSUME NEW r \in Requests PROVE KeyOf(r) \in Keys
  BY <1>a, <1>d DEF KeyOf, Keys, Entry
<1>e. ASSUME NEW r \in Requests PROVE Again(r) \in Entry(now)
  <2>1. request[r] \in Entry(now) /\ 0 \in Nat
    BY <1>a
  <2> QED
    BY <2>1 DEF Again, Entry
<1>f. ASSUME NEW r \in Requests, Enter(r)
      PROVE  /\ hits' \in [Keys -> SUBSET (0 .. now)]
             /\ until' \in [Keys -> 0 .. MaxTime + Window]
             /\ sent' \in [Users -> SUBSET (0 .. now)]
  <2>1. request[r].at \in 0 .. now /\ request[r].user \in Users
    BY <1>a DEF Entry
  <2>2. hits' \in [Keys -> SUBSET (0 .. now)] /\ sent' \in [Users -> SUBSET (0 .. now)]
    BY <1>f, <1>d, <2>1 DEF Enter, Member, TypeOK
  <2>3. until' \in [Keys -> 0 .. MaxTime + Window]
    BY <1>f, <1>a, <1>d DEF Enter, TypeOK
  <2> QED
    BY <2>2, <2>3
<1>1. ASSUME NEW r \in Requests, NEW u \in Users, Begin(r, u)
      PROVE  TypeOK'
  <2>1. [step |-> "count", user |-> u, at |-> now, count |-> 0] \in Entry(now)
    BY <1>a DEF Entry
  <2>2. request' \in [Requests -> Entry(now)]
    BY <1>1, <1>b, <2>1 DEF Begin
  <2> QED
    BY <1>1, <2>2 DEF Begin, TypeOK, Entry, history
<1>2. ASSUME NEW r \in Requests, Count(r)
      PROVE  TypeOK'
  <2> DEFINE kept == {t \in hits[KeyOf(r)] : t > WindowStart(r)}
  <2>1. kept \in SUBSET (0 .. now)
    BY <1>d DEF TypeOK
  <2>2. Cardinality(kept) \in Nat
    BY <1>a, <2>1, SecondsFinite
  <2>3. [request[r] EXCEPT !.step = "add", !.count = Cardinality(kept)] \in Entry(now)
    BY <1>a, <2>2 DEF Entry
  <2>4. request' \in [Requests -> Entry(now)]
    BY <1>2, <1>a, <1>b, <2>3 DEF Count
  <2>5. hits' \in [Keys -> SUBSET (0 .. now)]
    BY <1>2, <2>1 DEF Count, TypeOK
  <2> QED
    BY <1>2, <2>4, <2>5 DEF Count, TypeOK, Entry, history
<1>3. ASSUME NEW r \in Requests, Add(r)
      PROVE  TypeOK'
  <2>1. request[r].at \in 0 .. now /\ request[r].user \in Users
    BY <1>a DEF Entry
  <2>2. request' \in [Requests -> Entry(now)]
    BY <1>3, <1>b, <1>c DEF Add
  <2>3. /\ hits' \in [Keys -> SUBSET (0 .. now)]
        /\ until' \in [Keys -> 0 .. MaxTime + Window]
        /\ sent' \in [Users -> SUBSET (0 .. now)]
    BY <1>3, <1>f DEF Add
  <2>4. admitted' \in [Keys -> SUBSET (0 .. now)]
    BY <1>3, <1>d, <2>1 DEF Add, Answer, TypeOK
  <2>5. early' \in SUBSET Keys /\ undue' \in SUBSET Users
    BY <1>3, <1>d, <2>1 DEF Add, Answer, TypeOK
  <2> QED
    BY <1>3, <2>2, <2>3, <2>4, <2>5 DEF Add, TypeOK, Entry
<1>4. ASSUME NEW r \in Requests, FailOpen(r)
      PROVE  TypeOK'
  <2>1. request' \in [Requests -> Entry(now)]
    BY <1>4, <1>b, <1>c, <1>e DEF FailOpen
  <2>2. /\ hits' \in [Keys -> SUBSET (0 .. now)]
        /\ until' \in [Keys -> 0 .. MaxTime + Window]
        /\ sent' \in [Users -> SUBSET (0 .. now)]
    BY <1>4, <1>f DEF FailOpen, TypeOK
  <2> QED
    BY <1>4, <2>1, <2>2 DEF FailOpen, TypeOK, Entry
<1>5. CASE Tick
  <2>1. now' = now + 1 /\ now' \in 0 .. MaxTime /\ 0 .. now \subseteq 0 .. now'
    BY <1>5, <1>a DEF Tick
  <2>2. Entry(now) \subseteq Entry(now')
    BY <2>1 DEF Entry
  <2>3. request' \in [Requests -> Entry(now')]
    BY <1>5, <1>a, <2>2 DEF Tick
  <2>4. hits' \in [Keys -> SUBSET (0 .. now')]
    BY <1>5, <2>1 DEF Tick, TypeOK
  <2>5. /\ admitted' \in [Keys -> SUBSET (0 .. now')]
        /\ sent' \in [Users -> SUBSET (0 .. now')]
        /\ UNCHANGED <<until, early, undue>>
    BY <1>5, <2>1 DEF Tick, TypeOK, history
  <2> QED
    BY <2>1, <2>3, <2>4, <2>5 DEF TypeOK, Entry
<1>6. CASE UNCHANGED vars
  BY <1>6 DEF vars, history, TypeOK
<1> QED
  BY <1>1, <1>2, <1>3, <1>4, <1>5, <1>6 DEF Next

\* Set, counts and expiries stay of their types; in particular no member is of
\* the future.
THEOREM TypeCorrect == Spec => []TypeOK
  BY TypeInit, TypeStep, PTL DEF Spec

-----------------------------------------------------------------------------
(***************************************************************************)
(* The spread of admissions.                                               *)
(***************************************************************************)

\* The seconds of S that whoever counts at time c is sure to see: they are in
\* the window, and their pipelines are done or given up.
Seen(S, c) == {t \in S : c - Window < t /\ t < c - Delay}

\* Pipelines end in time; what was let through stays in the set, and the key
\* alive, for a window; and whoever was let through, or is about to, has at some
\* time since its own second counted what was to be seen then.
SpreadInv ==
  /\ \A r \in Requests : request[r].step # "idle" => now <= request[r].at + Delay
  /\ \A k \in Keys : \A t \in admitted[k] :
       /\ t + Window <= until[k]
       /\ now - Window < t => t \in hits[k]
       /\ \E c \in t .. now : c <= t + Delay /\ Cardinality(Seen(admitted[k], c)) < Limit
  /\ \A r \in Requests : request[r].step = "add" =>
       \E c \in request[r].at .. now :
         Cardinality(Seen(admitted[KeyOf(r)], c)) <= request[r].count

\* What is let through now is of too recent a second for any count so far to
\* have been sure to see it.
LEMMA SeenStays ==
  ASSUME TypeOK, NEW S \in SUBSET (0 .. now), NEW t \in 0 .. now, NEW c \in 0 .. now,
         now <= t + Delay
  PROVE  Seen(S \cup {t}, c) = Seen(S, c)
<1>1. now \in Nat /\ Delay \in Nat
  BY DEF TypeOK
<1>2. ~ (t < c - Delay)
  BY <1>1
<1> QED
  BY <1>2 DEF Seen

LEMMA SpreadStep == TypeOK /\ SpreadInv /\ [Next]_vars => SpreadInv'
<1> SUFFICES ASSUME TypeOK, SpreadInv, [Next]_vars PROVE SpreadInv'
  OBVIOUS
<1>a. /\ now \in Nat /\ Delay \in Nat /\ Window \in Nat /\ Limit \in Nat
      /\ request \in [Requests -> Entry(now)]
      /\ hits \in [Keys -> SUBSET (0 .. now)] /\ admitted \in [Keys -> SUBSET (0 .. now)]
      /\ until \in [Keys -> 0 .. MaxTime + Window]
  BY DEF TypeOK, Entry
<1>k. ASSUME NEW r \in Requests PROVE KeyOf(r) \in Keys
  BY <1>a, <1>k DEF KeyOf, Keys, Entry
\* The three parts, for a step to be shown to keep one by one.
<1> DEFINE InTime == \A r \in Requests : request[r].step # "idle" => now <= request[r].at + Delay
           Kept == \A k \in Keys : \A t \in admitted[k] :
                     /\ t + Window <= until[k]
                     /\ now - Window < t => t \in hits[k]
           Counted(k, t) == \E c \in t .. now :
                              c <= t + Delay /\ Cardinality(Seen(admitted[k], c)) < Limit
           Waiting(r) == request[r].step = "add" =>
                           \E c \in request[r].at .. now :
                             Cardinality(Seen(admitted[KeyOf(r)], c)) <= request[r].count
<1>i. /\ InTime /\ Kept
      /\ \A k \in Keys : \A t \in admitted[k] : Counted(k, t)
      /\ \A r \in Requests : Waiting(r)
  BY DEF SpreadInv
<1>j. ASSUME InTime', Kept',
             \A k \in Keys : \A t \in admitted'[k] : Counted(k, t)',
             \A r \in Requests : Waiting(r)'
      PROVE  SpreadInv'
  BY <1>j DEF SpreadInv
<1> HIDE DEF InTime, Kept, Counted, Waiting
<1>1. ASSUME NEW r \in Requests, NEW u \in Users, Begin(r, u)
      PROVE  SpreadInv'
  <2>1. /\ UNCHANGED <<now, hits, until, admitted>>
        /\ request' = [request EXCEPT ![r] = [step |-> "count", user |-> u,
                                              at |-> now, count |-> 0]]
    BY <1>1 DEF Begin, history
  <2>2. InTime' /\ Kept'
    BY <1>a, <1>i, <2>1 DEF InTime, Kept
  <2>3. \A k \in Keys : \A t \in admitted'[k] : Counted(k, t)'
    BY <1>i, <2>1 DEF Counted
  <2>4. \A q \in Requests : Waiting(q)'
    BY <1>a, <1>i, <2>1 DEF Waiting, KeyOf
  <2> QED
    BY <1>j, <2>2, <2>3, <2>4
<1>2. ASSUME NEW r \in Requests, Count(r)
      PROVE  SpreadInv'
  <2> DEFINE kept == {t \in hits[KeyOf(r)] : t > WindowStart(r)}
  <2>1. /\ UNCHANGED <<now, until, admitted>>
        /\ hits' = [hits EXCEPT ![KeyOf(r)] = kept]
        /\ request[r].step = "count"
        /\ request' = [request EXCEPT ![r].step = "add", ![r].count = Cardinality(kept)]
    BY <1>2 DEF Count, history
  <2>2. request[r].at \in 0 .. now
    BY <1>a DEF Entry
  <2>3. \A t \in hits[KeyOf(r)] : now - Window < t => t \in kept
    BY <1>a, <1>k, <2>2 DEF WindowStart
  <2>4. InTime'
    BY <1>a, <1>i, <2>1 DEF InTime
  <2>5. Kept'
    BY <1>a, <1>i, <1>k, <2>1, <2>3 DEF Kept
  <2>6. \A k \in Keys : \A t \in admitted'[k] : Counted(k, t)'
    BY <1>i, <2>1 DEF Counted
  <2>7. Cardinality(Seen(admitted[KeyOf(r)], now)) <= Cardinality(kept)
    <3>1. Seen(admitted[KeyOf(r)], now) \subseteq kept
      BY <1>i, <1>k, <2>3 DEF Kept, Seen
    <3>2. IsFiniteSet(kept)
      BY <1>a, <1>k, SecondsFinite
    <3> QED
      BY <3>1, <3>2, FS_Subset
  <2>8. \A q \in Requests \ {r} : request'[q] = request[q]
    BY <2>1, <1>a
  <2>9. /\ request'[r].user = request[r].user /\ request'[r].at = request[r].at
        /\ request'[r].count = Cardinality(kept)
    BY <2>1, <1>a DEF Entry
  <2>10. Waiting(r)'
    <3>1. KeyOf(r)' = KeyOf(r) /\ admitted' = admitted /\ now' = now
      BY <2>1, <2>9 DEF KeyOf
    <3>2. now \in request'[r].at .. now'
      BY <1>a, <2>2, <2>9, <3>1
    <3>3. Cardinality(Seen(admitted'[KeyOf(r)'], now)) <= request'[r].count
      BY <2>7, <2>9, <3>1
    <3> QED
      BY <3>2, <3>3 DEF Waiting
  <2>11. \A q \in Requests \ {r} : Waiting(q)'
    BY <1>i, <2>1, <2>8 DEF Waiting, KeyOf
  <2> QED
    BY <1>j, <2>4, <2>5, <2>6, <2>10, <2>11
<1>3. ASSUME NEW r \in Requests, Add(r)
      PROVE  SpreadInv'
  <2> DEFINE at == request[r].at
             key == KeyOf(r)
  <2>1. /\ now' = now /\ request[r].step = "add"
        /\ hits' = [hits EXCEPT ![key] = @ \cup {at}]
        /\ until' = [until EXCEPT ![key] = now + Window]
        /\ request' = [request EXCEPT ![r] = Idle(r)]
    BY <1>3 DEF Add, Enter, Member
  <2>2. at \in 0 .. now /\ now <= at + Delay /\ key \in Keys
    BY <1>a, <1>i, <1>k, <2>1 DEF InTime, Entry
  <2>3. \/ admitted' = admitted
        \/ /\ request[r].count < Limit
           /\ admitted' = [admitted EXCEPT ![key] = @ \cup {at}]
    BY <1>3 DEF Add, Answer, Allowed
  <2>4. \A k \in Keys : admitted'[k] \in {admitted[k], admitted[k] \cup {at}}
    BY <1>a, <2>3
  <2>5. \A k \in Keys, c \in 0 .. now : Seen(admitted'[k], c) = Seen(admitted[k], c)
    BY <1>a, <2>2, <2>4, SeenStays
  <2>6. \A q \in Requests \ {r} : request'[q] = request[q]
    BY <2>1, <1>a
  <2>7. request'[r].step = "idle"
    BY <2>1, <1>a DEF Idle, Entry
  <2>8. InTime'
    BY <1>i, <2>1, <2>6, <2>7 DEF InTime
  <2>9. Kept'
    <3> SUFFICES ASSUME NEW k \in Keys, NEW t \in admitted'[k]
                 PROVE  t + Window <= until'[k] /\ (now - Window < t => t \in hits'[k])
      BY <2>1 DEF Kept
    <3>1. t \in admitted[k] \/ (k = key /\ t = at)
      BY <1>a, <2>2, <2>3
    <3>2. t \in 0 .. now
      BY <1>a, <2>2, <3>1
    <3>3. CASE k = key
      BY <1>a, <1>i, <2>1, <2>2, <3>1, <3>2, <3>3 DEF Kept
    <3>4. CASE k # key
      BY <1>a, <1>i, <2>1, <2>2, <3>1, <3>4 DEF Kept
    <3> QED
      BY <3>3, <3>4
  <2>10. \A k \in Keys : \A t \in admitted'[k] : Counted(k, t)'
    <3> SUFFICES ASSUME NEW k \in Keys, NEW t \in admitted'[k]
                 PROVE  \E c \in t .. now : /\ c <= t + Delay
                                            /\ Cardinality(Seen(admitted'[k], c)) < Limit
      BY <2>1 DEF Counted
    <3>1. CASE t \in admitted[k]
      <4>1. PICK c \in t .. now : /\ c <= t + Delay
                                  /\ Cardinality(Seen(admitted[k], c)) < Limit
        BY <1>i, <3>1 DEF Counted
      <4>2. t \in 0 .. now
        BY <1>a, <3>1
      <4>3. c \in 0 .. now
        BY <1>a, <4>2
      <4> QED
        BY <2>5, <4>1, <4>3
    <3>2. CASE t \notin admitted[k]
      <4>1. k = key /\ t = at /\ request[r].count < Limit
        BY <1>a, <2>2, <2>3, <3>2
      <4>2. PICK c \in at .. now : Cardinality(Seen(admitted[key], c)) <= request[r].count
        BY <1>i, <2>1 DEF Waiting
      <4>3. c \in 0 .. now /\ c <= at + Delay
        BY <1>a, <2>2
      <4>4. Cardinality(Seen(admitted'[key], c)) = Cardinality(Seen(admitted[key], c))
        BY <2>2, <2>5, <4>3
      <4>5. Cardinality(Seen(admitted[key], c)) \in Nat /\ request[r].count \in Nat
        <5>1. Seen(admitted[key], c) \in SUBSET (0 .. now)
          BY <1>a, <2>2 DEF Seen
        <5> QED
          BY <1>a, <5>1, SecondsFinite DEF Entry
      <4> QED
        BY <1>a, <4>1, <4>2, <4>3, <4>4, <4>5
    <3> QED
      BY <3>1, <3>2
  <2>11. \A q \in Requests : Waiting(q)'
    <3> SUFFICES ASSUME NEW q \in Requests, q # r, request[q].step = "add"
                 PROVE  \E c \in request[q].at .. now :
                          Cardinality(Seen(admitted'[KeyOf(q)], c)) <= request[q].count
      BY <2>1, <2>6, <2>7 DEF Waiting, KeyOf
    <3>1. PICK c \in request[q].at .. now :
            Cardinality(Seen(admitted[KeyOf(q)], c)) <= request[q].count
      BY <1>i DEF Waiting
    <3>2. request[q].at \in 0 .. now
      BY <1>a DEF Entry
    <3>3. c \in 0 .. now /\ KeyOf(q) \in Keys
      BY <1>a, <1>k, <3>2
    <3> QED
      BY <2>5, <3>1, <3>3
  <2> QED
    BY <1>j, <2>8, <2>9, <2>10, <2>11
<1>4. ASSUME NEW r \in Requests, FailOpen(r)
      PROVE  SpreadInv'
  <2> DEFINE at == request[r].at
             key == KeyOf(r)
  <2>1. /\ UNCHANGED <<now, admitted>> /\ request[r].step # "idle"
        /\ \/ UNCHANGED <<hits, until>>
           \/ /\ hits' = [hits EXCEPT ![key] = @ \cup {at}]
              /\ until' = [until EXCEPT ![key] = now + Window]
        /\ \/ request' = [request EXCEPT ![r] = Idle(r)]
           \/ request' = [request EXCEPT ![r] = Again(r)]
    BY <1>4 DEF FailOpen, Enter, Member
  <2>2. /\ \A q \in Requests \ {r} : request'[q] = request[q]
        /\ \/ request'[r].step = "idle"
           \/ request'[r].step = "count" /\ request'[r].at = at
    <3>1. request[r] \in Entry(now)
      BY <1>a
    <3>2. Idle(r).step = "idle" /\ Again(r).step = "count" /\ Again(r).at = at
      BY <3>1 DEF Idle, Again, Entry
    <3>3. request'[r] \in {Idle(r), Again(r)}
      BY <2>1, <1>a
    <3>4. \A q \in Requests \ {r} : request'[q] = request[q]
      BY <2>1, <1>a
    <3> QED
      BY <3>2, <3>3, <3>4
  <2>3. InTime'
    BY <1>i, <2>1, <2>2 DEF InTime
  <2>4. Kept'
    <3>1. CASE UNCHANGED <<hits, until>>
      BY <1>i, <2>1, <3>1 DEF Kept
    <3>2. CASE /\ hits' = [hits EXCEPT ![key] = @ \cup {at}]
               /\ until' = [until EXCEPT ![key] = now + Window]
      <4> SUFFICES ASSUME NEW k \in Keys, NEW t \in admitted[k]
                   PROVE  t + Window <= until'[k] /\ (now - Window < t => t \in hits'[k])
        BY <2>1 DEF Kept
      <4>1. t \in 0 .. now
        BY <1>a
      <4> QED
        BY <1>a, <1>i, <3>2, <4>1 DEF Kept
    <3> QED
      BY <2>1, <3>1, <3>2
  <2>5. \A k \in Keys : \A t \in admitted'[k] : Counted(k, t)'
    BY <1>i, <2>1 DEF Counted
  <2>6. \A q \in Requests : Waiting(q)'
    BY <1>i, <2>1, <2>2 DEF Waiting, KeyOf
  <2> QED
    BY <1>j, <2>3, <2>4, <2>5, <2>6
<1>5. CASE Tick
  <2>1. /\ now' = now + 1 /\ UNCHANGED <<request, until, admitted>>
        /\ \A r \in Requests : request[r].step # "idle" => now < request[r].at + Delay
        /\ hits' = [k \in Keys |-> IF until[k] <= now' THEN {} ELSE hits[k]]
    BY <1>5 DEF Tick, history
  <2>2. InTime'
    BY <1>a, <2>1 DEF InTime, Entry
  <2>3. Kept'
    <3> SUFFICES ASSUME NEW k \in Keys, NEW t \in admitted[k]
                 PROVE  /\ t + Window <= until[k]
                        /\ now' - Window < t => t \in hits'[k]
      BY <2>1 DEF Kept
    <3>1. t + Window <= until[k] /\ (now - Window < t => t \in hits[k])
      BY <1>i DEF Kept
    <3>2. t \in Nat /\ until[k] \in Nat
      BY <1>a
    <3> QED
      BY <1>a, <2>1, <3>1, <3>2
  <2>4. \A k \in Keys : \A t \in admitted'[k] : Counted(k, t)'
    <3> SUFFICES ASSUME NEW k \in Keys, NEW t \in admitted[k]
                 PROVE  \E c \in t .. now' : /\ c <= t + Delay
                                             /\ Cardinality(Seen(admitted[k], c)) < Limit
      BY <2>1 DEF Counted
    <3>1. PICK c \in t .. now : /\ c <= t + Delay
                                /\ Cardinality(Seen(admitted[k], c)) < Limit
      BY <1>i DEF Counted
    <3>2. c \in t .. now'
      BY <1>a, <2>1
    <3> QED
      BY <3>1, <3>2
  <2>5. \A r \in Requests : Waiting(r)'
    <3> SUFFICES ASSUME NEW r \in Requests, request[r].step = "add"
                 PROVE  \E c \in request[r].at .. now' :
                          Cardinality(Seen(admitted[KeyOf(r)], c)) <= request[r].count
      BY <2>1 DEF Waiting, KeyOf
    <3>1. PICK c \in request[r].at .. now :
            Cardinality(Seen(admitted[KeyOf(r)], c)) <= request[r].count
      BY <1>i DEF Waiting
    <3>2. c \in request[r].at .. now'
      BY <1>a, <2>1 DEF Entry
    <3> QED
      BY <3>1, <3>2
  <2> QED
    BY <1>j, <2>2, <2>3, <2>4, <2>5
<1>6. CASE UNCHANGED vars
  BY <1>6 DEF vars, history, SpreadInv, KeyOf
<1> QED
  BY <1>1, <1>2, <1>3, <1>4, <1>5, <1>6 DEF Next

\* A set of naturals that is not empty has a least element: what induction
\* comes down to here.
LEMMA Least ==
  ASSUME NEW T, T \subseteq Nat, T # {}
  PROVE  \E x \in T : \A y \in T : x <= y
<1>1. \E x \in T : \A y \in T : ~ (<<y, x>> \in OpToRel(<, Nat))
  BY NatLessThanWellFounded, WFMin
<1>2. \E x \in T : \A y \in T : ~ (y < x)
  BY <1>1 DEF OpToRel
<1> QED
  BY <1>2

\* And one of them that is bounded has a greatest.
LEMMA Greatest ==
  ASSUME NEW n \in Nat, NEW T, T \subseteq 0 .. n, T # {}
  PROVE  \E x \in T : \A y \in T : y <= x
<1> DEFINE D == {d \in Nat : n - d \in T}
<1>1. D # {}
  <2>1. PICK t \in T : TRUE
    OBVIOUS
  <2>2. n - t \in Nat /\ n - (n - t) = t
    OBVIOUS
  <2> QED
    BY <2>1, <2>2
<1>2. PICK x \in D : \A y \in D : x <= y
  <2> HIDE DEF D
  <2>1. D \subseteq Nat
    BY DEF D
  <2> QED
    BY <1>1, <2>1, Least
<1>3. ASSUME NEW y \in T PROVE y <= n - x
  <2>1. n - y \in D
    BY <1>3
  <2>2. x <= n - y
    BY <1>2, <2>1
  <2> QED
    BY <1>3, <2>2
<1> QED
  BY <1>2, <1>3

LEMMA IntervalSize ==
  ASSUME NEW a \in Int, NEW b \in Int, a <= b + 1
  PROVE  IsFiniteSet(a .. b) /\ Cardinality(a .. b) = b - a + 1
  BY FS_Interval

LEMMA UnionSize ==
  ASSUME NEW S, IsFiniteSet(S), NEW T, IsFiniteSet(T)
  PROVE  /\ IsFiniteSet(S \cup T) /\ Cardinality(S \cup T) \in Nat
         /\ Cardinality(S \cup T) <= Cardinality(S) + Cardinality(T)
<1>1. IsFiniteSet(S \cap T)
  BY FS_Intersection
<1>2. /\ Cardinality(S) \in Nat /\ Cardinality(T) \in Nat
      /\ Cardinality(S \cap T) \in Nat
  BY <1>1, FS_CardinalityType
<1>3. /\ IsFiniteSet(S \cup T)
      /\ Cardinality(S \cup T) = Cardinality(S) + Cardinality(T) - Cardinality(S \cap T)
  BY FS_Union
<1> QED
  BY <1>2, <1>3, FS_CardinalityType

\* The seconds of a window up to t: those whoever counts at c sees, those that
\* have left the window by then, and those whose pipelines are under way.
LEMMA WindowOfThree ==
  ASSUME NEW n \in Nat, NEW S \in SUBSET (0 .. n), NEW t \in 0 .. n, NEW c \in t .. t + Delay,
         Cardinality(Seen(S, c)) < Limit
  PROVE  Cardinality({s \in S : t - Window < s /\ s <= t}) <= Limit + Delay
<1> DEFINE W == {s \in S : t - Window < s /\ s <= t}
           Left == t - Window + 1 .. c - Window
           Flying == c - Delay .. t
           Both == Seen(S, c) \cup Left
<1>1. Delay \in Nat /\ Window \in Nat /\ Limit \in Nat /\ c \in Nat /\ t \in Nat
  OBVIOUS
<1>2. IsFiniteSet(Left) /\ Cardinality(Left) = c - t
  BY <1>1, IntervalSize, t - Window + 1 \in Int, c - Window \in Int, t <= c
<1>3. IsFiniteSet(Flying) /\ Cardinality(Flying) = t - c + Delay + 1
  BY <1>1, IntervalSize, c - Delay \in Int, c - Delay <= t
<1>4. IsFiniteSet(Seen(S, c)) /\ Cardinality(Seen(S, c)) \in Nat
  <2>1. Seen(S, c) \in SUBSET (0 .. n)
    BY DEF Seen
  <2> QED
    BY <2>1, SecondsFinite
<1>5. W \subseteq Both \cup Flying
  <2> SUFFICES ASSUME NEW s \in W PROVE s \in Both \cup Flying
    OBVIOUS
  <2>1. s \in S /\ s \in Nat /\ t - Window < s /\ s <= t
    OBVIOUS
  <2>2. CASE s <= c - Window
    BY <1>1, <2>1, <2>2
  <2>3. CASE c - Delay <= s
    BY <1>1, <2>1, <2>3
  <2>4. CASE c - Window < s /\ s < c - Delay
    BY <2>1, <2>4 DEF Seen
  <2> QED
    BY <1>1, <2>1, <2>2, <2>3, <2>4
<1> HIDE DEF W, Left, Flying
<1>6. /\ IsFiniteSet(Both) /\ Cardinality(Both) \in Nat
      /\ Cardinality(Both) <= Cardinality(Seen(S, c)) + Cardinality(Left)
  BY <1>1, <1>2, <1>4, UnionSize
<1> HIDE DEF Both
<1>7. /\ IsFiniteSet(Both \cup Flying) /\ Cardinality(Both \cup Flying) \in Nat
      /\ Cardinality(Both \cup Flying) <= Cardinality(Both) + Cardinality(Flying)
  BY <1>1, <1>3, <1>6, UnionSize
<1>8. /\ Cardinality(W) <= Cardinality(Both \cup Flying)
      /\ Cardinality(W) \in Nat
  BY <1>5, <1>7, FS_Subset, FS_CardinalityType
<1>9. Cardinality(W) <= Limit + Delay
  BY <1>1, <1>2, <1>3, <1>4, <1>6, <1>7, <1>8
<1> QED
  BY <1>9 DEF W

\* In any window a key lets requests through in at most Limit + Delay seconds,
\* in every interleaving of the commands of any number of pipelines.
THEOREM AdmissionsAreSpread == Spec => []AdmissionsSpread
<1>1. Init => SpreadInv
  <2> SUFFICES ASSUME Init PROVE SpreadInv
    OBVIOUS
  <2>1. \A r \in Requests : request[r].step = "idle"
    BY DEF Init
  <2>2. \A k \in Keys : admitted[k] = {}
    BY DEF Init
  <2> QED
    BY <2>1, <2>2 DEF SpreadInv
<1>2. TypeOK /\ SpreadInv => AdmissionsSpread
  <2> SUFFICES ASSUME TypeOK, SpreadInv, NEW k \in Keys, NEW end \in 0 .. now
               PROVE  Cardinality({t \in admitted[k] : end - Window < t /\ t <= end})
                        <= Limit + Delay
    BY DEF AdmissionsSpread
  <2> DEFINE W == {t \in admitted[k] : end - Window < t /\ t <= end}
  <2>a. /\ now \in Nat /\ Window \in Nat /\ Delay \in Nat /\ Limit \in Nat
        /\ admitted[k] \in SUBSET (0 .. now) /\ end \in Nat
    BY DEF TypeOK
  <2>1. CASE W = {}
    <3>1. Cardinality(W) = 0
      BY <2>1, FS_EmptySet
    <3> QED
      BY <2>a, <3>1
  <2>2. CASE W # {}
    <3>1. PICK t \in W : \A s \in W : s <= t
      <4>1. W \subseteq 0 .. end
        BY <2>a
      <4> HIDE DEF W
      <4> QED
        BY <2>2, <2>a, <4>1, Greatest
    <3>2. PICK c \in t .. now : c <= t + Delay /\ Cardinality(Seen(admitted[k], c)) < Limit
      BY DEF SpreadInv
    <3>3. c \in t .. t + Delay /\ t \in 0 .. now
      BY <2>a, <3>2
    <3> DEFINE V == {s \in admitted[k] : t - Window < s /\ s <= t}
    <3>4. Cardinality(V) <= Limit + Delay
      BY <2>a, <3>2, <3>3, WindowOfThree
    <3>5. W \subseteq V
      BY <2>a, <3>1, <3>3
    <3>6. V \in SUBSET (0 .. now)
      BY <2>a
    <3> HIDE DEF V, W
    <3>7. IsFiniteSet(V) /\ Cardinality(V) \in Nat
      BY <2>a, <3>6, SecondsFinite
    <3>8. Cardinality(W) <= Cardinality(V) /\ Cardinality(W) \in Nat
      BY <3>5, <3>7, FS_Subset, FS_CardinalityType
    <3>9. Cardinality(W) <= Limit + Delay
      BY <2>a, <3>4, <3>7, <3>8
    <3> QED
      BY <3>9 DEF W
  <2> QED
    BY <2>1, <2>2
<1> QED
  BY <1>1, <1>2, TypeInit, TypeStep, SpreadStep, PTL DEF Spec

-----------------------------------------------------------------------------
(***************************************************************************)
(* Refusals.                                                               *)
(***************************************************************************)

\* The seconds in which a key was sent anything.
SentOn(k) == {t \in 0 .. now : \E u \in Sharing(k) : t \in sent[u]}

\* The set of a key holds only what has been sent on it, a count on its way back
\* is of what is in the window of its request, and nobody was refused too early.
DueInv ==
  /\ \A k \in Keys : hits[k] \subseteq SentOn(k)
  /\ \A r \in Requests : request[r].step = "add" =>
       request[r].count <= Cardinality(SentBy(Sharing(KeyOf(r)), r))
  /\ early = {}

\* A count is on its way back to r that the requests of its key account for.
Backed(r) == request[r].step = "add" =>
               request[r].count <= Cardinality(SentBy(Sharing(KeyOf(r)), r))

\* What has been sent stays sent, and so a request that does not move is backed.
LEMMA BackedStays ==
  ASSUME TypeOK, now' \in Nat, now <= now',
         \A u \in Users : sent[u] \subseteq sent'[u],
         NEW r \in Requests, request'[r] = request[r], Backed(r)
  PROVE  Backed(r)'
<1> SUFFICES ASSUME request[r].step = "add"
             PROVE  request[r].count <= Cardinality(SentBy(Sharing(KeyOf(r)), r)')
  BY DEF Backed, KeyOf
<1> DEFINE old == SentBy(Sharing(KeyOf(r)), r)
           new == SentBy(Sharing(KeyOf(r)), r)'
<1>1. now \in Nat /\ request[r].count \in Nat /\ Sharing(KeyOf(r)) \subseteq Users
  BY DEF TypeOK, Sharing
<1>2. KeyOf(r)' = KeyOf(r) /\ request'[r].at = request[r].at
  BY DEF KeyOf
<1>3. old \subseteq new
  BY <1>1, <1>2 DEF SentBy, Sharing
<1>4. old \in SUBSET (0 .. now) /\ new \in SUBSET (0 .. now')
  BY DEF SentBy
<1>5. request[r].count <= Cardinality(old)
  BY DEF Backed
<1> HIDE DEF old, new
<1>6. IsFiniteSet(new) /\ Cardinality(new) \in Nat
  BY <1>4, SecondsFinite
<1>7. Cardinality(old) <= Cardinality(new) /\ Cardinality(old) \in Nat
  BY <1>3, <1>6, FS_Subset, FS_CardinalityType
<1>8. request[r].count <= Cardinality(new)
  BY <1>1, <1>5, <1>6, <1>7
<1> QED
  BY <1>8 DEF new

\* What is in the window, and is of the key, has been sent on it.
LEMMA CountIsBacked ==
  ASSUME TypeOK, DueInv, NEW r \in Requests
  PROVE  Cardinality({t \in hits[KeyOf(r)] : t > WindowStart(r)})
           <= Cardinality(SentBy(Sharing(KeyOf(r)), r))
<1> DEFINE kept == {t \in hits[KeyOf(r)] : t > WindowStart(r)}
           backing == SentBy(Sharing(KeyOf(r)), r)
<1>1. KeyOf(r) \in Keys /\ now \in Nat
  BY DEF TypeOK, KeyOf, Keys
<1>2. hits[KeyOf(r)] \subseteq SentOn(KeyOf(r))
  BY <1>1 DEF DueInv
<1>3. kept \subseteq backing
  BY <1>2 DEF SentOn, SentBy, WindowStart
<1>4. backing \in SUBSET (0 .. now)
  BY DEF SentBy
<1> HIDE DEF kept, backing
<1>5. IsFiniteSet(backing)
  BY <1>1, <1>4, SecondsFinite
<1>6. Cardinality(kept) <= Cardinality(backing)
  BY <1>3, <1>5, FS_Subset
<1> QED
  BY <1>6 DEF kept, backing

LEMMA DueStep == TypeOK /\ DueInv /\ [Next]_vars => DueInv'
<1> SUFFICES ASSUME TypeOK, DueInv, [Next]_vars PROVE DueInv'
  OBVIOUS
<1>a. /\ now \in Nat /\ Limit \in Nat
      /\ request \in [Requests -> Entry(now)]
      /\ sent \in [Users -> SUBSET (0 .. now)]
      /\ hits \in [Keys -> SUBSET (0 .. now)]
  BY DEF TypeOK, Entry
<1>k. ASSUME NEW r \in Requests
      PROVE  /\ request[r].user \in Users /\ request[r].at \in 0 .. now
             /\ KeyOf(r) \in Keys /\ request[r].user \in Sharing(KeyOf(r))
  BY <1>a DEF KeyOf, Keys, Sharing, Entry
<1> DEFINE Held == \A k \in Keys : hits[k] \subseteq SentOn(k)
<1>i. Held /\ (\A r \in Requests : Backed(r)) /\ early = {}
  BY DEF DueInv, Backed
<1>j. ASSUME Held', \A r \in Requests : Backed(r)', early' = {}
      PROVE  DueInv'
  BY <1>j DEF DueInv, Backed
\* Requests that do not move are backed whatever the others do.
<1>s. ASSUME now' = now, \A u \in Users : sent[u] \subseteq sent'[u],
             NEW r \in Requests, request'[r] = request[r]
      PROVE  Backed(r)'
  <2>1. now' \in Nat /\ now <= now' /\ Backed(r)
    BY <1>a, <1>i, <1>s
  <2> QED
    BY <1>s, <2>1, BackedStays
\* The last commands add what they have sent.
<1>e. ASSUME NEW r \in Requests, Enter(r), now' = now
      PROVE  Held' /\ \A u \in Users : sent[u] \subseteq sent'[u]
  <2>1. \A u \in Users : sent[u] \subseteq sent'[u]
    BY <1>e, <1>a, <1>k DEF Enter
  <2>2. request[r].at \in sent'[request[r].user]
    BY <1>e, <1>a, <1>k DEF Enter
  <2> SUFFICES ASSUME NEW k \in Keys, NEW t \in hits'[k]
               PROVE  t \in 0 .. now /\ \E u \in Sharing(k) : t \in sent'[u]
    BY <1>e, <2>1 DEF SentOn, Sharing
  <2>3. CASE t \in hits[k]
    <3>1. t \in SentOn(k)
      BY <1>i, <2>3 DEF Held
    <3> QED
      BY <2>1, <3>1 DEF SentOn, Sharing
  <2>4. CASE t \notin hits[k]
    <3>1. k = KeyOf(r) /\ t = request[r].at
      BY <1>e, <1>a, <1>k, <2>4 DEF Enter, Member
    <3> QED
      BY <1>k, <2>2, <3>1
  <2> QED
    BY <2>3, <2>4
<1>1. ASSUME NEW r \in Requests, NEW u \in Users, Begin(r, u)
      PROVE  DueInv'
  <2>1. /\ UNCHANGED <<now, hits, sent, early>>
        /\ request' = [request EXCEPT ![r] = [step |-> "count", user |-> u,
                                              at |-> now, count |-> 0]]
    BY <1>1 DEF Begin, history
  <2>2. /\ request'[r].step = "count"
        /\ \A q \in Requests \ {r} : request'[q] = request[q]
    BY <2>1, <1>a
  <2>3. Held'
    BY <1>i, <2>1 DEF Held, SentOn, Sharing
  <2>4. \A q \in Requests : Backed(q)'
    BY <1>s, <2>1, <2>2 DEF Backed
  <2> QED
    BY <1>i, <1>j, <2>1, <2>3, <2>4
<1>2. ASSUME NEW r \in Requests, Count(r)
      PROVE  DueInv'
  <2> DEFINE kept == {t \in hits[KeyOf(r)] : t > WindowStart(r)}
  <2>1. /\ UNCHANGED <<now, sent, early>>
        /\ hits' = [hits EXCEPT ![KeyOf(r)] = kept]
        /\ request' = [request EXCEPT ![r].step = "add", ![r].count = Cardinality(kept)]
    BY <1>2 DEF Count, history
  <2>2. /\ request'[r].user = request[r].user /\ request'[r].at = request[r].at
        /\ request'[r].count = Cardinality(kept)
        /\ \A q \in Requests \ {r} : request'[q] = request[q]
    BY <2>1, <1>a DEF Entry
  <2>3. Held'
    <3>1. \A k \in Keys : hits'[k] \subseteq hits[k]
      BY <1>a, <1>k, <2>1
    <3> QED
      BY <1>i, <2>1, <3>1 DEF Held, SentOn, Sharing
  <2>4. Backed(r)'
    <3>1. Cardinality(kept) <= Cardinality(SentBy(Sharing(KeyOf(r)), r))
      BY CountIsBacked
    <3>2. KeyOf(r)' = KeyOf(r) /\ SentBy(Sharing(KeyOf(r)), r)' = SentBy(Sharing(KeyOf(r)), r)
      BY <2>1, <2>2 DEF KeyOf, SentBy, Sharing
    <3> QED
      BY <2>2, <3>1, <3>2 DEF Backed
  <2>5. \A q \in Requests \ {r} : Backed(q)'
    BY <1>s, <2>1, <2>2
  <2> QED
    BY <1>i, <1>j, <2>1, <2>3, <2>4, <2>5
<1>3. ASSUME NEW r \in Requests, Add(r)
      PROVE  DueInv'
  <2>1. /\ now' = now /\ request[r].step = "add" /\ Enter(r) /\ Answer(r)
        /\ request' = [request EXCEPT ![r] = Idle(r)]
    BY <1>3 DEF Add
  <2>2. /\ request'[r].step = "idle"
        /\ \A q \in Requests \ {r} : request'[q] = request[q]
    BY <2>1, <1>a DEF Idle, Entry
  <2>3. Held' /\ \A u \in Users : sent[u] \subseteq sent'[u]
    BY <1>e, <2>1
  <2>4. \A q \in Requests : Backed(q)'
    BY <1>s, <2>1, <2>2, <2>3 DEF Backed
  <2>5. early' = {}
    <3> DEFINE backing == SentBy(Sharing(KeyOf(r)), r)
    <3>1. request[r].count <= Cardinality(backing) /\ request[r].count \in Nat
      BY <1>a, <1>i, <2>1 DEF Backed, Entry
    <3>2. backing \in SUBSET (0 .. now)
      BY DEF SentBy
    <3> HIDE DEF backing
    <3>3. Cardinality(backing) \in Nat
      BY <1>a, <3>2, SecondsFinite
    <3>4. request[r].count < Limit \/ ~ (Cardinality(backing) < Limit)
      BY <1>a, <3>1, <3>3
    <3> QED
      BY <1>i, <2>1, <3>4 DEF Answer, Allowed, backing
  <2> QED
    BY <1>j, <2>3, <2>4, <2>5
<1>4. ASSUME NEW r \in Requests, FailOpen(r)
      PROVE  DueInv'
  <2>1. /\ UNCHANGED <<now, early>>
        /\ UNCHANGED <<hits, sent>> \/ Enter(r)
        /\ \/ request' = [request EXCEPT ![r] = Idle(r)]
           \/ request' = [request EXCEPT ![r] = Again(r)]
    BY <1>4 DEF FailOpen
  <2>2. /\ request'[r].step # "add"
        /\ \A q \in Requests \ {r} : request'[q] = request[q]
    BY <2>1, <1>a DEF Idle, Again, Entry
  <2>3. Held' /\ \A u \in Users : sent[u] \subseteq sent'[u]
    <3>1. CASE UNCHANGED <<hits, sent>>
      BY <1>i, <2>1, <3>1 DEF Held, SentOn, Sharing
    <3>2. CASE Enter(r)
      BY <1>e, <2>1, <3>2
    <3> QED
      BY <2>1, <3>1, <3>2
  <2>4. \A q \in Requests : Backed(q)'
    BY <1>s, <2>1, <2>2, <2>3 DEF Backed
  <2> QED
    BY <1>i, <1>j, <2>1, <2>3, <2>4
<1>5. CASE Tick
  <2>1. /\ now' = now + 1 /\ UNCHANGED <<request, sent, early>>
        /\ hits' = [k \in Keys |-> IF until[k] <= now' THEN {} ELSE hits[k]]
    BY <1>5 DEF Tick, history
  <2>2. now' \in Nat /\ now <= now' /\ 0 .. now \subseteq 0 .. now'
    BY <1>a, <2>1
  <2>3. Held'
    <3>1. \A k \in Keys : hits'[k] \subseteq hits[k]
      BY <2>1
    <3>2. \A k \in Keys : SentOn(k) \subseteq SentOn(k)'
      BY <2>1, <2>2 DEF SentOn, Sharing
    <3> QED
      BY <1>i, <3>1, <3>2 DEF Held
  <2>4. \A r \in Requests : Backed(r)'
    BY <1>i, <2>1, <2>2, BackedStays
  <2> QED
    BY <1>i, <1>j, <2>1, <2>3, <2>4
<1>6. CASE UNCHANGED vars
  BY <1>6 DEF vars, history, DueInv, SentOn, SentBy, Sharing, KeyOf
<1> QED
  BY <1>1, <1>2, <1>3, <1>4, <1>5, <1>6 DEF Next

\* Nobody is refused before the key has been sent requests in Limit seconds of
\* the window, in every portal and however the pipelines overlap or break off.
THEOREM RefusalsComeLate == Spec => []RefusalsAreDue
<1>1. Init => DueInv
  <2> SUFFICES ASSUME Init PROVE DueInv
    OBVIOUS
  <2>1. \A r \in Requests : request[r].step = "idle"
    BY DEF Init
  <2>2. \A k \in Keys : hits[k] = {}
    BY DEF Init
  <2> QED
    BY <2>1, <2>2 DEF Init, DueInv
<1>2. DueInv => RefusalsAreDue
  BY DEF DueInv, RefusalsAreDue
<1> QED
  BY <1>1, <1>2, TypeInit, TypeStep, DueStep, PTL DEF Spec

=============================================================================
