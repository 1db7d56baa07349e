-------------------------- MODULE SessionsProofs ---------------------------
(***************************************************************************)
(* Proofs about Sessions, for every number of sessions and of concurrent   *)
(* requests and every pair of token lifetimes with AccessTTL <= RefreshTTL.*)
(***************************************************************************)
EXTENDS Sessions, TLAPS, FiniteSetTheorems

USE SetsAssumption, TTLAssumption

-----------------------------------------------------------------------------
(***************************************************************************)
(* Type correctness.                                                       *)
(***************************************************************************)

\* What Start and Advance make of the requests.
LEMMA StartType ==
  ASSUME TypeOK, NEW r \in Requests, NEW step \in Steps,
         NEW s \in Sids \cup {NoSid}, Start(r, step, s)
  PROVE  TypeOK'
  BY DEF TypeOK, Start, Request

LEMMA AdvanceType ==
  ASSUME TypeOK, NEW r \in Requests, NEW step \in Steps, NEW ok \in BOOLEAN,
         Advance(r, step, ok)
  PROVE  /\ req' \in [Requests -> Request]
         /\ req'[r].step = step
         /\ req'[r].sid = req[r].sid
         /\ req'[r].clean <=> req[r].clean /\ ok
         /\ \A q \in Requests \ {r} : req'[q] = req[q]
  BY DEF TypeOK, Advance, Request

LEMMA IdleType ==
  ASSUME TypeOK, NEW r \in Requests, req' = [req EXCEPT ![r] = Idle]
  PROVE  /\ req' \in [Requests -> Request]
         /\ req'[r].step = "idle" /\ req'[r].sid = NoSid
         /\ \A q \in Requests \ {r} : req'[q] = req[q]
  BY DEF TypeOK, Idle, Request, Steps

\* The sessions a request works on are real, and rows of ids not yet used are
\* untouched.
Placed ==
  /\ \A r \in Requests :
       req[r].step \notin {"idle", "create"} =>
         req[r].sid \in Sids /\ Known(req[r].sid)
  /\ \A s \in Sids :
       ~Known(s) => bannedTo[s] = 0 /\ parent[s] = NoSid /\ s \notin ended
  /\ \A c \in Sids : parent[c] # NoSid => Known(parent[c])

RowInv == TypeOK /\ Placed

LEMMA RowInvInit == Init => RowInv
  BY DEF Init, RowInv, TypeOK, Placed, Idle, Request, Steps, Known

LEMMA RowInvStep == RowInv /\ [Next]_vars => RowInv'
<1> SUFFICES ASSUME RowInv, [Next]_vars PROVE RowInv'
  OBVIOUS
<1> USE DEF RowInv
<1>1. ASSUME NEW r \in Requests, BeginLogin(r)
      PROVE  RowInv'
  <2>1. TypeOK'
    BY <1>1, StartType DEF BeginLogin, Steps
  <2>2. Placed'
    BY <1>1 DEF BeginLogin, Start, Placed, Known, TypeOK
  <2> QED
    BY <2>1, <2>2
<1>2. ASSUME NEW r \in Requests, NEW s \in Sids, NEW step \in Steps,
             Known(s), Start(r, step, s)
      PROVE  RowInv'
  <2>1. TypeOK'
    BY <1>2, StartType
  <2>2. Placed'
    BY <1>2 DEF Start, Placed, Known, TypeOK
  <2> QED
    BY <2>1, <2>2
<1>3. ASSUME NEW r \in Requests, Revoke(r)
      PROVE  RowInv'
  <2>1. /\ req[r].step \in {"rotateRevoke", "logoutRevoke"}
        /\ AfterRevoke[req[r].step] \in Steps \ {"idle", "create"}
    BY <1>3 DEF Revoke, AfterRevoke, Steps
  <2>2. req[r].sid \in Sids /\ Known(req[r].sid)
    BY <2>1 DEF Placed
  <2>3. Advance(r, AfterRevoke[req[r].step], TRUE)
    BY <1>3 DEF Revoke
  <2>4. row' \in [Sids -> {"none", "live", "revoked"}]
    BY <1>3 DEF Revoke, MarkRevoked, TypeOK
  <2>5. \A s \in Sids : Known(s)' <=> Known(s)
    BY <1>3, <2>2 DEF Revoke, MarkRevoked, TypeOK, Known
  <2>6. /\ req' \in [Requests -> Request]
        /\ req'[r].step = AfterRevoke[req[r].step]
        /\ req'[r].sid = req[r].sid
        /\ \A q \in Requests \ {r} : req'[q] = req[q]
    BY <2>1, <2>3, AdvanceType
  <2>7. TypeOK'
    BY <1>3, <2>4, <2>6 DEF Revoke, TypeOK
  <2>8. Placed'
    BY <1>3, <2>1, <2>2, <2>5, <2>6 DEF Revoke, Placed, TypeOK
  <2> QED
    BY <2>7, <2>8
<1>4. ASSUME NEW r \in Requests, LoseRevoke(r)
      PROVE  RowInv'
  <2>1. /\ req[r].step \in {"rotateRevoke", "logoutRevoke"}
        /\ AfterRevoke[req[r].step] \in Steps \ {"idle", "create"}
    BY <1>4 DEF LoseRevoke, AfterRevoke, Steps
  <2>2. Advance(r, AfterRevoke[req[r].step], FALSE)
    BY <1>4 DEF LoseRevoke
  <2>3. /\ req' \in [Requests -> Request]
        /\ req'[r].step = AfterRevoke[req[r].step]
        /\ req'[r].sid = req[r].sid
        /\ \A q \in Requests \ {r} : req'[q] = req[q]
    BY <2>1, <2>2, AdvanceType
  <2>4. TypeOK'
    BY <1>4, <2>3 DEF LoseRevoke, TypeOK
  <2>5. Placed'
    BY <1>4, <2>1, <2>3 DEF LoseRevoke, Placed, Known
  <2> QED
    BY <2>4, <2>5
<1>5. ASSUME NEW r \in Requests, NEW s \in Sids, CreateForLogin(r, s)
      PROVE  RowInv'
  <2>1. TypeOK'
    BY <1>5, IdleType DEF CreateForLogin, InsertSession, TypeOK
  <2>2. Placed'
    BY <1>5, IdleType DEF CreateForLogin, InsertSession, TypeOK, Placed, Known
  <2> QED
    BY <2>1, <2>2
<1>6. ASSUME NEW r \in Requests, NEW s \in Sids, CreateForRotate(r, s)
      PROVE  RowInv'
  <2>1. req[r].sid \in Sids /\ Known(req[r].sid)
    BY <1>6 DEF CreateForRotate, Placed
  <2>2. Advance(r, "rotateBan", TRUE) /\ "rotateBan" \in Steps
    BY <1>6 DEF CreateForRotate, Steps
  <2>3. /\ req' \in [Requests -> Request]
        /\ req'[r].step = "rotateBan"
        /\ req'[r].sid = req[r].sid
        /\ \A q \in Requests \ {r} : req'[q] = req[q]
    BY <2>2, AdvanceType
  <2>4. TypeOK'
    BY <1>6, <2>1, <2>3 DEF CreateForRotate, InsertSession, TypeOK
  <2>5. Placed'
    BY <1>6, <2>1, <2>3
       DEF CreateForRotate, InsertSession, TypeOK, Placed, Known
  <2> QED
    BY <2>4, <2>5
<1>7. ASSUME NEW r \in Requests, Ban(r)
      PROVE  RowInv'
  <2>1. req[r].sid \in Sids /\ Known(req[r].sid)
    BY <1>7 DEF Ban, Placed
  <2>2. req' \in [Requests -> Request]
    BY <1>7, IdleType DEF Ban
  <2>3. BanExpiry \in Nat
    BY DEF BanExpiry, TypeOK
  <2>4. TypeOK'
    BY <1>7, <2>1, <2>2, <2>3 DEF Ban, TypeOK
  <2>5. Placed'
    BY <1>7, <2>1, IdleType DEF Ban, TypeOK, Placed, Known
  <2> QED
    BY <2>4, <2>5
<1>8. ASSUME NEW r \in Requests, GiveUp(r)
      PROVE  RowInv'
  <2>1. TypeOK'
    BY <1>8, IdleType DEF GiveUp, TypeOK
  <2>2. Placed'
    BY <1>8, IdleType DEF GiveUp, Placed, Known
  <2> QED
    BY <2>1, <2>2
<1>9. ASSUME NEW s \in Sids, NEW t \in Sids, RevokeOther(s, t)
      PROVE  RowInv'
  BY <1>9 DEF RevokeOther, MarkRevoked, TypeOK, Placed, Known
<1>10. CASE Tick
  BY <1>10 DEF Tick, TypeOK, Placed, Known
<1>11. CASE UNCHANGED vars
  BY <1>11 DEF vars, TypeOK, Placed, Known
<1> QED
  BY <1>1, <1>2, <1>3, <1>4, <1>5, <1>6, <1>7, <1>8, <1>9, <1>10, <1>11
     DEF Next, BeginRotate, BeginLogout, Redeemable, AccessTokenValid, Known,
         Steps

\* Rows, blacklist and requests keep their domains.
THEOREM TypeCorrect == Spec => []TypeOK
<1> RowInv => TypeOK
  BY DEF RowInv
<1> QED
  BY RowInvInit, RowInvStep, PTL DEF Spec

-----------------------------------------------------------------------------
(***************************************************************************)
(* Ended sessions.                                                         *)
(***************************************************************************)

\* What a step can do to a session there is: revoke it, ban it, or wait.
LEMMA KnownFrame ==
  ASSUME RowInv, [Next]_vars, NEW s \in Sids, Known(s)
  PROVE  /\ Known(s)'
         /\ born'[s] = born[s]
         /\ row'[s] = row[s] \/ row'[s] = "revoked"
         /\ bannedTo'[s] = bannedTo[s] \/ bannedTo'[s] = now + RefreshTTL
         /\ now' = now \/ now' = now + 1
         /\ now' = now \/ bannedTo'[s] = bannedTo[s]
<1> USE DEF RowInv, TypeOK, Known
<1>1. ASSUME NEW r \in Requests, Revoke(r) \/ LoseRevoke(r)
      PROVE  /\ row'[s] = row[s] \/ row'[s] = "revoked"
             /\ UNCHANGED <<now, born, bannedTo>>
  BY <1>1 DEF Revoke, LoseRevoke, MarkRevoked
<1>2. ASSUME NEW r \in Requests, NEW c \in Sids,
             CreateForLogin(r, c) \/ CreateForRotate(r, c)
      PROVE  /\ row'[s] = row[s] /\ born'[s] = born[s]
             /\ UNCHANGED <<now, bannedTo>>
  BY <1>2 DEF CreateForLogin, CreateForRotate, InsertSession
<1>3. ASSUME NEW r \in Requests, Ban(r)
      PROVE  /\ bannedTo'[s] = bannedTo[s] \/ bannedTo'[s] = now + RefreshTTL
             /\ UNCHANGED <<now, born, row>>
  BY <1>3 DEF Ban, BanExpiry
<1>4. ASSUME NEW a \in Sids, NEW t \in Sids, RevokeOther(a, t)
      PROVE  /\ row'[s] = row[s] \/ row'[s] = "revoked"
             /\ UNCHANGED <<now, born, bannedTo>>
  BY <1>4 DEF RevokeOther, MarkRevoked
<1>5. CASE Tick
  BY <1>5 DEF Tick
<1>6. CASE UNCHANGED <<now, row, born, bannedTo>>
  BY <1>6
<1> QED
  BY <1>1, <1>2, <1>3, <1>4, <1>5, <1>6
     DEF Next, BeginLogin, BeginRotate, BeginLogout, Start, GiveUp, vars

\* A blacklist key, once set, outlives the access token it is meant for.
BanInv ==
  \A s \in Sids : /\ born[s] <= now
                  /\ bannedTo[s] # 0 => bannedTo[s] >= born[s] + AccessTTL

LEMMA BanInvStep == RowInv /\ BanInv /\ [Next]_vars => BanInv'
<1> SUFFICES ASSUME RowInv, BanInv, [Next]_vars, NEW s \in Sids
             PROVE  /\ born'[s] <= now'
                    /\ bannedTo'[s] # 0 => bannedTo'[s] >= born'[s] + AccessTTL
  BY DEF BanInv
<1>1. CASE Known(s)
  <2>1. /\ born[s] \in Nat /\ bannedTo[s] \in Nat /\ now \in Nat
        /\ born[s] <= now
        /\ bannedTo[s] # 0 => bannedTo[s] >= born[s] + AccessTTL
    BY DEF RowInv, TypeOK, BanInv
  <2>2. /\ born'[s] = born[s]
        /\ bannedTo'[s] = bannedTo[s] \/ bannedTo'[s] = now + RefreshTTL
        /\ now' = now \/ now' = now + 1
    BY <1>1, KnownFrame
  <2> QED
    BY <2>1, <2>2
<1>2. CASE ~Known(s)
  <2>1. now \in Nat /\ born[s] \in Nat /\ born[s] <= now /\ bannedTo[s] = 0
    BY <1>2 DEF RowInv, TypeOK, Placed, BanInv
  <2>2. now' = now \/ now' = now + 1
    BY DEF Next, BeginLogin, BeginRotate, BeginLogout, Start, Revoke,
           LoseRevoke, CreateForLogin, CreateForRotate, Ban, GiveUp,
           RevokeOther, Tick, vars
  <2>3. born'[s] = born[s] \/ born'[s] = now
    <3>1. ASSUME NEW r \in Requests, NEW c \in Sids,
                 CreateForLogin(r, c) \/ CreateForRotate(r, c)
          PROVE  born'[s] = born[s] \/ born'[s] = now
      BY <3>1 DEF CreateForLogin, CreateForRotate, InsertSession, RowInv, TypeOK
    <3> QED
      BY <3>1
         DEF Next, BeginLogin, BeginRotate, BeginLogout, Start, Revoke,
             LoseRevoke, Ban, GiveUp, RevokeOther, Tick, vars
  <2>4. bannedTo'[s] = bannedTo[s]
    <3>1. ASSUME NEW r \in Requests, Ban(r)
          PROVE  bannedTo'[s] = bannedTo[s]
      BY <1>2, <3>1 DEF Ban, RowInv, Placed, TypeOK
    <3> QED
      BY <3>1
         DEF Next, BeginLogin, BeginRotate, BeginLogout, Start, Revoke,
             LoseRevoke, CreateForLogin, CreateForRotate, GiveUp,
             RevokeOther, Tick, vars
  <2> QED
    BY <2>1, <2>2, <2>3, <2>4
<1> QED
  BY <1>1, <1>2

Revoked == {"rotateCreate", "rotateBan", "logoutBan"}

\* A request past its UPDATE, none of whose writes failed, has left its session
\* revoked; a session ended by such a request is revoked and banned.
EndInv ==
  /\ \A r \in Requests :
       req[r].clean /\ req[r].step \in Revoked => row[req[r].sid] = "revoked"
  /\ \A s \in ended : /\ row[s] = "revoked"
                      /\ bannedTo[s] >= born[s] + AccessTTL

\* The first half of EndInv, kept by every step.
LEMMA CleanStep ==
  ASSUME RowInv, EndInv, [Next]_vars, NEW r \in Requests,
         req'[r].clean, req'[r].step \in Revoked
  PROVE  row'[req'[r].sid] = "revoked"
<1>1. ASSUME req'[r] = req[r]
      PROVE  row'[req'[r].sid] = "revoked"
  <2>1. req[r].sid \in Sids /\ Known(req[r].sid) /\ row[req[r].sid] = "revoked"
    BY <1>1 DEF EndInv, RowInv, Placed, Revoked
  <2> QED
    BY <1>1, <2>1, KnownFrame
<1>2. ASSUME NEW step \in Steps, NEW s \in Sids \cup {NoSid},
             Start(r, step, s), step \notin Revoked
      PROVE  FALSE
  BY <1>2 DEF Start, RowInv, TypeOK
<1>3. CASE Revoke(r)
  BY <1>3 DEF Revoke, MarkRevoked, Advance, RowInv, TypeOK, Placed, Request,
              AfterRevoke
<1>4. CASE LoseRevoke(r)
  BY <1>4 DEF LoseRevoke, Advance, RowInv, TypeOK, Request
<1>5. ASSUME NEW c \in Sids, CreateForRotate(r, c)
      PROVE  row'[req'[r].sid] = "revoked"
  <2>1. /\ req'[r].sid = req[r].sid
        /\ req[r].clean /\ req[r].step = "rotateCreate"
    BY <1>5 DEF CreateForRotate, Advance, RowInv, TypeOK, Request
  <2>2. /\ req[r].sid \in Sids /\ Known(req[r].sid)
        /\ row[req[r].sid] = "revoked"
    BY <2>1 DEF EndInv, RowInv, Placed, Revoked
  <2> QED
    BY <2>1, <2>2, KnownFrame
<1>6. ASSUME req' = [req EXCEPT ![r] = Idle]
      PROVE  FALSE
  BY <1>6 DEF Idle, Revoked, RowInv, TypeOK
<1>7. ASSUME NEW q \in Requests, q # r,
             \/ \E step \in Steps, s \in Sids \cup {NoSid} : Start(q, step, s)
             \/ Revoke(q) \/ LoseRevoke(q) \/ Ban(q) \/ GiveUp(q)
             \/ \E s \in Sids : CreateForLogin(q, s) \/ CreateForRotate(q, s)
      PROVE  req'[r] = req[r]
  BY <1>7 DEF Start, Revoke, LoseRevoke, Ban, GiveUp, CreateForLogin,
              CreateForRotate, Advance, RowInv, TypeOK
<1>8. ASSUME \/ \E s, t \in Sids : RevokeOther(s, t)
             \/ Tick
             \/ UNCHANGED vars
      PROVE  req'[r] = req[r]
  BY <1>8 DEF RevokeOther, Tick, vars
<1>9. ASSUME NEW q \in Requests, NEW s \in Sids,
             BeginLogin(q) \/ BeginRotate(q, s) \/ BeginLogout(q, s)
      PROVE  \E step \in Steps \ Revoked, t \in Sids \cup {NoSid} :
               Start(q, step, t)
  BY <1>9 DEF BeginLogin, BeginRotate, BeginLogout, Steps, Revoked
<1>10. ASSUME NEW q \in Requests, BeginLogin(q)
       PROVE  \E step \in Steps \ Revoked, t \in Sids \cup {NoSid} :
                Start(q, step, t)
  BY <1>10 DEF BeginLogin, Steps, Revoked
<1> QED
  BY <1>1, <1>2, <1>3, <1>4, <1>5, <1>6, <1>7, <1>8, <1>9, <1>10
     DEF Next, Ban, GiveUp, CreateForLogin

LEMMA EndInvStep == RowInv /\ BanInv /\ EndInv /\ [Next]_vars => EndInv'
<1> SUFFICES ASSUME RowInv, BanInv, EndInv, [Next]_vars PROVE EndInv'
  OBVIOUS
<1>1. ASSUME NEW s \in ended'
      PROVE  row'[s] = "revoked" /\ bannedTo'[s] >= born'[s] + AccessTTL
  <2>1. CASE s \in ended
    <3>1. /\ s \in Sids /\ Known(s) /\ row[s] = "revoked"
          /\ bannedTo[s] >= born[s] + AccessTTL
          /\ born[s] \in Nat /\ now \in Nat /\ born[s] <= now
          /\ bannedTo[s] \in Nat
      BY <2>1 DEF EndInv, RowInv, TypeOK, Known, BanInv
    <3>2. /\ row'[s] = "revoked"
          /\ born'[s] = born[s]
          /\ bannedTo'[s] = bannedTo[s] \/ bannedTo'[s] = now + RefreshTTL
      BY <3>1, KnownFrame
    <3> QED
      BY <3>1, <3>2
  <2>2. CASE s \notin ended
    <3>1. PICK r \in Requests : Ban(r) /\ req[r].clean /\ s = req[r].sid
      BY <2>2
         DEF Next, BeginLogin, BeginRotate, BeginLogout, Start, Revoke,
             LoseRevoke, CreateForLogin, CreateForRotate, Ban, GiveUp,
             RevokeOther, Tick, vars
    <3>2. s \in Sids /\ row[s] = "revoked" /\ born[s] <= now
      BY <3>1 DEF Ban, EndInv, Revoked, RowInv, Placed, BanInv
    <3>3. /\ row' = row /\ born' = born /\ bannedTo'[s] = now + RefreshTTL
      BY <3>1, <3>2 DEF Ban, BanExpiry, RowInv, TypeOK
    <3>4. now \in Nat /\ born[s] \in Nat
      BY <3>2 DEF RowInv, TypeOK
    <3> QED
      BY <3>2, <3>3, <3>4
  <2> QED
    BY <2>1, <2>2
<1>2. ASSUME NEW r \in Requests, req'[r].clean, req'[r].step \in Revoked
      PROVE  row'[req'[r].sid] = "revoked"
  BY <1>2, CleanStep
<1> QED
  BY <1>1, <1>2 DEF EndInv

LEMMA EndInvInit == Init => BanInv /\ EndInv
  BY DEF Init, BanInv, EndInv, Idle, Revoked

\* A logout or a rotation whose writes all took effect leaves neither token of
\* the session of any use, at any later time.
THEOREM EndedStayEnded == Spec => []EndedIsUnusable
<1>1. RowInv /\ EndInv => EndedIsUnusable
  <2> SUFFICES ASSUME RowInv, EndInv, NEW s \in ended
               PROVE  ~AccessHonoured(s) /\ ~Redeemable(s)
    BY DEF EndedIsUnusable
  <2>1. /\ row[s] = "revoked"
        /\ bannedTo[s] >= born[s] + AccessTTL
        /\ born[s] \in Nat /\ bannedTo[s] \in Nat /\ now \in Nat
    BY DEF EndInv, RowInv, TypeOK
  <2> QED
    BY <2>1 DEF AccessHonoured, AccessTokenValid, Blacklisted, Redeemable
<1> QED
  BY <1>1, RowInvInit, RowInvStep, EndInvInit, BanInvStep, EndInvStep, PTL
     DEF Spec

-----------------------------------------------------------------------------
(***************************************************************************)
(* The tokens as TokenLife sees them.                                      *)
(***************************************************************************)

\* No step brings back a token that was refused.
LEMMA RefusedStays ==
  ASSUME RowInv, BanInv, [Next]_vars, NEW s \in Sids, Known(s)
  PROVE  /\ Known(s)'
         /\ ~AccessHonoured(s) => ~AccessHonoured(s)'
         /\ ~Redeemable(s) => ~Redeemable(s)'
<1>1. /\ born[s] \in Nat /\ bannedTo[s] \in Nat /\ now \in Nat
      /\ bannedTo[s] # 0 => bannedTo[s] >= born[s] + AccessTTL
      /\ row[s] # "none"
  BY DEF RowInv, TypeOK, BanInv, Known
<1>2. /\ Known(s)'
      /\ born'[s] = born[s]
      /\ row'[s] = row[s] \/ row'[s] = "revoked"
      /\ bannedTo'[s] = bannedTo[s] \/ bannedTo'[s] = now + RefreshTTL
      /\ now' = now \/ now' = now + 1
      /\ now' = now \/ bannedTo'[s] = bannedTo[s]
  BY KnownFrame
<1>3. ~AccessHonoured(s) => ~AccessHonoured(s)'
  BY <1>1, <1>2 DEF AccessHonoured, AccessTokenValid, Blacklisted, Known
<1>4. ~Redeemable(s) => ~Redeemable(s)'
  BY <1>1, <1>2 DEF Redeemable
<1> QED
  BY <1>2, <1>3, <1>4

\* The INSERT of a session issues its pair and touches no other.
LEMMA InsertIssues ==
  ASSUME RowInv, NEW c \in Sids, NEW from, InsertSession(c, from),
         UNCHANGED <<now, bannedTo>>
  PROVE  Life!Issue(c)
<1>1. /\ row[c] = "none" /\ row' = [row EXCEPT ![c] = "live"]
      /\ born' = [born EXCEPT ![c] = now]
      /\ now' = now /\ bannedTo' = bannedTo
  BY DEF InsertSession
<1>2. AccessJudged[c] = "none" /\ RefreshJudged[c] = "none"
  BY <1>1 DEF AccessJudged, RefreshJudged, Judged, Known
<1>3. /\ row'[c] = "live" /\ born'[c] = now /\ bannedTo[c] = 0 /\ now \in Nat
  BY <1>1 DEF RowInv, TypeOK, Placed, Known
<1>4. AccessHonoured(c)' /\ Redeemable(c)' /\ Known(c)'
  BY <1>1, <1>3
     DEF AccessHonoured, AccessTokenValid, Blacklisted, Redeemable, Known
<1>5. ASSUME NEW s \in Sids, s # c
      PROVE  /\ Judged(s, AccessHonoured(s))' = Judged(s, AccessHonoured(s))
             /\ Judged(s, Redeemable(s))' = Judged(s, Redeemable(s))
  <2>1. row'[s] = row[s] /\ born'[s] = born[s]
    BY <1>1, <1>5 DEF RowInv, TypeOK
  <2> QED
    BY <1>1, <2>1
       DEF Judged, AccessHonoured, AccessTokenValid, Blacklisted, Redeemable, Known
<1>6. AccessJudged' = [AccessJudged EXCEPT ![c] = "good"]
  BY <1>4, <1>5 DEF AccessJudged, Judged
<1>7. RefreshJudged' = [RefreshJudged EXCEPT ![c] = "good"]
  BY <1>4, <1>5 DEF RefreshJudged, Judged
<1> QED
  BY <1>2, <1>6, <1>7 DEF Life!Issue

\* Every other step refuses tokens, if it does anything to them.
LEMMA OtherStepsRefuse ==
  ASSUME RowInv, BanInv, [Next]_vars,
         \A s \in Sids : ~Known(s) => ~Known(s)'
  PROVE  \E A, R \in SUBSET Sids : Life!Refuse(A, R)
<1> DEFINE A == {s \in Sids : Known(s) /\ AccessHonoured(s) /\ ~AccessHonoured(s)'}
           R == {s \in Sids : Known(s) /\ Redeemable(s) /\ ~Redeemable(s)'}
<1>1. ASSUME NEW s \in Sids
      PROVE  /\ AccessJudged'[s] = IF s \in A THEN "refused" ELSE AccessJudged[s]
             /\ RefreshJudged'[s] = IF s \in R THEN "refused" ELSE RefreshJudged[s]
  <2>1. CASE ~Known(s)
    <3>1. ~Known(s)'
      BY <2>1
    <3> QED
      BY <2>1, <3>1 DEF AccessJudged, RefreshJudged, Judged
  <2>2. CASE Known(s)
    <3>1. /\ Known(s)'
          /\ ~AccessHonoured(s) => ~AccessHonoured(s)'
          /\ ~Redeemable(s) => ~Redeemable(s)'
      BY <2>2, RefusedStays
    <3> QED
      BY <2>2, <3>1 DEF AccessJudged, RefreshJudged, Judged
  <2> QED
    BY <2>1, <2>2
<1>2. /\ AccessJudged' = Life!Refused(AccessJudged, A)
      /\ RefreshJudged' = Life!Refused(RefreshJudged, R)
  BY <1>1 DEF AccessJudged, RefreshJudged, Life!Refused
<1>3. /\ \A s \in A : AccessJudged[s] = "good"
      /\ \A s \in R : RefreshJudged[s] = "good"
  BY DEF AccessJudged, RefreshJudged, Judged
<1>4. A \in SUBSET Sids /\ R \in SUBSET Sids
  OBVIOUS
<1>5. Life!Refuse(A, R)
  BY <1>2, <1>3 DEF Life!Refuse
<1> QED
  BY <1>4, <1>5

\* A session comes to be known by the INSERT alone.
LEMMA OnlyInsertKnows ==
  ASSUME RowInv, [Next]_vars, NEW s \in Sids, ~Known(s), Known(s)'
  PROVE  \E r \in Requests, c \in Sids :
           CreateForLogin(r, c) \/ CreateForRotate(r, c)
<1>1. ASSUME NEW r \in Requests, Revoke(r)
      PROVE  Known(s)' = Known(s)
  <2>1. req[r].sid # s /\ row' = [row EXCEPT ![req[r].sid] = "revoked"]
    BY <1>1 DEF Revoke, AfterRevoke, MarkRevoked, RowInv, Placed
  <2> QED
    BY <2>1 DEF Known, RowInv, TypeOK
<1>2. ASSUME NEW a \in Sids, NEW t \in Sids, RevokeOther(a, t)
      PROVE  Known(s)' = Known(s)
  BY <1>2 DEF RevokeOther, MarkRevoked, Known, RowInv, TypeOK
<1>3. row' = row => Known(s)' = Known(s)
  BY DEF Known
<1> QED
  BY <1>1, <1>2, <1>3
     DEF Next, BeginLogin, BeginRotate, BeginLogout, Start, LoseRevoke, Ban,
         GiveUp, Tick, vars

\* The sessions implement the life of a token pair: issued once, and refused
\* for good once refused.
THEOREM SessionsImplementTokenLife == Spec => ImplementsTokenLife
<1>1. Init => Life!Init
  BY DEF Init, Life!Init, AccessJudged, RefreshJudged, Judged, Known
<1>2. RowInv /\ BanInv /\ [Next]_vars => [Life!Next]_(Life!pair)
  <2> SUFFICES ASSUME RowInv, BanInv, [Next]_vars PROVE Life!Next
    OBVIOUS
  <2>1. CASE \E r \in Requests, c \in Sids :
               CreateForLogin(r, c) \/ CreateForRotate(r, c)
    BY <2>1, InsertIssues DEF CreateForLogin, CreateForRotate, Life!Next
  <2>2. CASE \A s \in Sids : ~Known(s) => ~Known(s)'
    BY <2>2, OtherStepsRefuse DEF Life!Next
  <2> QED
    BY <2>1, <2>2, OnlyInsertKnows
<1> QED
  BY <1>1, <1>2, RowInvInit, RowInvStep, EndInvInit, BanInvStep, PTL
     DEF Spec, ImplementsTokenLife, Life!Spec

-----------------------------------------------------------------------------
(***************************************************************************)
(* Exchanges of one refresh token.  A request is exchanging s from the     *)
(* SELECT that found s unrevoked until its INSERT; it holds s once it is   *)
(* past its UPDATE.                                                        *)
(***************************************************************************)

Holding(s) == {r \in Requests : req[r].step = "rotateCreate" /\ req[r].sid = s}

Exchanging(s) ==
  {r \in Requests :
     req[r].step \in {"rotateRevoke", "rotateCreate"} /\ req[r].sid = s}

\* While s is not revoked only lost UPDATEs can have led to exchanges; once it
\* is, the requests that are exchanging it are the last that will.
ExchangeInv ==
  \A s \in Sids :
    /\ row[s] = "live" =>
         Cardinality(Successors(s)) + Cardinality(Holding(s)) <= lost
    /\ row[s] = "revoked" =>
         Cardinality(Successors(s)) + Cardinality(Exchanging(s))
           <= Cardinality(Requests) + lost

LEMMA ExchangeSizes ==
  ASSUME NEW s \in Sids
  PROVE  /\ IsFiniteSet(Successors(s)) /\ Cardinality(Successors(s)) \in Nat
         /\ IsFiniteSet(Holding(s)) /\ Cardinality(Holding(s)) \in Nat
         /\ IsFiniteSet(Exchanging(s)) /\ Cardinality(Exchanging(s)) \in Nat
         /\ Cardinality(Requests) \in Nat
         /\ Cardinality(Exchanging(s)) <= Cardinality(Requests)
<1>1. Successors(s) \subseteq Sids /\ Holding(s) \subseteq Requests
      /\ Exchanging(s) \subseteq Requests
  BY DEF Successors, Holding, Exchanging
<1> QED
  BY <1>1, FS_Subset, FS_CardinalityType

LEMMA ExchangeSizesAfter ==
  ASSUME NEW s \in Sids
  PROVE  /\ IsFiniteSet(Successors(s)') /\ Cardinality(Successors(s)') \in Nat
         /\ IsFiniteSet(Holding(s)') /\ Cardinality(Holding(s)') \in Nat
         /\ IsFiniteSet(Exchanging(s)') /\ Cardinality(Exchanging(s)') \in Nat
         /\ Cardinality(Exchanging(s)') <= Cardinality(Requests)
<1>1. Successors(s)' \subseteq Sids /\ Holding(s)' \subseteq Requests
      /\ Exchanging(s)' \subseteq Requests
  BY DEF Successors, Holding, Exchanging
<1> QED
  BY <1>1, FS_Subset, FS_CardinalityType

LEMMA AddOne ==
  ASSUME NEW S, IsFiniteSet(S), NEW x
  PROVE  /\ IsFiniteSet(S \cup {x})
         /\ Cardinality(S \cup {x}) \in Nat
         /\ Cardinality(S \cup {x}) <= Cardinality(S) + 1
<1>1. IsFiniteSet(S \cup {x}) /\ Cardinality(S) \in Nat
  BY FS_AddElement, FS_CardinalityType
<1>2. Cardinality(S \cup {x}) = Cardinality(S)
      \/ Cardinality(S \cup {x}) = Cardinality(S) + 1
  BY FS_AddElement
<1> QED
  BY <1>1, <1>2, FS_CardinalityType

\* A step that revokes at most, and adds nothing to the three sets of s, keeps
\* the bound of s.
LEMMA ExchangeShrinks ==
  ASSUME RowInv, ExchangeInv, NEW s \in Sids,
         Known(s),
         row'[s] = row[s] \/ row'[s] = "revoked",
         Successors(s)' \subseteq Successors(s),
         Holding(s)' \subseteq Holding(s),
         Exchanging(s)' \subseteq Exchanging(s),
         lost' = lost
  PROVE  /\ row'[s] = "live" =>
              Cardinality(Successors(s)') + Cardinality(Holding(s)') <= lost'
         /\ row'[s] = "revoked" =>
              Cardinality(Successors(s)') + Cardinality(Exchanging(s)')
                <= Cardinality(Requests) + lost'
<1>1. /\ Cardinality(Successors(s)') <= Cardinality(Successors(s))
      /\ Cardinality(Holding(s)') <= Cardinality(Holding(s))
      /\ Cardinality(Exchanging(s)') <= Cardinality(Exchanging(s))
  BY ExchangeSizes, FS_Subset
<1>2. row[s] \in {"live", "revoked"} /\ lost \in Nat
  BY DEF RowInv, TypeOK, Known
<1>3. CASE row[s] = "live"
  <2>1. Cardinality(Successors(s)) + Cardinality(Holding(s)) <= lost
    BY <1>3 DEF ExchangeInv
  <2> QED
    BY <1>1, <1>2, <2>1, ExchangeSizes, ExchangeSizesAfter
<1>4. CASE row[s] = "revoked"
  <2>1. Cardinality(Successors(s)) + Cardinality(Exchanging(s))
          <= Cardinality(Requests) + lost
    BY <1>4 DEF ExchangeInv
  <2> QED
    BY <1>1, <1>2, <1>4, <2>1, ExchangeSizes, ExchangeSizesAfter
<1> QED
  BY <1>2, <1>3, <1>4

\* Nothing points to an id that has not been used.
LEMMA FreshIsUnused ==
  ASSUME RowInv, NEW s \in Sids, ~Known(s)
  PROVE  Successors(s) = {} /\ Holding(s) = {} /\ Exchanging(s) = {}
  BY DEF RowInv, Placed, Successors, Holding, Exchanging

\* What ExchangeInv says of one session.
Bounded(s) ==
  /\ row[s] = "live" =>
       Cardinality(Successors(s)) + Cardinality(Holding(s)) <= lost
  /\ row[s] = "revoked" =>
       Cardinality(Successors(s)) + Cardinality(Exchanging(s))
         <= Cardinality(Requests) + lost

LEMMA ExchangeInvStep == RowInv /\ ExchangeInv /\ [Next]_vars => ExchangeInv'
<1> SUFFICES ASSUME RowInv, ExchangeInv, [Next]_vars, NEW s \in Sids
             PROVE  Bounded(s)'
  BY DEF ExchangeInv, Bounded
<1> USE DEF Bounded
<1>0. /\ lost \in Nat
      /\ row[s] \in {"none", "live", "revoked"}
      /\ req \in [Requests -> Request]
      /\ parent \in [Sids -> Sids \cup {NoSid}]
  BY DEF RowInv, TypeOK
<1>1. ASSUME NEW r \in Requests, BeginLogin(r) \/ GiveUp(r) \/ Ban(r)
      PROVE  Bounded(s)'
  <2>1. /\ UNCHANGED <<row, parent, lost>>
        /\ Successors(s)' = Successors(s)
        /\ Holding(s)' \subseteq Holding(s)
        /\ Exchanging(s)' \subseteq Exchanging(s)
    BY <1>0, <1>1
       DEF BeginLogin, Start, GiveUp, Ban, Idle, Successors, Holding, Exchanging
  <2>2. ~Known(s) => Bounded(s)'
    BY <2>1 DEF Known
  <2> QED
    BY <2>1, <2>2, ExchangeShrinks
<1>2. ASSUME NEW r \in Requests, NEW t \in Sids, BeginLogout(r, t)
      PROVE  Bounded(s)'
  <2>1. /\ UNCHANGED <<row, parent, lost>>
        /\ Successors(s)' = Successors(s)
        /\ Holding(s)' \subseteq Holding(s)
        /\ Exchanging(s)' \subseteq Exchanging(s)
    BY <1>0, <1>2
       DEF BeginLogout, Start, Idle, Successors, Holding, Exchanging
  <2>2. ~Known(s) => Bounded(s)'
    BY <2>1 DEF Known
  <2> QED
    BY <2>1, <2>2, ExchangeShrinks
<1>3. ASSUME NEW r \in Requests, NEW t \in Sids, BeginRotate(r, t)
      PROVE  Bounded(s)'
  <2>1. /\ UNCHANGED <<row, parent, lost>>
        /\ row[t] = "live"
        /\ Successors(s)' = Successors(s)
        /\ Holding(s)' \subseteq Holding(s)
        /\ s # t => Exchanging(s)' \subseteq Exchanging(s)
    BY <1>0, <1>3
       DEF BeginRotate, Redeemable, Start, Idle, Successors, Holding, Exchanging
  <2>2. ~Known(s) => Bounded(s)'
    BY <2>1 DEF Known
  <2>3. Known(s) /\ s # t => Bounded(s)'
    BY <2>1, ExchangeShrinks
  <2>4. CASE s = t
    <3>1. Cardinality(Holding(s)') <= Cardinality(Holding(s))
      BY <2>1, ExchangeSizes, FS_Subset
    <3>2. Cardinality(Successors(s)) + Cardinality(Holding(s)) <= lost
      BY <2>1, <2>4 DEF ExchangeInv
    <3> QED
      BY <1>0, <2>1, <2>4, <3>1, <3>2, ExchangeSizes, ExchangeSizesAfter
  <2> QED
    BY <2>2, <2>3, <2>4
<1>4. ASSUME NEW r \in Requests, Revoke(r)
      PROVE  Bounded(s)'
  <2>1. /\ req[r].sid \in Sids /\ Known(req[r].sid)
        /\ row' = [row EXCEPT ![req[r].sid] = "revoked"]
        /\ req' = [req EXCEPT ![r].step = AfterRevoke[req[r].step],
                              ![r].clean = @ /\ TRUE]
        /\ req[r].step \in {"rotateRevoke", "logoutRevoke"}
        /\ UNCHANGED <<parent, lost>>
    BY <1>4 DEF Revoke, MarkRevoked, Advance, AfterRevoke, RowInv, Placed
  <2>2. /\ Successors(s)' = Successors(s)
        /\ Exchanging(s)' \subseteq Exchanging(s)
        /\ s # req[r].sid => Holding(s)' \subseteq Holding(s)
    BY <1>0, <2>1
       DEF AfterRevoke, Successors, Holding, Exchanging, Request
  <2>3. ~Known(s) => Bounded(s)'
    BY <1>0, <2>1 DEF Known, RowInv, TypeOK
  <2>4. Known(s) /\ s # req[r].sid => Bounded(s)'
    BY <1>0, <2>1, <2>2, ExchangeShrinks DEF RowInv, TypeOK
  <2>5. CASE s = req[r].sid
    <3>1. row'[s] = "revoked" /\ row[s] \in {"live", "revoked"}
      BY <1>0, <2>1, <2>5 DEF RowInv, TypeOK, Known
    <3>2. Cardinality(Exchanging(s)') <= Cardinality(Exchanging(s))
      BY <2>2, ExchangeSizes, FS_Subset
    <3>3. Cardinality(Successors(s)) + Cardinality(Exchanging(s))
            <= Cardinality(Requests) + lost
      BY <1>0, <3>1, ExchangeSizes DEF ExchangeInv
    <3> QED
      BY <1>0, <2>1, <2>2, <3>1, <3>2, <3>3, ExchangeSizes, ExchangeSizesAfter
  <2> QED
    BY <2>3, <2>4, <2>5
<1>5. ASSUME NEW r \in Requests, LoseRevoke(r)
      PROVE  Bounded(s)'
  <2>1. /\ req' = [req EXCEPT ![r].step = AfterRevoke[req[r].step],
                              ![r].clean = @ /\ FALSE]
        /\ req[r].step \in {"rotateRevoke", "logoutRevoke"}
        /\ lost' = lost + 1
        /\ UNCHANGED <<row, parent>>
    BY <1>5 DEF LoseRevoke, Advance, AfterRevoke
  <2>2. /\ Successors(s)' = Successors(s)
        /\ Exchanging(s)' \subseteq Exchanging(s)
        /\ Holding(s)' \subseteq Holding(s) \cup {r}
    BY <1>0, <2>1
       DEF AfterRevoke, Successors, Holding, Exchanging, Request
  <2>3. Cardinality(Exchanging(s)') <= Cardinality(Exchanging(s))
    BY <2>2, ExchangeSizes, FS_Subset
  <2>4. Cardinality(Holding(s)') <= Cardinality(Holding(s)) + 1
    <3>1. /\ IsFiniteSet(Holding(s) \cup {r})
          /\ Cardinality(Holding(s) \cup {r}) \in Nat
          /\ Cardinality(Holding(s) \cup {r}) <= Cardinality(Holding(s)) + 1
      BY ExchangeSizes, AddOne
    <3>2. Cardinality(Holding(s)') <= Cardinality(Holding(s) \cup {r})
      BY <2>2, <3>1, FS_Subset
    <3> QED
      BY <3>1, <3>2, ExchangeSizes, ExchangeSizesAfter
  <2> QED
    BY <1>0, <2>1, <2>2, <2>3, <2>4, ExchangeSizes, ExchangeSizesAfter
       DEF ExchangeInv
<1>6. ASSUME NEW r \in Requests, NEW c \in Sids, CreateForLogin(r, c)
      PROVE  Bounded(s)'
  <2>1. /\ row[c] = "none" /\ row' = [row EXCEPT ![c] = "live"]
        /\ parent' = [parent EXCEPT ![c] = NoSid]
        /\ req' = [req EXCEPT ![r] = Idle]
        /\ UNCHANGED lost
    BY <1>6 DEF CreateForLogin, InsertSession
  <2>2. /\ Successors(s)' \subseteq Successors(s)
        /\ Holding(s)' \subseteq Holding(s)
        /\ Exchanging(s)' \subseteq Exchanging(s)
    BY <1>0, <2>1 DEF Successors, Holding, Exchanging, Idle
  <2>3. CASE Known(s)
    BY <1>0, <2>1, <2>2, <2>3, ExchangeShrinks DEF Known, RowInv, TypeOK
  <2>4. CASE ~Known(s)
    <3>1. Successors(s)' = {} /\ Holding(s)' = {}
      BY <2>2, <2>4, FreshIsUnused
    <3>2. row'[s] # "revoked"
      BY <1>0, <2>1, <2>4 DEF Known, RowInv, TypeOK
    <3> QED
      BY <1>0, <2>1, <3>1, <3>2, FS_EmptySet
  <2> QED
    BY <2>3, <2>4
<1>7. ASSUME NEW r \in Requests, NEW c \in Sids, CreateForRotate(r, c)
      PROVE  Bounded(s)'
  <2> DEFINE from == req[r].sid
  <2>1. /\ row[c] = "none" /\ row' = [row EXCEPT ![c] = "live"]
        /\ parent' = [parent EXCEPT ![c] = from]
        /\ req[r].step = "rotateCreate"
        /\ from \in Sids /\ Known(from)
        /\ parent[c] = NoSid
        /\ UNCHANGED lost
    BY <1>7 DEF CreateForRotate, InsertSession, RowInv, Placed, Known
  <2>2. /\ req'[r].step = "rotateBan" /\ req'[r].sid = from
        /\ \A q \in Requests \ {r} : req'[q] = req[q]
    BY <1>0, <1>7 DEF CreateForRotate, Advance, Request
  <2>3. CASE s # from /\ Known(s)
    <3>1. /\ Successors(s)' \subseteq Successors(s)
          /\ Holding(s)' \subseteq Holding(s)
          /\ Exchanging(s)' \subseteq Exchanging(s)
      BY <1>0, <2>1, <2>2, <2>3 DEF Successors, Holding, Exchanging
    <3> QED
      BY <1>0, <2>1, <2>3, <3>1, ExchangeShrinks DEF Known, RowInv, TypeOK
  <2>4. CASE ~Known(s)
    <3>1. Successors(s)' = {} /\ Holding(s)' = {}
      <4>1. s # from
        BY <2>1, <2>4
      <4>2. Successors(s)' \subseteq Successors(s)
            /\ Holding(s)' \subseteq Holding(s)
        BY <1>0, <2>1, <2>2, <4>1 DEF Successors, Holding
      <4> QED
        BY <2>4, <4>2, FreshIsUnused
    <3>2. row'[s] # "revoked"
      BY <1>0, <2>1, <2>4 DEF Known, RowInv, TypeOK
    <3> QED
      BY <1>0, <2>1, <3>1, <3>2, FS_EmptySet
  <2>5. CASE s = from
    <3>1. /\ Successors(s)' = Successors(s) \cup {c} /\ c \notin Successors(s)
          /\ Holding(s)' = Holding(s) \ {r} /\ r \in Holding(s)
          /\ Exchanging(s)' = Exchanging(s) \ {r} /\ r \in Exchanging(s)
      BY <1>0, <2>1, <2>2, <2>5 DEF Successors, Holding, Exchanging
    <3>2. Cardinality(Successors(s)') = Cardinality(Successors(s)) + 1
      BY <3>1, ExchangeSizes, FS_AddElement
    <3>3. Cardinality(Holding(s)') = Cardinality(Holding(s)) - 1
      BY <3>1, ExchangeSizes, FS_RemoveElement
    <3>4. Cardinality(Exchanging(s)') = Cardinality(Exchanging(s)) - 1
      BY <3>1, ExchangeSizes, FS_RemoveElement
    <3>5. row'[s] = row[s]
      BY <1>0, <2>1, <2>5 DEF Known, RowInv, TypeOK
    <3> QED
      BY <1>0, <2>1, <3>2, <3>3, <3>4, <3>5, ExchangeSizes DEF ExchangeInv
  <2> QED
    BY <2>3, <2>4, <2>5
<1>8. ASSUME NEW a \in Sids, NEW t \in Sids, RevokeOther(a, t)
      PROVE  Bounded(s)'
  <2>1. /\ Known(t) /\ row' = [row EXCEPT ![t] = "revoked"]
        /\ UNCHANGED <<parent, lost, req>>
    BY <1>8 DEF RevokeOther, MarkRevoked
  <2>2. /\ Successors(s)' = Successors(s)
        /\ Holding(s)' = Holding(s)
        /\ Exchanging(s)' = Exchanging(s)
    BY <2>1 DEF Successors, Holding, Exchanging
  <2>3. CASE Known(s)
    BY <1>0, <2>1, <2>2, <2>3, ExchangeShrinks DEF RowInv, TypeOK
  <2>4. CASE ~Known(s)
    BY <1>0, <2>1, <2>4 DEF Known, RowInv, TypeOK
  <2> QED
    BY <2>3, <2>4
<1>9. ASSUME Tick \/ UNCHANGED vars
      PROVE  Bounded(s)'
  <2>1. UNCHANGED <<row, parent, lost, req>>
    BY <1>9 DEF Tick, vars
  <2>2. /\ Successors(s)' = Successors(s)
        /\ Holding(s)' = Holding(s)
        /\ Exchanging(s)' = Exchanging(s)
    BY <2>1 DEF Successors, Holding, Exchanging
  <2> QED
    BY <2>1, <2>2 DEF ExchangeInv
<1> QED
  BY <1>1, <1>2, <1>3, <1>4, <1>5, <1>6, <1>7, <1>8, <1>9 DEF Next

\* One refresh token is exchanged at most once per concurrent request and once
\* per lost UPDATE, however the rotations interleave.
THEOREM ExchangesAreBounded == Spec => []ExchangesBounded
<1>1. Init => ExchangeInv
  BY DEF Init, ExchangeInv
<1>2. RowInv /\ ExchangeInv => ExchangesBounded
  <2> SUFFICES ASSUME RowInv, ExchangeInv, NEW s \in Sids
               PROVE  Cardinality(Successors(s)) <= Cardinality(Requests) + lost
    BY DEF ExchangesBounded
  <2>1. row[s] \in {"none", "live", "revoked"} /\ lost \in Nat
    BY DEF RowInv, TypeOK
  <2>2. CASE row[s] = "none"
    BY <2>1, <2>2, FreshIsUnused, FS_EmptySet, ExchangeSizes DEF Known
  <2>3. CASE row[s] # "none"
    BY <2>1, <2>3, ExchangeSizes DEF ExchangeInv
  <2> QED
    BY <2>2, <2>3
<1> QED
  BY <1>1, <1>2, RowInvInit, RowInvStep, ExchangeInvStep, PTL DEF Spec

=============================================================================
