--------------------------- MODULE StaffLoginProofs ---------------------------
(***************************************************************************)
(* Proofs about StaffLogin, for every number of requests, roles, set-ups,  *)
(* codes, resets and lost UPDATEs.                                         *)
(***************************************************************************)
EXTENDS StaffLogin, FiniteSetTheorems, WellFoundedInduction, TLAPS

USE RequestsAssumption, BoundsAssumption

-----------------------------------------------------------------------------
(***************************************************************************)
(* Type correctness.                                                       *)
(***************************************************************************)

\* The codes of one set-up are codes.
LEMMA CodesOfType == ASSUME NEW s \in Secrets PROVE CodesOf(s) \subseteq Codes
<1> SUFFICES ASSUME NEW c \in CodesOf(s) PROVE c \in Codes
  OBVIOUS
<1>1. s \in Nat /\ s - 1 \in Nat /\ MaxSetups - s \in Nat
  BY DEF Secrets
<1>2. NumCodes * (s - 1) \in Nat /\ NumCodes * (MaxSetups - s) \in Nat
  BY <1>1
<1>3. NumCodes * MaxSetups = NumCodes * s + NumCodes * (MaxSetups - s)
  BY <1>1
<1>4. c \in Nat /\ NumCodes * (s - 1) + 1 <= c /\ c <= NumCodes * s
  BY <1>1, <1>2 DEF CodesOf
<1> QED
  BY <1>1, <1>2, <1>3, <1>4 DEF Codes

\* The types of the row and of a login under way.
Row == [active : BOOLEAN, role : Roles, password : 0 .. MaxResets,
        enabled : BOOLEAN, secret : Secrets \cup {NoSecret}, codes : SUBSET Codes]
Entry == [step : {"idle", "writeback", "session", "enable"},
          password : 0 .. MaxResets, left : SUBSET Codes,
          secret : Secrets \cup {NoSecret}]

LEMMA TypeInit == Init => TypeOK
<1> SUFFICES ASSUME Init PROVE TypeOK
  OBVIOUS
<1>1. 0 \in 0 .. MaxResets /\ 0 \in 0 .. MaxSetups /\ 0 \in 0 .. MaxLost
  OBVIOUS
<1>2. request \in [Requests -> Entry]
  BY <1>1 DEF Init, Idle, Entry
<1>3. user \in Row
  BY <1>1 DEF Init, Row
<1> QED
  BY <1>1, <1>2, <1>3 DEF Init, TypeOK, Entry, Row

\* An UPDATE with a row of the right type leaves one.
LEMMA UpdateType ==
  ASSUME TypeOK, NEW row \in Row, Update(row)
  PROVE  user' \in Row /\ lost' \in 0 .. MaxLost
  BY DEF TypeOK, Update, Row

LEMMA TypeStep == TypeOK /\ [Next]_vars => TypeOK'
<1> SUFFICES ASSUME TypeOK, [Next]_vars PROVE TypeOK'
  OBVIOUS
<1>a. user \in Row /\ request \in [Requests -> Entry]
  BY DEF TypeOK, Row, Entry
<1>b. ASSUME NEW r \in Requests, NEW e \in Entry, request' = [request EXCEPT ![r] = e]
      PROVE  request' \in [Requests -> Entry]
  BY <1>a, <1>b
<1>c. Idle \in Entry
  BY DEF Idle, Entry
<1>1. ASSUME NEW r \in Requests, AdminLogin(r) \/ OperatorLogin(r)
      PROVE  TypeOK'
  <2>1. PICK codeRequired : Login(r, codeRequired)
    BY <1>1 DEF AdminLogin, OperatorLogin
  <2>0. UNCHANGED <<user, issued, proved, stale, late, lost>>
    BY <2>1 DEF Login
  <2>2. CASE WithoutCode(r)
    <3>1. [request[r] EXCEPT !.step = "session", !.password = user.password] \in Entry
      BY <1>a DEF Row, Entry
    <3>2. request' \in [Requests -> Entry]
      BY <1>a, <1>b, <2>2, <3>1 DEF WithoutCode
    <3> QED
      BY <2>0, <2>2, <3>2 DEF WithoutCode, TypeOK, Entry
  <2>3. CASE \E c \in user.codes :
               /\ request' = [request EXCEPT ![r].step = "writeback",
                                             ![r].password = user.password,
                                             ![r].left = Remaining(c)]
               /\ accepted' = [accepted EXCEPT ![SetupOf(c)] = @ + 1]
    <3>1. PICK c \in user.codes :
            /\ request' = [request EXCEPT ![r].step = "writeback",
                                          ![r].password = user.password,
                                          ![r].left = Remaining(c)]
            /\ accepted' = [accepted EXCEPT ![SetupOf(c)] = @ + 1]
      BY <2>3
    <3>2. [request[r] EXCEPT !.step = "writeback", !.password = user.password,
                             !.left = Remaining(c)] \in Entry
      BY <1>a DEF Row, Entry, Remaining
    <3>3. request' \in [Requests -> Entry]
      BY <1>a, <1>b, <3>1, <3>2
    <3>4. accepted' \in [Secrets -> Nat]
      <4>1. PICK s : accepted' = [accepted EXCEPT ![s] = @ + 1]
        BY <3>1
      <4>2. accepted \in [Secrets -> Nat]
        BY DEF TypeOK
      <4>3. CASE s \in Secrets
        <5>1. accepted[s] + 1 \in Nat
          BY <4>2, <4>3
        <5> QED
          BY <4>1, <4>2, <5>1
      <4>4. CASE s \notin Secrets
        <5>1. accepted' = accepted
          BY <4>1, <4>2, <4>4
        <5> QED
          BY <4>2, <5>1
      <4> QED
        BY <4>3, <4>4
    <3> QED
      BY <2>0, <3>3, <3>4 DEF TypeOK, Entry
  <2> QED
    BY <2>1, <2>2, <2>3 DEF Login, WithCode
<1>2. ASSUME NEW r \in Requests, WriteBack(r)
      PROVE  TypeOK'
  <2>1. [user EXCEPT !.codes = request[r].left] \in Row
    BY <1>a DEF TypeOK, Row
  <2>2. user' \in Row /\ lost' \in 0 .. MaxLost
    BY <1>2, <2>1, UpdateType DEF WriteBack
  <2>3. [request[r] EXCEPT !.step = "session", !.left = {}] \in Entry
    BY <1>a DEF Entry
  <2>4. request' \in [Requests -> Entry]
    BY <1>2, <1>a, <1>b, <2>3 DEF WriteBack
  <2> QED
    BY <1>2, <2>2, <2>4 DEF WriteBack, TypeOK, Row, Entry, history
<1>3. ASSUME NEW r \in Requests, CreatePortalSession(r)
      PROVE  TypeOK'
  <2>1. request' \in [Requests -> Entry]
    BY <1>3, <1>b, <1>c DEF CreatePortalSession
  <2>2. late' \in Nat
    BY <1>3 DEF CreatePortalSession, TypeOK
  <2> QED
    BY <1>3, <2>1, <2>2 DEF CreatePortalSession, TypeOK, Entry
<1>4. ASSUME NEW r \in Requests, VerifyMFA(r)
      PROVE  TypeOK'
  <2>1. [request[r] EXCEPT !.step = "enable", !.secret = user.secret] \in Entry
    BY <1>a DEF Row, Entry
  <2>2. request' \in [Requests -> Entry]
    BY <1>4, <1>a, <1>b, <2>1 DEF VerifyMFA
  <2> QED
    BY <1>4, <2>2 DEF VerifyMFA, TypeOK, Entry
<1>5. ASSUME NEW r \in Requests, EnableMFA(r)
      PROVE  TypeOK'
  <2>1. [user EXCEPT !.enabled = TRUE] \in Row
    BY <1>a DEF Row
  <2>2. user' \in Row /\ lost' \in 0 .. MaxLost
    BY <1>5, <2>1, UpdateType DEF EnableMFA
  <2>3. stale' \in BOOLEAN
    BY <1>5 DEF EnableMFA, TypeOK
  <2> QED
    BY <1>5, <1>b, <1>c, <2>2, <2>3 DEF EnableMFA, TypeOK, Row, Entry
<1>6. CASE SetupMFA
  <2>1. issued' \in Secrets /\ issued' \in 0 .. MaxSetups
    BY <1>6 DEF SetupMFA, TypeOK, Secrets
  <2>2. SetUp(issued') \in Row
    BY <1>a, <2>1, CodesOfType DEF SetUp, Row
  <2>3. user' \in Row /\ lost' \in 0 .. MaxLost
    BY <1>6, <2>2, UpdateType DEF SetupMFA
  <2>4. stale' \in BOOLEAN
    BY <1>6 DEF SetupMFA
  <2> QED
    BY <1>6, <2>1, <2>3, <2>4 DEF SetupMFA, TypeOK, Row
<1>7. CASE DisableMFA \/ ResetUserMFA
  <2>1. /\ [user EXCEPT !.enabled = FALSE, !.secret = NoSecret, !.codes = {}] \in Row
        /\ [user EXCEPT !.enabled = FALSE, !.secret = NoSecret] \in Row
    BY <1>a DEF Row
  <2>2. user' \in Row /\ lost' \in 0 .. MaxLost
    BY <1>7, <2>1, UpdateType DEF DisableMFA, ResetUserMFA
  <2>3. stale' \in BOOLEAN
    BY <1>7 DEF DisableMFA, ResetUserMFA
  <2> QED
    BY <1>7, <2>2, <2>3 DEF DisableMFA, ResetUserMFA, TypeOK, Row
<1>8. ASSUME NEW role \in Roles, NEW active \in BOOLEAN, UpdateUser(role, active)
      PROVE  TypeOK'
  <2>1. user' \in Row
    BY <1>8, <1>a DEF UpdateUser, Row
  <2> QED
    BY <1>8, <2>1 DEF UpdateUser, CountLateAnew, TypeOK, Row
<1>9. CASE DeleteUser \/ ResetUserPassword
  <2>1. [user EXCEPT !.active = FALSE] \in Row
    BY <1>a DEF Row
  <2>2. user.password < MaxResets => [user EXCEPT !.password = @ + 1] \in Row
    BY <1>a DEF Row
  <2>3. user' \in Row /\ lost' \in 0 .. MaxLost
    BY <1>9, <2>1, <2>2, UpdateType DEF DeleteUser, ResetUserPassword
  <2> QED
    BY <1>9, <2>3 DEF DeleteUser, ResetUserPassword, CountLateAnew, TypeOK, Row
<1>10. CASE UNCHANGED vars
  BY <1>10 DEF vars, history, TypeOK
<1> QED
  BY <1>1, <1>2, <1>3, <1>4, <1>5, <1>6, <1>7, <1>8, <1>9, <1>10 DEF Next

\* The row, the logins under way and what is counted stay of their types.
THEOREM TypeCorrect == Spec => []TypeOK
  BY TypeInit, TypeStep, PTL DEF Spec

-----------------------------------------------------------------------------
(***************************************************************************)
(* Used-up codes.                                                          *)
(***************************************************************************)

\* What a step may do to the codes: those of the row and of the copies stay
\* among those they were, or are the ones of a new set-up.
LEMMA GoneStep == TypeOK /\ [Next]_vars => Gone \subseteq Gone'
<1> SUFFICES ASSUME TypeOK, [Next]_vars, NEW c \in Gone PROVE c \in Gone'
  OBVIOUS
<1> USE DEF Gone, TypeOK
<1>0. /\ c \in 1 .. NumCodes * issued
      /\ c \notin user.codes
      /\ \A r \in Requests : c \notin request[r].left
  OBVIOUS
<1>1. ASSUME issued' = issued, c \notin user'.codes,
             \A r \in Requests : c \notin request'[r].left
      PROVE  c \in Gone'
  BY <1>0, <1>1
<1>2. ASSUME NEW r \in Requests, AdminLogin(r) \/ OperatorLogin(r)
      PROVE  c \in Gone'
  <2>1. PICK codeRequired : Login(r, codeRequired)
    BY <1>2 DEF AdminLogin, OperatorLogin
  <2>2. issued' = issued /\ user' = user
    BY <2>1 DEF Login
  <2>3. \A q \in Requests : c \notin request'[q].left
    BY <1>0, <2>1 DEF Login, WithCode, WithoutCode, Remaining
  <2> QED
    BY <1>0, <1>1, <2>2, <2>3
<1>3. ASSUME NEW r \in Requests, WriteBack(r)
      PROVE  c \in Gone'
  BY <1>0, <1>1, <1>3 DEF WriteBack, Update
<1>4. ASSUME NEW r \in Requests,
             CreatePortalSession(r) \/ VerifyMFA(r) \/ EnableMFA(r)
      PROVE  c \in Gone'
  BY <1>0, <1>1, <1>4 DEF CreatePortalSession, VerifyMFA, EnableMFA, Update, Idle
<1>5. CASE SetupMFA
  <2>1. issued \in Nat /\ issued' = issued + 1 /\ request' = request
    BY <1>5 DEF SetupMFA
  <2>2. NumCodes * issued' = NumCodes * issued + NumCodes
    BY <2>1
  <2>3. NumCodes * issued \in Nat
    BY <2>1
  <2>4. c \in 1 .. NumCodes * issued'
    BY <1>0, <2>2, <2>3
  <2>5. c \notin CodesOf(issued')
    <3>1. issued' - 1 = issued
      BY <2>1
    <3> QED
      BY <1>0, <2>3, <3>1 DEF CodesOf
  <2>6. user'.codes \in {user.codes, CodesOf(issued')}
    BY <1>5 DEF SetupMFA, Update, SetUp
  <2> QED
    BY <1>0, <2>1, <2>4, <2>5, <2>6
<1>6. CASE DisableMFA \/ ResetUserMFA \/ DeleteUser \/ ResetUserPassword
  BY <1>0, <1>1, <1>6
     DEF DisableMFA, ResetUserMFA, DeleteUser, ResetUserPassword, Update
<1>7. ASSUME NEW role \in Roles, NEW active \in BOOLEAN, UpdateUser(role, active)
      PROVE  c \in Gone'
  BY <1>0, <1>1, <1>7 DEF UpdateUser
<1>8. CASE UNCHANGED vars
  BY <1>0, <1>1, <1>8 DEF vars
<1> QED
  BY <1>2, <1>3, <1>4, <1>5, <1>6, <1>7, <1>8 DEF Next

\* A used-up code never comes back, whichever logins overlap, whatever is set
\* up, disabled or reset meanwhile, and whichever UPDATEs fail.
THEOREM CodesStayGone == Spec => CodesGoForGood
<1>1. TypeOK /\ [Next]_vars => [Gone \subseteq Gone']_vars
  BY GoneStep
<1> QED
  BY <1>1, TypeInit, TypeStep, PTL DEF Spec, CodesGoForGood

-----------------------------------------------------------------------------
(***************************************************************************)
(* MFA is on with a proved secret.                                         *)
(***************************************************************************)

\* A verification under way has proved the secret it has read.
ProvedInv ==
  /\ EnabledIsProved
  /\ \A r \in Requests : request[r].step = "enable" => request[r].secret \in proved

LEMMA ProvedStep == TypeOK /\ ProvedInv /\ [Next]_vars => ProvedInv'
<1> SUFFICES ASSUME TypeOK, ProvedInv, [Next]_vars PROVE ProvedInv'
  OBVIOUS
<1> USE DEF ProvedInv, EnabledIsProved, TypeOK
<1>1. ASSUME NEW r \in Requests, AdminLogin(r) \/ OperatorLogin(r)
      PROVE  ProvedInv'
  <2>1. PICK codeRequired : Login(r, codeRequired)
    BY <1>1 DEF AdminLogin, OperatorLogin
  <2>2. UNCHANGED <<user, proved, stale>>
    BY <2>1 DEF Login
  <2>3. \A q \in Requests : request'[q].step = "enable" =>
          request[q].step = "enable" /\ request'[q].secret = request[q].secret
    BY <2>1 DEF Login, WithCode, WithoutCode
  <2> QED
    BY <2>2, <2>3
<1>2. ASSUME NEW r \in Requests, WriteBack(r)
      PROVE  ProvedInv'
  <2>1. \A q \in Requests : request'[q].step = "enable" =>
          request[q].step = "enable" /\ request'[q].secret = request[q].secret
    BY <1>2 DEF WriteBack
  <2>2. /\ proved' = proved /\ stale' = stale
        /\ user'.enabled = user.enabled /\ user'.secret = user.secret
    BY <1>2 DEF WriteBack, Update, history
  <2> QED
    BY <2>1, <2>2
<1>3. ASSUME NEW r \in Requests, CreatePortalSession(r)
      PROVE  ProvedInv'
  BY <1>3 DEF CreatePortalSession, Idle
<1>4. ASSUME NEW r \in Requests, VerifyMFA(r)
      PROVE  ProvedInv'
  BY <1>4 DEF VerifyMFA
<1>5. ASSUME NEW r \in Requests, EnableMFA(r)
      PROVE  ProvedInv'
  <2>1. \A q \in Requests : request'[q].step = "enable" =>
          request[q].step = "enable" /\ request'[q].secret = request[q].secret
    BY <1>5 DEF EnableMFA, Idle
  <2>2. proved' = proved /\ user'.secret = user.secret
    BY <1>5 DEF EnableMFA, Update
  <2>3. user'.enabled => user'.secret \in proved' \/ stale'
    BY <1>5, <2>2 DEF EnableMFA
  <2> QED
    BY <2>1, <2>2, <2>3
<1>6. CASE SetupMFA \/ DisableMFA \/ ResetUserMFA
  BY <1>6 DEF SetupMFA, DisableMFA, ResetUserMFA, Update, SetUp
<1>7. ASSUME NEW role \in Roles, NEW active \in BOOLEAN, UpdateUser(role, active)
      PROVE  ProvedInv'
  BY <1>7 DEF UpdateUser
<1>8. CASE DeleteUser \/ ResetUserPassword
  BY <1>8 DEF DeleteUser, ResetUserPassword, Update
<1>9. CASE UNCHANGED vars
  BY <1>9 DEF vars, history
<1> QED
  BY <1>1, <1>2, <1>3, <1>4, <1>5, <1>6, <1>7, <1>8, <1>9 DEF Next

\* MFA is on only with a secret a valid code was entered for, unless a
\* verification was overtaken by another set-up, a removal or a reset.
THEOREM EnabledWasProved == Spec => []EnabledIsProved
<1>1. Init => ProvedInv
  <2> SUFFICES ASSUME Init PROVE ProvedInv
    OBVIOUS
  <2>1. user.enabled = FALSE
    BY DEF Init
  <2>2. \A r \in Requests : request[r].step = "idle"
    BY DEF Init, Idle
  <2> QED
    BY <2>1, <2>2 DEF ProvedInv, EnabledIsProved
<1>2. ProvedInv => EnabledIsProved
  BY DEF ProvedInv
<1> QED
  BY <1>1, <1>2, TypeInit, TypeStep, ProvedStep, PTL DEF Spec

-----------------------------------------------------------------------------
(***************************************************************************)
(* Sessions by the old way in.                                             *)
(***************************************************************************)

\* The logins under way that a deactivation or a new password has overtaken.
Overtaken ==
  {r \in Requests : /\ request[r].step \in {"writeback", "session"}
                    /\ ~user.active \/ request[r].password # user.password}

\* Each of them may still add one session.
LateInv == late + Cardinality(Overtaken) <= Cardinality(Requests)

LEMMA OvertakenFinite ==
  /\ IsFiniteSet(Overtaken)
  /\ Cardinality(Overtaken) \in Nat /\ Cardinality(Requests) \in Nat
  /\ Cardinality(Overtaken) <= Cardinality(Requests)
<1>1. Overtaken \subseteq Requests
  BY DEF Overtaken
<1> QED
  BY <1>1, FS_Subset, FS_CardinalityType

LEMMA LateStep == TypeOK /\ LateInv /\ [Next]_vars => LateInv'
<1> SUFFICES ASSUME TypeOK, LateInv, [Next]_vars PROVE LateInv'
  OBVIOUS
<1>f. /\ IsFiniteSet(Overtaken)
      /\ Cardinality(Overtaken) \in Nat /\ Cardinality(Requests) \in Nat
  BY OvertakenFinite
<1>t. late \in Nat
  BY DEF TypeOK
\* Either the count begins again, or nobody is overtaken by the step.
<1>a. ASSUME late' = 0 PROVE LateInv'
  <2>1. Overtaken' \subseteq Requests
    BY DEF Overtaken
  <2>2. Cardinality(Overtaken') \in Nat /\ Cardinality(Overtaken') <= Cardinality(Requests)
    BY <2>1, FS_Subset, FS_CardinalityType
  <2> QED
    BY <1>a, <1>f, <2>2 DEF LateInv
<1>b. ASSUME late' = late, Overtaken' \subseteq Overtaken PROVE LateInv'
  <2>1. /\ Cardinality(Overtaken') \in Nat
        /\ Cardinality(Overtaken') <= Cardinality(Overtaken)
    BY <1>b, <1>f, FS_Subset, FS_CardinalityType
  <2> QED
    BY <1>b, <1>f, <1>t, <2>1 DEF LateInv
<1>1. ASSUME NEW r \in Requests, AdminLogin(r) \/ OperatorLogin(r)
      PROVE  LateInv'
  <2>1. PICK codeRequired : Login(r, codeRequired)
    BY <1>1 DEF AdminLogin, OperatorLogin
  <2>2. user' = user /\ late' = late /\ user.active
    BY <2>1 DEF Login, Authenticate
  <2>3. /\ request'[r].password = user.password
        /\ \A q \in Requests \ {r} : request'[q] = request[q]
    BY <2>1 DEF Login, WithCode, WithoutCode, TypeOK
  <2>4. Overtaken' \subseteq Overtaken
    BY <2>2, <2>3 DEF Overtaken
  <2> QED
    BY <1>b, <2>2, <2>4
<1>2. ASSUME NEW r \in Requests, WriteBack(r)
      PROVE  LateInv'
  <2>1. /\ user'.active = user.active /\ user'.password = user.password
        /\ late' = late
    BY <1>2 DEF WriteBack, Update, TypeOK, history
  <2>2. \A q \in Requests : /\ request'[q].password = request[q].password
                            /\ request'[q].step = "writeback" => request[q].step = "writeback"
                            /\ request'[q].step = "session" =>
                                 request[q].step \in {"writeback", "session"}
    BY <1>2 DEF WriteBack, TypeOK
  <2>3. Overtaken' \subseteq Overtaken
    BY <2>1, <2>2 DEF Overtaken
  <2> QED
    BY <1>b, <2>1, <2>3
<1>3. ASSUME NEW r \in Requests, CreatePortalSession(r)
      PROVE  LateInv'
  <2>1. /\ user' = user /\ request[r].step = "session" /\ request'[r].step = "idle"
        /\ \A q \in Requests \ {r} : request'[q] = request[q]
    BY <1>3 DEF CreatePortalSession, TypeOK, Idle
  <2>2. Overtaken' = Overtaken \ {r}
    BY <2>1 DEF Overtaken
  <2>3. CASE late' = late
    BY <1>b, <2>2, <2>3
  <2>4. CASE late' # late
    <3>1. late' = late + 1 /\ r \in Overtaken
      BY <1>3, <2>4 DEF CreatePortalSession, Overtaken
    <3>2. Cardinality(Overtaken') = Cardinality(Overtaken) - 1
      BY <1>f, <2>2, <3>1, FS_RemoveElement
    <3> QED
      BY <1>f, <1>t, <3>1, <3>2 DEF LateInv
  <2> QED
    BY <2>3, <2>4
<1>4. ASSUME NEW r \in Requests, VerifyMFA(r) \/ EnableMFA(r)
      PROVE  LateInv'
  <2>1. /\ user'.active = user.active /\ user'.password = user.password
        /\ late' = late
    BY <1>4 DEF VerifyMFA, EnableMFA, Update, TypeOK
  <2>2. /\ request'[r].step \notin {"writeback", "session"}
        /\ \A q \in Requests \ {r} : request'[q] = request[q]
    BY <1>4 DEF VerifyMFA, EnableMFA, Idle, TypeOK
  <2>3. Overtaken' \subseteq Overtaken
    BY <2>1, <2>2 DEF Overtaken
  <2> QED
    BY <1>b, <2>1, <2>3
<1>5. CASE SetupMFA \/ DisableMFA \/ ResetUserMFA
  <2>1. /\ user'.active = user.active /\ user'.password = user.password
        /\ late' = late /\ request' = request
    BY <1>5 DEF SetupMFA, DisableMFA, ResetUserMFA, Update, SetUp, TypeOK
  <2>2. Overtaken' \subseteq Overtaken
    BY <2>1 DEF Overtaken
  <2> QED
    BY <1>b, <2>1, <2>2
<1>6. ASSUME CountLateAnew, request' = request
      PROVE  LateInv'
  <2>1. CASE late' = 0
    BY <1>a, <2>1
  <2>2. CASE late' # 0
    <3>1. /\ late' = late /\ user'.password = user.password
          /\ ~user.active \/ user'.active
      BY <1>6, <2>2 DEF CountLateAnew
    <3>2. Overtaken' \subseteq Overtaken
      BY <1>6, <3>1 DEF Overtaken
    <3> QED
      BY <1>b, <3>1, <3>2
  <2> QED
    BY <2>1, <2>2
<1>7. ASSUME NEW role \in Roles, NEW active \in BOOLEAN, UpdateUser(role, active)
      PROVE  LateInv'
  BY <1>6, <1>7 DEF UpdateUser
<1>8. CASE DeleteUser \/ ResetUserPassword
  BY <1>6, <1>8 DEF DeleteUser, ResetUserPassword
<1>9. CASE UNCHANGED vars
  <2>1. late' = late /\ Overtaken' \subseteq Overtaken
    BY <1>9 DEF vars, history, Overtaken
  <2> QED
    BY <1>b, <2>1
<1> QED
  BY <1>1, <1>2, <1>3, <1>4, <1>5, <1>7, <1>8, <1>9 DEF Next

\* After a deactivation or a new password no more logins get through the old
\* way than requests were under way, however often the user is switched on and
\* off and whichever UPDATEs fail.
THEOREM LateSessionsAreBounded == Spec => []LateSessionsBounded
<1>1. Init => LateInv
  <2> SUFFICES ASSUME Init PROVE LateInv
    OBVIOUS
  <2>1. late = 0
    BY DEF Init
  <2> QED
    BY <2>1, OvertakenFinite DEF LateInv
<1>2. TypeOK /\ LateInv => LateSessionsBounded
  BY OvertakenFinite DEF TypeOK, LateInv, LateSessionsBounded
<1> QED
  BY <1>1, <1>2, TypeInit, TypeStep, LateStep, PTL DEF Spec

-----------------------------------------------------------------------------
(***************************************************************************)
(* Uses.                                                                   *)
(***************************************************************************)

\* A set of numbers that is not empty has a least.
LEMMA Least ==
  ASSUME NEW T, T \subseteq Nat, T # {}
  PROVE  \E x \in T : \A y \in T : x <= y
<1>1. \E x \in T : \A y \in T : ~ (<<y, x>> \in OpToRel(<, Nat))
  BY NatLessThanWellFounded, WFMin
<1>2. \E x \in T : \A y \in T : ~ (y < x)
  BY <1>1 DEF OpToRel
<1> QED
  BY <1>2

\* Induction, over a set.
LEMMA EveryNumber ==
  ASSUME NEW T, 0 \in T, \A i \in Nat : i \in T => i + 1 \in T
  PROVE  \A i \in Nat : i \in T
<1> DEFINE Rest == Nat \ T
<1> SUFFICES ASSUME Rest # {} PROVE FALSE
  OBVIOUS
<1>1. PICK x \in Rest : \A y \in Rest : x <= y
  <2>1. Rest \subseteq Nat
    OBVIOUS
  <2> HIDE DEF Rest
  <2> QED
    BY <2>1, Least
<1>2. x \in Nat /\ x # 0 /\ x - 1 \in Nat /\ x - 1 \notin Rest
  BY <1>1
<1>3. (x - 1) + 1 \in T
  BY <1>2
<1> QED
  BY <1>2, <1>3


\* One step of Uses, for any function in its place.
UsesStep(g, k, n) ==
  IF k = 0 \/ n = 0 THEN 0 ELSE 1 + g[<<k - 1, n>>] + g[<<k, n - 1>>]


\* g obeys the equation of Uses for all arguments whose sum is at most b.
Obeys(g, b) ==
  \A k, n \in Nat : k + n <= b => g[<<k, n>>] = UsesStep(g, k, n)

\* One step of a function of numbers gives a number.
LEMMA UsesStepType ==
  ASSUME NEW g \in [Nat \X Nat -> Nat], NEW k \in Nat, NEW n \in Nat
  PROVE  UsesStep(g, k, n) \in Nat
<1>1. CASE k = 0 \/ n = 0
  BY <1>1 DEF UsesStep
<1>2. CASE ~(k = 0 \/ n = 0)
  <2>1. k - 1 \in Nat /\ n - 1 \in Nat
    BY <1>2
  <2>2. g[<<k - 1, n>>] \in Nat /\ g[<<k, n - 1>>] \in Nat
    BY <2>1
  <2> QED
    BY <1>2, <2>2 DEF UsesStep
<1> QED
  BY <1>1, <1>2

\* For every bound there is such a function: the equation is unrolled once more.
LEMMA SomeObeys == \A b \in Nat : \E g \in [Nat \X Nat -> Nat] : Obeys(g, b)
<1> DEFINE T == {b \in Nat : \E g \in [Nat \X Nat -> Nat] : Obeys(g, b)}
<1>1. 0 \in T
  <2> DEFINE g == [p \in Nat \X Nat |-> 0]
  <2>1. Obeys(g, 0)
    <3>2. ASSUME NEW k \in Nat, NEW n \in Nat, k + n <= 0
          PROVE  g[<<k, n>>] = UsesStep(g, k, n)
      BY <3>2 DEF UsesStep
    <3> QED
      BY <3>2 DEF Obeys
  <2>2. g \in [Nat \X Nat -> Nat]
    OBVIOUS
  <2> HIDE DEF g
  <2> QED
    BY <2>1, <2>2
<1>2. ASSUME NEW b \in Nat, b \in T PROVE b + 1 \in T
  <2>1. PICK g \in [Nat \X Nat -> Nat] : Obeys(g, b)
    BY <1>2
  <2> DEFINE h == [p \in Nat \X Nat |-> UsesStep(g, p[1], p[2])]
  <2>2. h \in [Nat \X Nat -> Nat]
    BY UsesStepType
  <2>3. \A k, n \in Nat : h[<<k, n>>] = UsesStep(g, k, n)
    OBVIOUS
  <2> HIDE DEF h
  <2>4. \A k, n \in Nat : k + n <= b => h[<<k, n>>] = g[<<k, n>>]
    BY <2>1, <2>3 DEF Obeys
  <2>5. ASSUME NEW k \in Nat, NEW n \in Nat, k + n <= b + 1
        PROVE  h[<<k, n>>] = UsesStep(h, k, n)
    <3>1. CASE k = 0 \/ n = 0
      BY <2>3, <3>1 DEF UsesStep
    <3>2. CASE ~(k = 0 \/ n = 0)
      <4>1. /\ k - 1 \in Nat /\ (k - 1) + n <= b
            /\ n - 1 \in Nat /\ k + (n - 1) <= b
        BY <2>5, <3>2
      <4>2. h[<<k - 1, n>>] = g[<<k - 1, n>>] /\ h[<<k, n - 1>>] = g[<<k, n - 1>>]
        BY <2>4, <4>1
      <4> QED
        BY <2>3, <3>2, <4>2 DEF UsesStep
    <3> QED
      BY <3>1, <3>2
  <2>6. Obeys(h, b + 1)
    BY <2>5 DEF Obeys
  <2> QED
    BY <2>2, <2>6
<1> HIDE DEF T
<1>3. \A b \in Nat : b \in T
  BY <1>1, <1>2, EveryNumber
<1> QED
  BY <1>3 DEF T

\* Two such functions agree as far as both bounds go.
LEMMA ObeysUnique ==
  ASSUME NEW a \in Nat, NEW b \in Nat, NEW g, NEW h, Obeys(g, a), Obeys(h, b)
  PROVE  \A k, n \in Nat : k + n <= a /\ k + n <= b => g[<<k, n>>] = h[<<k, n>>]
<1> DEFINE T == {i \in Nat : \A k, n \in Nat :
                   k + n = i /\ i <= a /\ i <= b => g[<<k, n>>] = h[<<k, n>>]}
<1>1. 0 \in T
  <2> SUFFICES ASSUME NEW k \in Nat, NEW n \in Nat, k + n = 0
               PROVE  g[<<k, n>>] = h[<<k, n>>]
    OBVIOUS
  <2>1. k = 0 /\ k + n <= a /\ k + n <= b
    OBVIOUS
  <2>2. g[<<k, n>>] = UsesStep(g, k, n) /\ h[<<k, n>>] = UsesStep(h, k, n)
    BY <2>1 DEF Obeys
  <2> QED
    BY <2>1, <2>2 DEF UsesStep
<1>2. ASSUME NEW i \in Nat, i \in T PROVE i + 1 \in T
  <2> SUFFICES ASSUME NEW k \in Nat, NEW n \in Nat, k + n = i + 1, i + 1 <= a, i + 1 <= b
               PROVE  g[<<k, n>>] = h[<<k, n>>]
    BY <1>2
  <2>1. g[<<k, n>>] = UsesStep(g, k, n) /\ h[<<k, n>>] = UsesStep(h, k, n)
    BY DEF Obeys
  <2>2. CASE k = 0 \/ n = 0
    BY <2>1, <2>2 DEF UsesStep
  <2>3. CASE ~(k = 0 \/ n = 0)
    <3>1. /\ k - 1 \in Nat /\ (k - 1) + n = i
          /\ n - 1 \in Nat /\ k + (n - 1) = i
          /\ i <= a /\ i <= b
      BY <1>2, <2>3
    <3>2. g[<<k - 1, n>>] = h[<<k - 1, n>>] /\ g[<<k, n - 1>>] = h[<<k, n - 1>>]
      BY <1>2, <3>1
    <3> QED
      BY <2>1, <2>3, <3>2 DEF UsesStep
  <2> QED
    BY <2>2, <2>3
<1> HIDE DEF T
<1>3. \A i \in Nat : i \in T
  BY <1>1, <1>2, EveryNumber
<1> SUFFICES ASSUME NEW k \in Nat, NEW n \in Nat, k + n <= a, k + n <= b
             PROVE  g[<<k, n>>] = h[<<k, n>>]
  OBVIOUS
<1>4. k + n \in T
  BY <1>3
<1> QED
  BY <1>4 DEF T

\* Uses is the function its definition describes.
LEMMA UsesEquation ==
  /\ Uses \in [Nat \X Nat -> Nat]
  /\ \A k, n \in Nat : Uses[<<k, n>>] = UsesStep(Uses, k, n)
<1> DEFINE Upto(b) == CHOOSE g \in [Nat \X Nat -> Nat] : Obeys(g, b)
           f == [p \in Nat \X Nat |-> Upto(p[1] + p[2])[p]]
<1>1. \A b \in Nat : Upto(b) \in [Nat \X Nat -> Nat] /\ Obeys(Upto(b), b)
  BY SomeObeys
<1> HIDE DEF Upto
<1>2. f \in [Nat \X Nat -> Nat]
  <2> SUFFICES ASSUME NEW p \in Nat \X Nat PROVE Upto(p[1] + p[2])[p] \in Nat
    OBVIOUS
  <2>1. p[1] + p[2] \in Nat
    OBVIOUS
  <2>2. Upto(p[1] + p[2]) \in [Nat \X Nat -> Nat]
    BY <1>1, <2>1
  <2> QED
    BY <2>2
<1>3. \A k, n \in Nat : f[<<k, n>>] = Upto(k + n)[<<k, n>>]
  OBVIOUS
<1>d. DOMAIN f = Nat \X Nat
  OBVIOUS
<1> HIDE DEF f
<1>4. ASSUME NEW k \in Nat, NEW n \in Nat
      PROVE  f[<<k, n>>] = UsesStep(f, k, n)
  <2>1. Obeys(Upto(k + n), k + n)
    BY <1>1
  <2>2. Upto(k + n)[<<k, n>>] = UsesStep(Upto(k + n), k, n)
    BY <2>1 DEF Obeys
  <2>3. CASE k = 0 \/ n = 0
    BY <1>3, <2>2, <2>3 DEF UsesStep
  <2>4. CASE ~(k = 0 \/ n = 0)
    <3>1. /\ k - 1 \in Nat /\ n - 1 \in Nat /\ (k + n) - 1 \in Nat
          /\ (k - 1) + n = (k + n) - 1 /\ k + (n - 1) = (k + n) - 1
          /\ (k + n) - 1 <= k + n
      BY <2>4
    <3> DEFINE b == (k + n) - 1
    <3>2. Obeys(Upto(b), b)
      BY <1>1, <3>1
    <3>3. \A i, j \in Nat : i + j <= b /\ i + j <= k + n =>
            Upto(b)[<<i, j>>] = Upto(k + n)[<<i, j>>]
      <4> HIDE DEF b
      <4> QED
        BY <2>1, <3>1, <3>2, ObeysUnique DEF b
    <3>4. /\ f[<<k - 1, n>>] = Upto(b)[<<k - 1, n>>]
          /\ f[<<k, n - 1>>] = Upto(b)[<<k, n - 1>>]
      BY <1>3, <3>1
    <3>5. /\ f[<<k - 1, n>>] = Upto(k + n)[<<k - 1, n>>]
          /\ f[<<k, n - 1>>] = Upto(k + n)[<<k, n - 1>>]
      BY <3>1, <3>3, <3>4
    <3> QED
      BY <1>3, <2>2, <2>4, <3>5 DEF UsesStep
  <2> QED
    BY <2>3, <2>4
<1>5. f = [p \in Nat \X Nat |-> UsesStep(f, p[1], p[2])]
  <2>1. \A p \in Nat \X Nat : f[p] = UsesStep(f, p[1], p[2])
    BY <1>4
  <2> QED
    BY <1>2, <2>1
<1>6. Uses = [p \in Nat \X Nat |-> UsesStep(Uses, p[1], p[2])]
  BY <1>5 DEF Uses, UsesStep
<1>7. \A k, n \in Nat : Uses[<<k, n>>] = UsesStep(Uses, k, n)
  BY <1>6
<1>8. \A k, n \in Nat : Uses[<<k, n>>] = f[<<k, n>>]
  <2> SUFFICES ASSUME NEW k \in Nat, NEW n \in Nat
               PROVE  Uses[<<k, n>>] = f[<<k, n>>]
    OBVIOUS
  <2>1. k + n \in Nat /\ k + n <= k + n
    OBVIOUS
  <2>2. Obeys(Uses, k + n) /\ Obeys(f, k + n)
    BY <1>4, <1>7 DEF Obeys
  <2> QED
    BY <2>1, <2>2, ObeysUnique
<1>9. Uses \in [Nat \X Nat -> Nat]
  <2>1. Uses = [p \in Nat \X Nat |-> Uses[p]]
    BY <1>6
  <2>2. \A p \in Nat \X Nat : Uses[p] \in Nat
    BY <1>2, <1>8
  <2> QED
    BY <2>1, <2>2
<1> QED
  BY <1>7, <1>9

\* A sequence that nowhere falls is monotone.
LEMMA Rising ==
  ASSUME NEW f \in [Nat -> Int], \A i \in Nat : f[i] <= f[i + 1]
  PROVE  \A x, y \in Nat : x <= y => f[x] <= f[y]
<1> DEFINE T == {d \in Nat : \A x \in Nat : f[x] <= f[x + d]}
<1>1. 0 \in T
  OBVIOUS
<1>2. ASSUME NEW d \in Nat, d \in T PROVE d + 1 \in T
  <2> SUFFICES ASSUME NEW x \in Nat PROVE f[x] <= f[x + (d + 1)]
    OBVIOUS
  <2>1. x + d \in Nat /\ x + (d + 1) = (x + d) + 1 /\ f[x] \in Int
        /\ f[x + d] \in Int /\ f[x + (d + 1)] \in Int
    OBVIOUS
  <2>2. f[x] <= f[x + d] /\ f[x + d] <= f[(x + d) + 1]
    BY <1>2, <2>1
  <2> QED
    BY <2>1, <2>2
<1> HIDE DEF T
<1>3. \A d \in Nat : d \in T
  BY <1>1, <1>2, EveryNumber
<1> SUFFICES ASSUME NEW x \in Nat, NEW y \in Nat, x <= y PROVE f[x] <= f[y]
  OBVIOUS
<1>4. y - x \in Nat /\ x + (y - x) = y
  OBVIOUS
<1>5. y - x \in T
  BY <1>3, <1>4
<1> QED
  BY <1>4, <1>5 DEF T

\* What one more code is worth to k requests that share n.
Extra(k, n) == Uses[<<k, n + 1>>] - Uses[<<k, n>>]

\* The equation, case by case.
LEMMA UsesValues ==
  ASSUME NEW k \in Nat, NEW n \in Nat
  PROVE  /\ Uses[<<k, n>>] \in Nat
         /\ Uses[<<0, n>>] = 0 /\ Uses[<<k, 0>>] = 0
         /\ Uses[<<k + 1, n + 1>>] = 1 + Uses[<<k, n + 1>>] + Uses[<<k + 1, n>>]
<1>1. /\ Uses[<<0, n>>] = UsesStep(Uses, 0, n)
      /\ Uses[<<k, 0>>] = UsesStep(Uses, k, 0)
      /\ Uses[<<k + 1, n + 1>>] = UsesStep(Uses, k + 1, n + 1)
  BY UsesEquation
<1>2. /\ k + 1 # 0 /\ n + 1 # 0
      /\ (k + 1) - 1 = k /\ (n + 1) - 1 = n
  OBVIOUS
<1> QED
  BY <1>1, <1>2, UsesEquation DEF UsesStep

\* More requests use no less.
LEMMA UsesRising ==
  ASSUME NEW n \in Nat
  PROVE  \A x, y \in Nat : x <= y => Uses[<<x, n>>] <= Uses[<<y, n>>]
<1> DEFINE f == [k \in Nat |-> Uses[<<k, n>>]]
<1>0. \A k \in Nat : Uses[<<k, n>>] \in Nat /\ Uses[<<k, n>>] \in Int
  BY UsesEquation
<1>1. f \in [Nat -> Int]
  BY <1>0
<1>2. ASSUME NEW k \in Nat PROVE f[k] <= f[k + 1]
  <2>1. CASE n = 0
    <3>1. k + 1 \in Nat
      OBVIOUS
    <3>2. Uses[<<k, 0>>] = 0
      BY UsesValues
    <3>3. Uses[<<k + 1, 0>>] = 0
      BY <3>1, UsesValues
    <3> QED
      BY <2>1, <3>2, <3>3
  <2>2. CASE n # 0
    <3>1. n - 1 \in Nat /\ (n - 1) + 1 = n /\ k + 1 \in Nat
      BY <2>2
    <3>2. Uses[<<k + 1, (n - 1) + 1>>] = 1 + Uses[<<k, (n - 1) + 1>>] + Uses[<<k + 1, n - 1>>]
      BY <3>1, UsesValues
    <3>3. Uses[<<k + 1, n - 1>>] \in Nat /\ Uses[<<k, n>>] \in Nat
      BY <3>1, UsesValues
    <3> QED
      BY <3>1, <3>2, <3>3
  <2> QED
    BY <2>1, <2>2
<1>3. \A k \in Nat : f[k] = Uses[<<k, n>>]
  OBVIOUS
<1> HIDE DEF f
<1>4. \A x, y \in Nat : x <= y => f[x] <= f[y]
  BY <1>1, <1>2, Rising
<1> QED
  BY <1>3, <1>4

\* What a code is worth to one request more.
LEMMA ExtraValues ==
  ASSUME NEW k \in Nat, NEW n \in Nat
  PROVE  /\ Extra(k, n) \in Int
         /\ Extra(0, n) = 0
         /\ Extra(k + 1, n) = 1 + Uses[<<k, n>>] + Extra(k, n)
<1>1. n + 1 \in Nat /\ k + 1 \in Nat
  OBVIOUS
<1>2. /\ Uses[<<k, n>>] \in Nat /\ Uses[<<k, n + 1>>] \in Nat
      /\ Uses[<<k + 1, n>>] \in Nat /\ Uses[<<k + 1, n + 1>>] \in Nat
      /\ Uses[<<0, n>>] = 0 /\ Uses[<<0, n + 1>>] = 0
      /\ Uses[<<k + 1, n + 1>>] = 1 + Uses[<<k, n + 1>>] + Uses[<<k + 1, n>>]
  BY <1>1, UsesValues
<1> QED
  BY <1>2 DEF Extra

\* It is worth no less to more requests,
LEMMA ExtraRising ==
  ASSUME NEW n \in Nat
  PROVE  \A x, y \in Nat : x <= y => Extra(x, n) <= Extra(y, n)
<1> DEFINE f == [k \in Nat |-> Extra(k, n)]
<1>1. f \in [Nat -> Int]
  BY ExtraValues
<1>2. ASSUME NEW k \in Nat PROVE f[k] <= f[k + 1]
  <2>1. Uses[<<k, n>>] \in Nat
    BY UsesValues
  <2>2. Extra(k, n) \in Int /\ Extra(k + 1, n) = 1 + Uses[<<k, n>>] + Extra(k, n)
    BY ExtraValues
  <2> QED
    BY <2>1, <2>2
<1>3. \A k \in Nat : f[k] = Extra(k, n)
  OBVIOUS
<1> HIDE DEF f
<1>4. \A x, y \in Nat : x <= y => f[x] <= f[y]
  BY <1>1, <1>2, Rising
<1> QED
  BY <1>3, <1>4

\* and d requests add no less to what it is worth to more.
LEMMA ExtraConvex ==
  ASSUME NEW n \in Nat, NEW d \in Nat
  PROVE  \A x, y \in Nat : x <= y =>
           Extra(x + d, n) - Extra(x, n) <= Extra(y + d, n) - Extra(y, n)
<1> DEFINE f == [k \in Nat |-> Extra(k + d, n) - Extra(k, n)]
<1>0. \A k \in Nat : Extra(k + d, n) \in Int /\ Extra(k, n) \in Int
  <2>1. \A k \in Nat : Extra(k, n) \in Int
    BY ExtraValues
  <2>2. \A k \in Nat : k + d \in Nat
    OBVIOUS
  <2> HIDE DEF Extra
  <2> QED
    BY <2>1, <2>2
<1>1. f \in [Nat -> Int]
  BY <1>0
<1>2. ASSUME NEW k \in Nat PROVE f[k] <= f[k + 1]
  <2>1. k + d \in Nat /\ (k + 1) + d = (k + d) + 1 /\ k <= k + d /\ k + 1 \in Nat
    OBVIOUS
  <2>2. /\ Extra(k + 1, n) = 1 + Uses[<<k, n>>] + Extra(k, n)
        /\ Extra((k + d) + 1, n) = 1 + Uses[<<k + d, n>>] + Extra(k + d, n)
    BY <2>1, ExtraValues
  <2>3. /\ Uses[<<k, n>>] \in Nat /\ Uses[<<k + d, n>>] \in Nat
        /\ Uses[<<k, n>>] <= Uses[<<k + d, n>>]
    BY <2>1, UsesValues, UsesRising
  <2>4. /\ f[k] = Extra(k + d, n) - Extra(k, n)
        /\ f[k + 1] = Extra((k + d) + 1, n) - Extra(k + 1, n)
    BY <2>1
  <2> HIDE DEF f
  <2> QED
    BY <1>0, <2>1, <2>2, <2>3, <2>4
<1>3. \A k \in Nat : f[k] = Extra(k + d, n) - Extra(k, n)
  OBVIOUS
<1> HIDE DEF f
<1>4. \A x, y \in Nat : x <= y => f[x] <= f[y]
  BY <1>1, <1>2, Rising
<1> QED
  BY <1>3, <1>4

\* The first code is worth one login to each.
LEMMA ExtraOfFirst == \A k \in Nat : Extra(k, 0) = k
<1> DEFINE T == {k \in Nat : Extra(k, 0) = k}
<1>1. 0 \in T
  BY ExtraValues
<1>2. ASSUME NEW k \in Nat, k \in T PROVE k + 1 \in T
  <2>1. Extra(k + 1, 0) = 1 + Uses[<<k, 0>>] + Extra(k, 0) /\ Uses[<<k, 0>>] = 0
    BY ExtraValues, UsesValues
  <2> QED
    BY <1>2, <2>1
<1> HIDE DEF T
<1>3. \A k \in Nat : k \in T
  BY <1>1, <1>2, EveryNumber
<1> QED
  BY <1>3 DEF T

-----------------------------------------------------------------------------
(***************************************************************************)
(* What the codes of a set-up may still yield.                             *)
(***************************************************************************)

NumRequests == Cardinality(Requests)

\* What the (n+1)st code may still be worth while a of the requests may use it.
Worth(a, n) == Extra(NumRequests, n) - Extra(NumRequests - a, n)

\* It is never negative, and more if more may use it.
LEMMA WorthValues ==
  ASSUME NEW n \in Nat
  PROVE  /\ NumRequests \in Nat
         /\ \A a \in 0 .. NumRequests : Worth(a, n) \in Nat /\ Worth(a, 0) = a
         /\ Worth(0, n) = 0 /\ Worth(NumRequests, n) = Extra(NumRequests, n)
         /\ \A a, b \in 0 .. NumRequests : a <= b => Worth(a, n) <= Worth(b, n)
<1>1. NumRequests \in Nat
  BY FS_CardinalityType DEF NumRequests
<1>2. ASSUME NEW a \in 0 .. NumRequests PROVE Worth(a, n) \in Nat /\ Worth(a, 0) = a
  <2>1. NumRequests - a \in Nat /\ NumRequests - a <= NumRequests
    BY <1>1
  <2>2. Extra(NumRequests, n) \in Int /\ Extra(NumRequests - a, n) \in Int
    BY <1>1, <2>1, ExtraValues
  <2>3. Extra(NumRequests - a, n) <= Extra(NumRequests, n)
    BY <1>1, <2>1, ExtraRising
  <2>4. Extra(NumRequests, 0) = NumRequests /\ Extra(NumRequests - a, 0) = NumRequests - a
    BY <1>1, <2>1, ExtraOfFirst
  <2> QED
    BY <1>1, <2>2, <2>3, <2>4 DEF Worth
<1>3. Worth(0, n) = 0 /\ Worth(NumRequests, n) = Extra(NumRequests, n)
  <2>1. Extra(NumRequests, n) \in Int /\ Extra(0, n) = 0
    BY <1>1, ExtraValues
  <2>2. NumRequests - 0 = NumRequests /\ NumRequests - NumRequests = 0
    BY <1>1
  <2> QED
    BY <2>1, <2>2 DEF Worth
<1>4. ASSUME NEW a \in 0 .. NumRequests, NEW b \in 0 .. NumRequests, a <= b
      PROVE  Worth(a, n) <= Worth(b, n)
  <2>1. NumRequests - a \in Nat /\ NumRequests - b \in Nat /\ NumRequests - b <= NumRequests - a
    BY <1>1, <1>4
  <2>2. /\ Extra(NumRequests, n) \in Int /\ Extra(NumRequests - a, n) \in Int
        /\ Extra(NumRequests - b, n) \in Int
    BY <1>1, <2>1, ExtraValues
  <2>3. Extra(NumRequests - b, n) <= Extra(NumRequests - a, n)
    BY <2>1, ExtraRising
  <2> QED
    BY <2>2, <2>3 DEF Worth
<1> QED
  BY <1>1, <1>2, <1>3, <1>4

\* An account of what the codes are worth: credit[n] is what the first n may
\* still yield, when users[n] requests may use the (n+1)st.
Credits(credit, users) ==
  /\ credit \in [Nat -> Int]
  /\ credit[0] = 0
  /\ \A n \in Nat : credit[n] + Worth(users[n], n) <= credit[n + 1]

\* No code yields less than nothing.
LEMMA CreditNotNegative ==
  ASSUME NEW users \in [Nat -> 0 .. NumRequests], NEW credit, Credits(credit, users),
         NEW n \in Nat
  PROVE  credit[n] \in Nat
<1>1. \A i \in Nat : credit[i] <= credit[i + 1]
  <2> SUFFICES ASSUME NEW i \in Nat PROVE credit[i] <= credit[i + 1]
    OBVIOUS
  <2>1. Worth(users[i], i) \in Nat
    BY WorthValues
  <2> QED
    BY <2>1 DEF Credits
<1>2. credit[0] <= credit[n]
  <2>1. credit \in [Nat -> Int]
    BY DEF Credits
  <2>2. \A x, y \in Nat : x <= y => credit[x] <= credit[y]
    BY <1>1, <2>1, Rising
  <2> QED
    BY <2>2
<1> QED
  BY <1>2 DEF Credits

\* Fewer users need no more credit.
LEMMA CreditOfFewer ==
  ASSUME NEW before \in [Nat -> 0 .. NumRequests], NEW after \in [Nat -> 0 .. NumRequests],
         \A n \in Nat : after[n] <= before[n],
         NEW credit, Credits(credit, before)
  PROVE  Credits(credit, after)
<1> SUFFICES ASSUME NEW n \in Nat PROVE credit[n] + Worth(after[n], n) <= credit[n + 1]
  BY DEF Credits
<1>1. /\ Worth(after[n], n) \in Nat /\ Worth(before[n], n) \in Nat
      /\ Worth(after[n], n) <= Worth(before[n], n)
  BY WorthValues
<1> QED
  BY <1>1 DEF Credits

\* A login takes its credit from the first code.
LEMMA CreditOfLogin ==
  ASSUME NEW before \in [Nat -> 0 .. NumRequests], NEW after \in [Nat -> 0 .. NumRequests],
         \A n \in Nat : after[n] <= before[n], after[0] = before[0] - 1,
         NEW credit, Credits(credit, before)
  PROVE  \E c : /\ Credits(c, after)
                /\ \A n \in Nat \ {0} : c[n] = credit[n] - 1
<1> DEFINE c == [n \in Nat |-> IF n = 0 THEN 0 ELSE credit[n] - 1]
<1>1. c \in [Nat -> Int] /\ c[0] = 0 /\ \A n \in Nat \ {0} : c[n] = credit[n] - 1
  BY DEF Credits
<1> HIDE DEF c
<1>2. ASSUME NEW n \in Nat PROVE c[n] + Worth(after[n], n) <= c[n + 1]
  <2>1. /\ Worth(after[n], n) \in Nat /\ Worth(before[n], n) \in Nat
        /\ Worth(after[n], n) <= Worth(before[n], n)
        /\ Worth(after[n], 0) = after[n] /\ Worth(before[n], 0) = before[n]
    BY WorthValues
  <2>2. /\ credit[n] + Worth(before[n], n) <= credit[n + 1]
        /\ credit[n] \in Int /\ credit[n + 1] \in Int /\ credit[0] = 0
        /\ c[n + 1] = credit[n + 1] - 1
    BY <1>1 DEF Credits
  <2>3. CASE n = 0
    BY <1>1, <2>1, <2>2, <2>3
  <2>4. CASE n # 0
    BY <1>1, <2>1, <2>2, <2>4
  <2> QED
    BY <2>3, <2>4
<1> QED
  BY <1>1, <1>2 DEF Credits

\* Who may use which code before and after a write-back of kept codes: free
\* requests may use what is in the row, waiting[n] others that have a write-back
\* before them may use the (n+1)st.
WriteBackUsers(before, after, waiting, free, kept) ==
  /\ \A n \in Nat : waiting[n] + free + 1 <= NumRequests
  /\ \A n \in 1 .. kept : waiting[kept] <= waiting[n] /\ waiting[n] + 1 <= before[n]
  /\ after[0] <= free + 1
  /\ \A n \in 1 .. kept - 1 : after[n] <= waiting[n] + free + 1
  /\ after[kept] <= waiting[kept]
  /\ \A n \in Nat : n > kept => after[n] <= before[n]

\* A write-back of kept codes lets the request and the free ones use the first
\* kept codes again; the request pays with the code after them.
LEMMA CreditOfWriteBack ==
  ASSUME NEW before, NEW after, NEW waiting, NEW free, NEW kept, NEW credit,
         before \in [Nat -> 0 .. NumRequests], after \in [Nat -> 0 .. NumRequests],
         waiting \in [Nat -> Nat], free \in Nat, kept \in 1 .. NumCodes - 1,
         WriteBackUsers(before, after, waiting, free, kept), Credits(credit, before)
  PROVE  \E c : Credits(c, after) /\ c[NumCodes] = credit[NumCodes]
<1> DEFINE b == NumRequests - waiting[kept] - 1
           d(n) == 1 + Uses[<<b, n>>] - Uses[<<b - free, n>>]
           c == [n \in Nat |-> IF 1 <= n /\ n <= kept THEN credit[n] + d(n) ELSE credit[n]]
<1>0. NumRequests \in Nat /\ b \in Nat /\ b - free \in Nat /\ b + 1 \in Nat
      /\ waiting[kept] = NumRequests - (b + 1)
  <2>1. 0 \in Nat /\ NumRequests \in Nat
    BY WorthValues
  <2>2. kept \in Nat /\ waiting[kept] \in Nat /\ waiting[kept] + free + 1 <= NumRequests
    BY DEF WriteBackUsers
  <2> QED
    BY <2>1, <2>2
<1>a. credit \in [Nat -> Int] /\ credit[0] = 0
      /\ \A n \in Nat : credit[n] + Worth(before[n], n) <= credit[n + 1]
  BY DEF Credits
<1>b. \A n \in Nat : Uses[<<b, n>>] \in Nat /\ Uses[<<b - free, n>>] \in Nat
  BY <1>0, UsesValues
<1>c. \A n \in Nat : d(n) \in Int
  BY <1>b
<1>d. c \in [Nat -> Int] /\ c[0] = 0
  BY <1>a, <1>c DEF Credits
<1>k. kept \in Nat /\ 1 <= kept
  OBVIOUS
<1> HIDE DEF b, d
<1>e. /\ \A n \in 1 .. kept : c[n] = credit[n] + d(n)
      /\ \A n \in Nat : n > kept => c[n] = credit[n]
  BY <1>k
<1> HIDE DEF c
<1>1. ASSUME NEW n \in Nat PROVE c[n] + Worth(after[n], n) <= c[n + 1]
  <2>1. /\ after[n] \in 0 .. NumRequests /\ before[n] \in 0 .. NumRequests
        /\ Worth(after[n], n) \in Nat /\ Worth(before[n], n) \in Nat
    BY WorthValues
  <2>2. /\ credit[n] + Worth(before[n], n) <= credit[n + 1]
        /\ credit[n] \in Int /\ credit[n + 1] \in Int
    BY <1>a
  <2>3. CASE n = 0
    <3>1. Worth(after[0], 0) = after[0] /\ Worth(before[0], 0) = before[0]
      BY <2>1, <2>3, WorthValues
    <3>2. Extra(b, 0) = b /\ Extra(b - free, 0) = b - free
      BY <1>0, ExtraOfFirst
    <3>3. Uses[<<b, 0>>] = 0 /\ Uses[<<b - free, 0>>] = 0
      BY <1>0, UsesValues
    <3>4. Uses[<<b, 1>>] = b /\ Uses[<<b - free, 1>>] = b - free
      BY <1>0, <1>b, <3>2, <3>3 DEF Extra
    <3>5. c[1] = credit[1] + 1 + free
      <4>1. d(1) = 1 + free
        BY <1>0, <3>4 DEF d
      <4>2. c[1] = credit[1] + d(1)
        BY <1>e, <1>k
      <4> QED
        BY <1>a, <4>1, <4>2
    <3>6. credit[0] = 0 /\ credit[0] + Worth(before[0], 0) <= credit[1]
      BY <2>2, <2>3 DEF Credits
    <3>7. after[0] <= free + 1
      BY DEF WriteBackUsers
    <3> QED
      BY <1>d, <2>1, <2>2, <2>3, <3>1, <3>5, <3>6, <3>7
  <2>4. CASE n \in 1 .. kept - 1
    <3> DEFINE x == NumRequests - waiting[n] - 1
    <3>0. /\ waiting[n] \in Nat /\ waiting[kept] <= waiting[n]
          /\ waiting[n] + free + 1 <= NumRequests
          /\ waiting[n] + 1 <= before[n]
          /\ after[n] <= waiting[n] + free + 1
      BY <2>4 DEF WriteBackUsers
    <3>1. /\ x \in Nat /\ x - free \in Nat /\ x - free <= b - free
          /\ waiting[n] + 1 \in 0 .. NumRequests /\ NumRequests - (waiting[n] + 1) = x
          /\ waiting[n] + free + 1 \in 0 .. NumRequests
          /\ NumRequests - (waiting[n] + free + 1) = x - free
          /\ (x - free) + free = x /\ (b - free) + free = b
      <4>1. x \in Nat /\ x - free \in Nat /\ (x - free) + free = x
        BY <1>0, <3>0
      <4>2. (b - free) + free = b /\ x - free <= b - free
        BY <1>0, <3>0, <4>1
      <4> QED
        BY <1>0, <3>0, <4>1, <4>2
    <3>2. Worth(after[n], n) <= Extra(NumRequests, n) - Extra(x - free, n)
      <4>1. Worth(after[n], n) <= Worth(waiting[n] + free + 1, n)
        BY <2>1, <3>0, <3>1, WorthValues
      <4> QED
        BY <3>1, <4>1 DEF Worth
    <3>3. Extra(NumRequests, n) - Extra(x, n) <= Worth(before[n], n)
      <4>1. Worth(waiting[n] + 1, n) <= Worth(before[n], n)
        BY <2>1, <3>0, <3>1, WorthValues
      <4> QED
        BY <3>1, <4>1 DEF Worth
    <3> HIDE DEF x
    <3>4. Extra(x, n) - Extra(x - free, n) <= Extra(b, n) - Extra(b - free, n)
      BY <1>0, <3>1, ExtraConvex
    <3>5. /\ Extra(NumRequests, n) \in Int /\ Extra(x, n) \in Int /\ Extra(x - free, n) \in Int
          /\ Extra(b, n) \in Int /\ Extra(b - free, n) \in Int
      BY <1>0, <3>1, ExtraValues
    <3>6. d(n + 1) - d(n) = Extra(b, n) - Extra(b - free, n)
      BY <1>b DEF Extra, d
    <3>7. c[n] = credit[n] + d(n) /\ c[n + 1] = credit[n + 1] + d(n + 1)
      BY <1>e, <2>4
    <3>8. d(n) \in Int /\ d(n + 1) \in Int
      BY <1>c
    <3> QED
      BY <2>1, <2>2, <3>2, <3>3, <3>4, <3>5, <3>6, <3>7, <3>8
  <2>5. CASE n = kept
    <3>0. after[n] <= waiting[n] /\ waiting[n] + 1 <= before[n]
      BY <2>5 DEF WriteBackUsers
    <3>1. Worth(after[n], n) <= Extra(NumRequests, n) - Extra(b + 1, n)
      <4>1. waiting[n] \in 0 .. NumRequests
        BY <1>0, <2>5
      <4>2. Worth(after[n], n) <= Worth(waiting[n], n)
        BY <2>1, <3>0, <4>1, WorthValues
      <4>3. NumRequests - waiting[n] = b + 1
        BY <1>0, <2>5, <4>1
      <4> QED
        BY <4>2, <4>3 DEF Worth
    <3>2. Extra(NumRequests, n) - Extra(b, n) <= Worth(before[n], n)
      <4>1. waiting[n] + 1 \in 0 .. NumRequests /\ waiting[n] + 1 <= before[n]
        BY <1>0, <2>5, <3>0
      <4>2. Worth(waiting[n] + 1, n) <= Worth(before[n], n)
        BY <2>1, <4>1, WorthValues
      <4>3. NumRequests - (waiting[n] + 1) = b
        BY <1>0, <2>5, <4>1
      <4> QED
        BY <4>2, <4>3 DEF Worth
    <3>3. Extra(b + 1, n) = 1 + Uses[<<b, n>>] + Extra(b, n)
      BY <1>0, ExtraValues
    <3>4. Extra(NumRequests, n) \in Int /\ Extra(b, n) \in Int
      BY <1>0, ExtraValues
    <3>5. c[n] = credit[n] + d(n) /\ c[n + 1] = credit[n + 1]
      BY <1>e, <1>k, <2>5
    <3>6. Uses[<<b, n>>] \in Nat /\ Uses[<<b - free, n>>] \in Nat
      BY <1>b
    <3> QED
      BY <2>1, <2>2, <3>1, <3>2, <3>3, <3>4, <3>5, <3>6 DEF d
  <2>6. CASE n > kept
    <3>0. after[n] <= before[n]
      BY <2>6 DEF WriteBackUsers
    <3>1. Worth(after[n], n) <= Worth(before[n], n)
      BY <2>1, <3>0, WorthValues
    <3>2. c[n] = credit[n] /\ c[n + 1] = credit[n + 1]
      BY <1>e, <1>k, <2>6
    <3> QED
      BY <2>1, <2>2, <3>1, <3>2
  <2> QED
    BY <2>3, <2>4, <2>5, <2>6
<1>2. c[NumCodes] = credit[NumCodes]
  BY <1>e
<1> QED
  BY <1>1, <1>2, <1>d DEF Credits

-----------------------------------------------------------------------------
(***************************************************************************)
(* Whose codes they are, and who may still use them.                       *)
(***************************************************************************)

\* The codes of different set-ups differ.
LEMMA CodesDisjoint ==
  ASSUME NEW s \in Secrets, NEW t \in Secrets, s # t
  PROVE  CodesOf(s) \cap CodesOf(t) = {}
<1>1. ASSUME NEW x \in Secrets, NEW y \in Secrets, x < y, NEW c \in CodesOf(x)
      PROVE  c \notin CodesOf(y)
  <2>1. x \in Nat /\ y - 1 - x \in Nat /\ y - 1 \in Nat /\ x - 1 \in Nat
    BY <1>1 DEF Secrets
  <2>2. NumCodes * (y - 1 - x) \in Nat /\ NumCodes * x \in Nat /\ NumCodes * (x - 1) \in Nat
    BY <2>1
  <2>3. NumCodes * (y - 1) = NumCodes * x + NumCodes * (y - 1 - x)
    BY <2>1
  <2>4. c \in Nat /\ c <= NumCodes * x
    BY <1>1, <2>2 DEF CodesOf
  <2> QED
    BY <2>2, <2>3, <2>4 DEF CodesOf
<1>2. s \in Int /\ t \in Int /\ (s < t \/ t < s)
  BY DEF Secrets
<1> QED
  BY <1>1, <1>2

\* A code tells its set-up.
LEMMA SetupOfCode ==
  ASSUME NEW s \in Secrets, NEW c \in CodesOf(s)
  PROVE  SetupOf(c) = s
<1>1. SetupOf(c) \in Secrets /\ c \in CodesOf(SetupOf(c))
  BY DEF SetupOf
<1> QED
  BY <1>1, CodesDisjoint

\* There are as many as the code generates.
LEMMA CodesCount ==
  ASSUME NEW s \in Secrets
  PROVE  /\ IsFiniteSet(CodesOf(s)) /\ Cardinality(CodesOf(s)) = NumCodes
         /\ \A C : /\ IsFiniteSet(C \cap CodesOf(s))
                   /\ Cardinality(C \cap CodesOf(s)) \in 0 .. NumCodes
<1> DEFINE a == NumCodes * (s - 1) + 1
           b == NumCodes * s
<1>1. s \in Int /\ a \in Int /\ b \in Int
  BY DEF Secrets
<1>2. b - a + 1 = NumCodes
  BY <1>1
<1> HIDE DEF a, b
<1>3. IsFiniteSet(a .. b) /\ Cardinality(a .. b) = IF a > b THEN 0 ELSE b - a + 1
  BY <1>1, FS_Interval
<1>4. Cardinality(a .. b) = NumCodes
  BY <1>1, <1>2, <1>3
<1>5. IsFiniteSet(CodesOf(s)) /\ Cardinality(CodesOf(s)) = NumCodes
  BY <1>3, <1>4 DEF CodesOf, a, b
<1>6. ASSUME NEW C
      PROVE  /\ IsFiniteSet(C \cap CodesOf(s))
             /\ Cardinality(C \cap CodesOf(s)) \in 0 .. NumCodes
  <2>1. C \cap CodesOf(s) \in SUBSET CodesOf(s)
    OBVIOUS
  <2>2. IsFiniteSet(C \cap CodesOf(s)) /\ Cardinality(C \cap CodesOf(s)) <= NumCodes
    BY <1>5, <2>1, FS_Subset
  <2> QED
    BY <2>2, FS_CardinalityType
<1> QED
  BY <1>5, <1>6

\* The codes of a set-up in the row, and in what a login will write back.
Held(s) == Cardinality(user.codes \cap CodesOf(s))
Kept(r, s) == Cardinality(request[r].left \cap CodesOf(s))

\* Who may use the (n+1)st code of a set-up: those who will read the row, while
\* it holds that many; a login with a write-back before it has used one, and can
\* use the others it has read only after that.
MayUse(r, s, n) ==
  IF request[r].step = "writeback" THEN 1 <= n /\ n <= Kept(r, s) ELSE n < Held(s)

Users(s) == [n \in Nat |-> Cardinality({r \in Requests : MayUse(r, s, n)})]

LEMMA UsersType ==
  ASSUME NEW s
  PROVE  Users(s) \in [Nat -> 0 .. NumRequests] /\ Users(s)' \in [Nat -> 0 .. NumRequests]
<1>1. ASSUME NEW A, A \subseteq Requests PROVE Cardinality(A) \in 0 .. NumRequests
  BY <1>1, FS_Subset, FS_CardinalityType DEF NumRequests
<1>2. \A n \in Nat : Cardinality({r \in Requests : MayUse(r, s, n)}) \in 0 .. NumRequests
  BY <1>1
<1>3. \A n \in Nat : Cardinality({r \in Requests : MayUse(r, s, n)'}) \in 0 .. NumRequests
  BY <1>1
<1> QED
  BY <1>2, <1>3 DEF Users

\* The logins accepted and those there is still credit for are no more than Uses.
Account(s) ==
  \E credit : /\ Credits(credit, Users(s))
              /\ accepted[s] + credit[NumCodes] <= Uses[<<NumRequests, NumCodes>>]

\* As long as nobody can use more codes than before, the account is good.
LEMMA AccountOfFewer ==
  ASSUME TypeOK, NEW s \in Secrets, Account(s), accepted'[s] = accepted[s],
         \A r \in Requests, n \in Nat : MayUse(r, s, n)' => MayUse(r, s, n)
  PROVE  Account(s)'
<1>1. PICK credit : /\ Credits(credit, Users(s))
                    /\ accepted[s] + credit[NumCodes] <= Uses[<<NumRequests, NumCodes>>]
  BY DEF Account
<1>2. ASSUME NEW n \in Nat PROVE Users(s)'[n] <= Users(s)[n]
  <2> DEFINE A == {r \in Requests : MayUse(r, s, n)}
             B == {r \in Requests : MayUse(r, s, n)'}
  <2>1. B \subseteq A /\ A \subseteq Requests
    OBVIOUS
  <2>2. Cardinality(B) <= Cardinality(A)
    <3> HIDE DEF A, B
    <3> QED
      BY <2>1, FS_Subset
  <2> QED
    BY <2>2 DEF Users
<1>3. Credits(credit, Users(s)')
  BY <1>1, <1>2, UsersType, CreditOfFewer
<1> QED
  BY <1>1, <1>3 DEF Account, NumRequests

\* Nothing accepted yet: all the credit there can be.
LEMMA AccountAnew ==
  ASSUME NEW users \in [Nat -> 0 .. NumRequests]
  PROVE  \E credit : /\ Credits(credit, users)
                     /\ credit[NumCodes] = Uses[<<NumRequests, NumCodes>>]
<1> DEFINE credit == [n \in Nat |-> Uses[<<NumRequests, n>>]]
<1>1. NumRequests \in Nat
  BY FS_CardinalityType DEF NumRequests
<1>0. \A n \in Nat : Uses[<<NumRequests, n>>] \in Nat /\ Uses[<<NumRequests, n>>] \in Int
  BY <1>1, UsesEquation
<1>2. credit \in [Nat -> Int] /\ credit[0] = 0
  <2>1. 0 \in Nat /\ Uses[<<NumRequests, 0>>] = 0
    BY <1>1, UsesValues
  <2> QED
    BY <1>0, <2>1
<1>3. \A n \in Nat : credit[n] = Uses[<<NumRequests, n>>]
  OBVIOUS
<1> HIDE DEF credit
<1>4. ASSUME NEW n \in Nat PROVE credit[n] + Worth(users[n], n) <= credit[n + 1]
  <2>1. /\ NumRequests \in 0 .. NumRequests
        /\ users[n] \in 0 .. NumRequests /\ users[n] <= NumRequests
    BY <1>1
  <2>2. /\ Worth(users[n], n) <= Worth(NumRequests, n)
        /\ Worth(users[n], n) \in Nat
        /\ Worth(NumRequests, n) = Extra(NumRequests, n)
    BY <2>1, WorthValues
  <2>3. Uses[<<NumRequests, n>>] \in Nat /\ Uses[<<NumRequests, n + 1>>] \in Nat
    BY <1>0
  <2> QED
    BY <1>3, <2>2, <2>3 DEF Extra
<1> QED
  BY <1>2, <1>3, <1>4 DEF Credits

-----------------------------------------------------------------------------
(***************************************************************************)
(* Acceptances.                                                            *)
(***************************************************************************)

\* The codes in one place are of one set-up.
OneSetUp(C) == \E s \in Secrets : C \subseteq CodesOf(s)

\* A login has used a code of the set-up of those it has left; a set-up to come
\* has given none.
CodesInv ==
  /\ user.codes # {} => OneSetUp(user.codes)
  /\ \A r \in Requests : request[r].step = "writeback" =>
       /\ OneSetUp(request[r].left)
       /\ \A s \in Secrets : Kept(r, s) < NumCodes
  /\ \A s \in Secrets : s > issued =>
       /\ accepted[s] = 0
       /\ user.codes \cap CodesOf(s) = {}
       /\ \A r \in Requests : request[r].left \cap CodesOf(s) = {}

\* Every set-up has a good account.
AccountInv == lost = 0 => \A s \in Secrets : Account(s)

LEMMA HeldTypes ==
  ASSUME NEW s \in Secrets
  PROVE  /\ Held(s) \in 0 .. NumCodes /\ Held(s)' \in 0 .. NumCodes
         /\ \A r \in Requests : Kept(r, s) \in 0 .. NumCodes /\ Kept(r, s)' \in 0 .. NumCodes
<1>1. \A C : Cardinality(C \cap CodesOf(s)) \in 0 .. NumCodes
  BY CodesCount
<1> QED
  BY <1>1 DEF Held, Kept

\* Counting less the codes of one set-up.
LEMMA FewerCodes ==
  ASSUME NEW s \in Secrets, NEW C, NEW D, C \subseteq D
  PROVE  Cardinality(C \cap CodesOf(s)) <= Cardinality(D \cap CodesOf(s))
<1>1. C \cap CodesOf(s) \in SUBSET (D \cap CodesOf(s))
  OBVIOUS
<1> QED
  BY <1>1, CodesCount, FS_Subset

\* A step that brings no code into the row or into a copy and begins or ends no
\* write-back.
LEMMA QuietStep ==
  ASSUME TypeOK, CodesInv, AccountInv,
         user'.codes \subseteq user.codes,
         \A r \in Requests :
           /\ (request'[r].step = "writeback") <=> (request[r].step = "writeback")
           /\ request'[r].left \subseteq request[r].left
           /\ request[r].step = "writeback" => request'[r].left = request[r].left,
         accepted' = accepted, issued' = issued, lost' = 0 => lost = 0
  PROVE  CodesInv' /\ AccountInv'
<1>1. CodesInv'
  BY DEF CodesInv, OneSetUp, Kept
<1>2. ASSUME lost' = 0, NEW s \in Secrets PROVE Account(s)'
  <2>1. Account(s)
    BY <1>2 DEF AccountInv
  <2>2. ASSUME NEW r \in Requests, NEW n \in Nat, MayUse(r, s, n)'
        PROVE  MayUse(r, s, n)
    <3>1. CASE request[r].step = "writeback"
      BY <2>2, <3>1 DEF MayUse, Kept
    <3>2. CASE request[r].step # "writeback"
      <4>0. Held(s)' <= Held(s)
        BY FewerCodes DEF Held
      <4>1. Held(s)' <= Held(s) /\ Held(s)' \in Nat /\ Held(s) \in Nat
        BY <4>0, HeldTypes
      <4>2. n < Held(s)'
        BY <2>2, <3>2 DEF MayUse
      <4> HIDE DEF Held
      <4> QED
        BY <3>2, <4>1, <4>2 DEF MayUse
    <3> QED
      BY <3>1, <3>2
  <2> QED
    BY <2>1, <2>2, AccountOfFewer
<1> QED
  BY <1>1, <1>2 DEF AccountInv

\* A login with a backup code.
LEMMA AcceptStep ==
  ASSUME TypeOK, CodesInv, AccountInv,
         NEW r \in Requests, request[r].step # "writeback", NEW c \in user.codes,
         request' = [request EXCEPT ![r].step = "writeback",
                                    ![r].password = user.password,
                                    ![r].left = Remaining(c)],
         accepted' = [accepted EXCEPT ![SetupOf(c)] = @ + 1],
         UNCHANGED <<user, issued, lost>>
  PROVE  CodesInv' /\ AccountInv'
<1>1. PICK t \in Secrets : user.codes \subseteq CodesOf(t)
  BY DEF CodesInv, OneSetUp
<1>2. SetupOf(c) = t
  BY <1>1, SetupOfCode
<1>3. /\ request'[r].step = "writeback" /\ request'[r].left = user.codes \ {c}
      /\ \A q \in Requests \ {r} : request'[q] = request[q]
  BY DEF TypeOK, Remaining
<1>4. /\ accepted'[t] = accepted[t] + 1
      /\ \A s \in Secrets \ {t} : accepted'[s] = accepted[s]
  BY <1>1, <1>2 DEF TypeOK
\* One code fewer of its own set-up, and none of another.
<1>5. Kept(r, t)' = Held(t) - 1 /\ Held(t) \in 1 .. NumCodes
  <2>1. c \in user.codes \cap CodesOf(t) /\ IsFiniteSet(user.codes \cap CodesOf(t))
    BY <1>1, CodesCount
  <2>2. Cardinality((user.codes \cap CodesOf(t)) \ {c}) = Held(t) - 1
    BY <2>1, FS_RemoveElement DEF Held
  <2>3. request'[r].left \cap CodesOf(t) = (user.codes \cap CodesOf(t)) \ {c}
    BY <1>3
  <2>4. Held(t) # 0
    BY <2>1, FS_EmptySet DEF Held
  <2>5. Kept(r, t)' = Held(t) - 1
    BY <2>2, <2>3 DEF Kept
  <2> QED
    BY <2>4, <2>5, HeldTypes
<1>6. ASSUME NEW s \in Secrets, s # t PROVE Kept(r, s)' = 0 /\ Held(s) = 0 /\ Held(s)' = 0
  <2>1. user.codes \cap CodesOf(s) = {} /\ request'[r].left \cap CodesOf(s) = {}
    BY <1>1, <1>3, <1>6, CodesDisjoint
  <2> QED
    BY <2>1, FS_EmptySet DEF Kept, Held
<1>7. CodesInv'
  <2>1. user'.codes # {} => OneSetUp(user'.codes)
    BY DEF CodesInv, OneSetUp
  <2>2. ASSUME NEW q \in Requests, request'[q].step = "writeback"
        PROVE  OneSetUp(request'[q].left) /\ \A s \in Secrets : Kept(q, s)' < NumCodes
    <3>1. CASE q = r
      <4>1. OneSetUp(request'[q].left)
        BY <1>1, <1>3, <3>1 DEF OneSetUp
      <4>2. \A s \in Secrets : Kept(r, s)' < NumCodes
        BY <1>5, <1>6
      <4> QED
        BY <3>1, <4>1, <4>2
    <3>2. CASE q # r
      BY <1>3, <2>2, <3>2 DEF CodesInv, OneSetUp, Kept
    <3> QED
      BY <3>1, <3>2
  <2>3. ASSUME NEW s \in Secrets, s > issued'
        PROVE  /\ accepted'[s] = 0
               /\ user'.codes \cap CodesOf(s) = {}
               /\ \A q \in Requests : request'[q].left \cap CodesOf(s) = {}
    <3>1. /\ accepted[s] = 0 /\ user.codes \cap CodesOf(s) = {}
          /\ \A q \in Requests : request[q].left \cap CodesOf(s) = {}
      BY <2>3 DEF CodesInv
    <3>2. s # t
      BY <1>1, <3>1
    <3> QED
      BY <1>3, <1>4, <3>1, <3>2
  <2> QED
    BY <2>1, <2>2, <2>3 DEF CodesInv, OneSetUp, Kept
<1>8. \A q \in Requests \ {r}, s \in Secrets, n \in Nat : MayUse(q, s, n)' <=> MayUse(q, s, n)
  BY <1>3 DEF MayUse, Kept, Held
<1>9. ASSUME lost' = 0, NEW s \in Secrets PROVE Account(s)'
  <2>0. Account(s)
    BY <1>9 DEF AccountInv
  <2>1. CASE s # t
    <3>1. \A n \in Nat : ~MayUse(r, s, n)'
      <4>1. \A n \in Nat : ~(1 <= n /\ n <= 0)
        OBVIOUS
      <4> QED
        BY <1>3, <1>6, <2>1, <4>1 DEF MayUse
    <3> QED
      BY <1>4, <1>8, <2>0, <2>1, <3>1, AccountOfFewer
  <2>2. CASE s = t
    <3>1. PICK credit :
            /\ Credits(credit, Users(t))
            /\ accepted[t] + credit[NumCodes] <= Uses[<<NumRequests, NumCodes>>]
      BY <2>0, <2>2 DEF Account
    <3>2. \A n \in Nat : MayUse(r, t, n)' <=> 1 <= n /\ n < Held(t)
      BY <1>3, <1>5 DEF MayUse
    <3>3. \A n \in Nat : MayUse(r, t, n) <=> n < Held(t)
      BY DEF MayUse
    <3>4. ASSUME NEW n \in Nat
          PROVE  /\ Users(t)'[n] <= Users(t)[n]
                 /\ n = 0 => Users(t)'[n] = Users(t)[n] - 1
      <4> DEFINE A == {q \in Requests : MayUse(q, t, n)}
                 B == {q \in Requests : MayUse(q, t, n)'}
      <4>1. B \subseteq A /\ A \subseteq Requests
        BY <1>8, <3>2, <3>3
      <4>2. n = 0 => r \in A /\ B = A \ {r}
        <5> SUFFICES ASSUME n = 0 PROVE r \in A /\ B = A \ {r}
          OBVIOUS
        <5>1. MayUse(r, t, n) /\ ~MayUse(r, t, n)'
          BY <1>5, <3>2, <3>3
        <5> QED
          BY <1>8, <5>1
      <4>3. Users(t)[n] = Cardinality(A) /\ Users(t)'[n] = Cardinality(B)
        BY DEF Users
      <4> HIDE DEF A, B
      <4>4. Cardinality(B) <= Cardinality(A)
        BY <4>1, FS_Subset
      <4>5. n = 0 => Cardinality(B) = Cardinality(A) - 1
        BY <4>1, <4>2, FS_Subset, FS_RemoveElement
      <4> QED
        BY <4>3, <4>4, <4>5
    <3>5. PICK d : /\ Credits(d, Users(t)')
                   /\ \A n \in Nat \ {0} : d[n] = credit[n] - 1
      BY <3>1, <3>4, UsersType, CreditOfLogin
    <3>6. d[NumCodes] = credit[NumCodes] - 1
      BY <1>5, <3>5
    <3>7. credit[NumCodes] \in Int /\ accepted[t] \in Int
      BY <1>1, <3>1 DEF Credits, TypeOK
    <3>8. NumRequests \in Nat /\ Uses[<<NumRequests, NumCodes>>] \in Nat
      BY UsesEquation, FS_CardinalityType DEF NumRequests
    <3>9. accepted'[t] + d[NumCodes] <= Uses[<<NumRequests, NumCodes>>]
      BY <1>4, <3>1, <3>6, <3>7, <3>8
    <3> QED
      BY <2>2, <3>5, <3>9 DEF Account, NumRequests
  <2> QED
    BY <2>1, <2>2
<1> QED
  BY <1>7, <1>9 DEF AccountInv

\* The same, from who they are: Waits[n] are the others with a write-back before
\* them that may use the (n+1)st code, Free those without one.
WriteBackSets(r, kept, Free, Waits, Before, After) ==
  /\ Free \subseteq Requests \ {r}
  /\ Waits \in [Nat -> SUBSET (Requests \ {r})]
  /\ Before \in [Nat -> SUBSET Requests] /\ After \in [Nat -> SUBSET Requests]
  /\ Waits[0] = {}
  /\ \A n \in Nat : Waits[n] \cap Free = {}
  /\ \A n \in 1 .. kept : Waits[kept] \subseteq Waits[n] /\ Waits[n] \cup {r} \subseteq Before[n]
  /\ \A n \in 0 .. kept - 1 : After[n] = Waits[n] \cup (Free \cup {r})
  /\ \A n \in Nat : n >= kept => After[n] = Waits[n]
  /\ \A n \in Nat : n > kept => After[n] \subseteq Before[n]

LEMMA WriteBackCounts ==
  ASSUME NEW r \in Requests, NEW kept \in Nat \ {0},
         NEW Free, NEW Waits, NEW Before, NEW After,
         WriteBackSets(r, kept, Free, Waits, Before, After)
  PROVE  LET Counts(f) == [n \in Nat |-> Cardinality(f[n])]
         IN  /\ Counts(Waits) \in [Nat -> Nat] /\ Cardinality(Free) \in Nat
             /\ WriteBackUsers(Counts(Before), Counts(After), Counts(Waits),
                               Cardinality(Free), kept)
<1> DEFINE Counts(f) == [n \in Nat |-> Cardinality(f[n])]
           free == Cardinality(Free)
<1>1. ASSUME NEW A, A \subseteq Requests
      PROVE  IsFiniteSet(A) /\ Cardinality(A) \in Nat
  BY <1>1, FS_Subset, FS_CardinalityType
<1>2. ASSUME NEW A, NEW B, A \subseteq B, B \subseteq Requests
      PROVE  Cardinality(A) <= Cardinality(B)
  BY <1>1, <1>2, FS_Subset
<1>0. /\ kept \in Nat /\ 0 \in 0 .. kept - 1
      /\ \A n \in 1 .. kept : n \in Nat
      /\ \A n \in 1 .. kept - 1 : n \in 0 .. kept - 1
  OBVIOUS
<1>s. /\ Free \subseteq Requests
      /\ \A n \in Nat : Waits[n] \subseteq Requests /\ Before[n] \subseteq Requests
  BY DEF WriteBackSets
<1>3. Cardinality(Requests \ {r}) = NumRequests - 1 /\ NumRequests \in Nat
  BY FS_RemoveElement, FS_CardinalityType DEF NumRequests
<1>4. free \in Nat /\ \A n \in Nat : Cardinality(Waits[n]) \in Nat
  BY <1>1, <1>s
<1>5. ASSUME NEW n \in Nat
      PROVE  /\ Cardinality(Waits[n]) + free + 1 <= NumRequests
             /\ Cardinality(Waits[n] \cup (Free \cup {r})) = Cardinality(Waits[n]) + free + 1
             /\ Cardinality(Waits[n] \cup {r}) = Cardinality(Waits[n]) + 1
  <2> DEFINE W == Waits[n]
  <2>1. /\ W \subseteq Requests \ {r} /\ W \cap Free = {}
        /\ Free \subseteq Requests \ {r}
    BY DEF WriteBackSets
  <2> HIDE DEF W
  <2>2. IsFiniteSet(W) /\ IsFiniteSet(Free) /\ Cardinality(W) \in Nat
    BY <1>1, <2>1
  <2>3. /\ IsFiniteSet(W \cup Free)
        /\ Cardinality(W \cup Free) = Cardinality(W) + Cardinality(Free) - Cardinality(W \cap Free)
    BY <2>2, FS_Union
  <2>4. Cardinality(W \cap Free) = 0
    BY <2>1, FS_EmptySet
  <2>5. Cardinality(W \cup Free) = Cardinality(W) + free
    BY <1>4, <2>2, <2>3, <2>4
  <2>6. Cardinality(W \cup Free) <= NumRequests - 1
    <3>1. W \cup Free \subseteq Requests \ {r} /\ Requests \ {r} \subseteq Requests
      BY <2>1
    <3> QED
      BY <1>2, <1>3, <3>1
  <2>7. Cardinality((W \cup Free) \cup {r}) = Cardinality(W \cup Free) + 1
    <3>1. r \notin W \cup Free
      BY <2>1
    <3> QED
      BY <2>3, <3>1, FS_AddElement
  <2>8. (W \cup Free) \cup {r} = W \cup (Free \cup {r})
    OBVIOUS
  <2>9. Cardinality(W \cup {r}) = Cardinality(W) + 1
    <3>1. r \notin W
      BY <2>1
    <3> QED
      BY <2>2, <3>1, FS_AddElement
  <2>10. /\ Cardinality(W) + free + 1 <= NumRequests
         /\ Cardinality(W \cup (Free \cup {r})) = Cardinality(W) + free + 1
    <3>1. Cardinality(W \cup (Free \cup {r})) = Cardinality(W \cup Free) + 1
      BY <2>7, <2>8
    <3> HIDE DEF free
    <3> QED
      BY <1>3, <1>4, <2>2, <2>5, <2>6, <3>1
  <2> QED
    BY <2>9, <2>10 DEF W
<1>6. /\ \A n \in Nat : Counts(Waits)[n] = Cardinality(Waits[n])
      /\ \A n \in Nat : Counts(Before)[n] = Cardinality(Before[n])
      /\ \A n \in Nat : Counts(After)[n] = Cardinality(After[n])
  OBVIOUS
<1>7. Counts(Waits) \in [Nat -> Nat]
  BY <1>4
<1> HIDE DEF Counts, free
<1>8. ASSUME NEW n \in 1 .. kept
      PROVE  /\ Counts(Waits)[kept] <= Counts(Waits)[n]
             /\ Counts(Waits)[n] + 1 <= Counts(Before)[n]
  <2>1. n \in Nat /\ kept \in Nat
    OBVIOUS
  <2>2. Waits[kept] \subseteq Waits[n] /\ Waits[n] \subseteq Requests
    BY <1>s, <2>1 DEF WriteBackSets
  <2>3. Waits[n] \cup {r} \subseteq Before[n] /\ Before[n] \subseteq Requests
    BY <1>s, <2>1 DEF WriteBackSets
  <2>4. Cardinality(Waits[kept]) <= Cardinality(Waits[n])
    BY <1>2, <2>2
  <2>5. Cardinality(Waits[n] \cup {r}) <= Cardinality(Before[n])
    BY <1>2, <2>3
  <2> QED
    BY <1>4, <1>5, <1>6, <2>1, <2>4, <2>5
<1>9. Counts(After)[0] <= free + 1
  <2>1. After[0] = Waits[0] \cup (Free \cup {r}) /\ Waits[0] = {}
    BY <1>0 DEF WriteBackSets
  <2>0. Cardinality(Waits[0]) = 0
    BY <2>1, FS_EmptySet
  <2>2. Cardinality(After[0]) = Cardinality(Waits[0]) + free + 1
    BY <1>5, <2>1
  <2> QED
    BY <1>4, <1>6, <2>0, <2>2
<1>10. ASSUME NEW n \in 1 .. kept - 1
       PROVE  Counts(After)[n] <= Counts(Waits)[n] + free + 1
  <2>1. n \in Nat /\ n \in 0 .. kept - 1
    OBVIOUS
  <2>2. Cardinality(After[n]) = Cardinality(Waits[n]) + free + 1
    BY <1>5, <2>1 DEF WriteBackSets
  <2> QED
    BY <1>4, <1>6, <2>1, <2>2
<1>11. Counts(After)[kept] <= Counts(Waits)[kept]
  <2>1. kept \in Nat /\ After[kept] = Waits[kept]
    BY <1>0 DEF WriteBackSets
  <2> QED
    BY <1>4, <1>6, <2>1
<1>12. ASSUME NEW n \in Nat, n > kept PROVE Counts(After)[n] <= Counts(Before)[n]
  <2>1. After[n] \subseteq Before[n] /\ Before[n] \subseteq Requests
    BY <1>12, <1>s DEF WriteBackSets
  <2> QED
    BY <1>2, <1>6, <2>1
<1>13. WriteBackUsers(Counts(Before), Counts(After), Counts(Waits), free, kept)
  BY <1>5, <1>6, <1>8, <1>9, <1>10, <1>11, <1>12 DEF WriteBackUsers
<1> QED
  BY <1>4, <1>7, <1>13 DEF Counts, free

\* A write-back that takes effect.
LEMMA WriteBackStep ==
  ASSUME TypeOK, CodesInv, AccountInv,
         NEW r \in Requests, request[r].step = "writeback",
         user' = [user EXCEPT !.codes = request[r].left],
         request' = [request EXCEPT ![r].step = "session", ![r].left = {}],
         UNCHANGED <<issued, accepted, lost>>
  PROVE  CodesInv' /\ AccountInv'
<1>1. /\ user'.codes = request[r].left
      /\ request'[r].step = "session" /\ request'[r].left = {}
      /\ \A q \in Requests \ {r} : request'[q] = request[q]
  BY DEF TypeOK
<1>2. CodesInv'
  <2>1. OneSetUp(user'.codes)
    BY <1>1 DEF CodesInv, OneSetUp
  <2>2. ASSUME NEW q \in Requests, request'[q].step = "writeback"
        PROVE  OneSetUp(request'[q].left) /\ \A s \in Secrets : Kept(q, s)' < NumCodes
    BY <1>1, <2>2 DEF CodesInv, OneSetUp, Kept
  <2>3. ASSUME NEW s \in Secrets, s > issued'
        PROVE  /\ accepted'[s] = 0
               /\ user'.codes \cap CodesOf(s) = {}
               /\ \A q \in Requests : request'[q].left \cap CodesOf(s) = {}
    BY <1>1, <2>3 DEF CodesInv
  <2> QED
    BY <2>1, <2>2, <2>3 DEF CodesInv, OneSetUp, Kept
<1>3. \A s \in Secrets : Held(s)' = Kept(r, s)
  BY <1>1 DEF Held, Kept
<1>4. ASSUME lost' = 0, NEW s \in Secrets PROVE Account(s)'
  <2> DEFINE kept == Kept(r, s)
             Waits(n) == {q \in Requests \ {r} : /\ request[q].step = "writeback"
                                                 /\ 1 <= n /\ n <= Kept(q, s)}
             Free == {q \in Requests \ {r} : request[q].step # "writeback"}
  <2>0. Account(s)
    BY <1>4 DEF AccountInv
  <2>k. kept \in Nat /\ kept < NumCodes
    BY HeldTypes DEF CodesInv
  <2>q. \A q \in Requests : Kept(q, s) \in Nat /\ Held(s) \in Nat
    BY HeldTypes
\* Who may use which code, before and after.
  <2>1. \A n \in Nat : {q \in Requests : MayUse(q, s, n)} =
          Waits(n) \cup (IF n < Held(s) THEN Free ELSE {})
                   \cup (IF 1 <= n /\ n <= kept THEN {r} ELSE {})
    BY DEF MayUse
  <2>2. \A n \in Nat : {q \in Requests : MayUse(q, s, n)'} =
          Waits(n) \cup (IF n < kept THEN Free \cup {r} ELSE {})
    BY <1>1, <1>3 DEF MayUse, Kept
  <2>3. CASE kept = 0
    <3>1. \A q \in Requests, n \in Nat : MayUse(q, s, n)' => MayUse(q, s, n)
      <4>1. \A n \in Nat : {q \in Requests : MayUse(q, s, n)'} \subseteq
                             {q \in Requests : MayUse(q, s, n)}
        BY <2>1, <2>2, <2>3
      <4> QED
        BY <4>1
    <3> QED
      BY <2>0, <3>1, AccountOfFewer
  <2>4. CASE kept # 0
    <3> DEFINE Waiting == [n \in Nat |-> Waits(n)]
               Before == [n \in Nat |-> {q \in Requests : MayUse(q, s, n)}]
               After == [n \in Nat |-> {q \in Requests : MayUse(q, s, n)'}]
               Counts(f) == [n \in Nat |-> Cardinality(f[n])]
               free == Cardinality(Free)
    <3>1. PICK credit :
            /\ Credits(credit, Users(s))
            /\ accepted[s] + credit[NumCodes] <= Uses[<<NumRequests, NumCodes>>]
      BY <2>0 DEF Account
    <3>2. /\ Free \subseteq Requests \ {r}
          /\ Waiting \in [Nat -> SUBSET (Requests \ {r})]
          /\ Before \in [Nat -> SUBSET Requests] /\ After \in [Nat -> SUBSET Requests]
      OBVIOUS
    <3>3. Waiting[0] = {} /\ \A n \in Nat : Waiting[n] \cap Free = {}
      OBVIOUS
    <3>4. \A n \in 1 .. kept : Waiting[kept] \subseteq Waiting[n]
                               /\ Waiting[n] \cup {r} \subseteq Before[n]
      BY <2>k, <2>q, <2>1
    <3>5. /\ \A n \in 0 .. kept - 1 : After[n] = Waiting[n] \cup (Free \cup {r})
          /\ \A n \in Nat : n >= kept => After[n] = Waiting[n]
      BY <2>k, <2>2
    <3>6. \A n \in Nat : n > kept => After[n] \subseteq Before[n]
      BY <2>k, <2>1, <2>2
    <3>7. kept \in Nat \ {0} /\ kept \in 1 .. NumCodes - 1
      BY <2>k, <2>4
    <3>8. Users(s) = Counts(Before) /\ Users(s)' = Counts(After)
      BY DEF Users
    <3> HIDE DEF Waiting, Before, After, Free, kept
    <3>p. WriteBackSets(r, kept, Free, Waiting, Before, After)
      BY <3>2, <3>3, <3>4, <3>5, <3>6 DEF WriteBackSets
    <3>9. /\ Counts(Waiting) \in [Nat -> Nat] /\ free \in Nat
          /\ WriteBackUsers(Counts(Before), Counts(After), Counts(Waiting), free, kept)
      BY <3>7, <3>p, WriteBackCounts
    <3> HIDE DEF Counts, free
    <3>10. WriteBackUsers(Users(s), Users(s)', Counts(Waiting), free, kept)
      BY <3>8, <3>9
    <3>u. /\ Users(s) \in [Nat -> 0 .. NumRequests]
          /\ Users(s)' \in [Nat -> 0 .. NumRequests]
      BY UsersType
    <3>11. PICK d : Credits(d, Users(s)') /\ d[NumCodes] = credit[NumCodes]
      BY <2>k, <3>1, <3>7, <3>9, <3>10, <3>u, CreditOfWriteBack
    <3> QED
      BY <3>1, <3>11 DEF Account, NumRequests
  <2> QED
    BY <2>3, <2>4
<1> QED
  BY <1>2, <1>4 DEF AccountInv

\* A set-up that takes effect: its codes have not been used, and those of the
\* set-up before it leave the row.
LEMMA SetupStep ==
  ASSUME TypeOK, CodesInv, AccountInv,
         issued < MaxSetups, issued' = issued + 1, user' = SetUp(issued'),
         UNCHANGED <<request, accepted, lost>>
  PROVE  CodesInv' /\ AccountInv'
<1>1. issued' \in Secrets /\ issued' > issued /\ issued \in Int
  BY DEF TypeOK, Secrets
<1>2. user'.codes = CodesOf(issued')
  BY DEF TypeOK, SetUp
<1>3. CodesInv'
  <2>1. OneSetUp(user'.codes)
    BY <1>1, <1>2 DEF OneSetUp
  <2>2. ASSUME NEW q \in Requests, request'[q].step = "writeback"
        PROVE  OneSetUp(request'[q].left) /\ \A s \in Secrets : Kept(q, s)' < NumCodes
    BY <2>2 DEF CodesInv, OneSetUp, Kept
  <2>3. ASSUME NEW s \in Secrets, s > issued'
        PROVE  /\ accepted'[s] = 0
               /\ user'.codes \cap CodesOf(s) = {}
               /\ \A q \in Requests : request'[q].left \cap CodesOf(s) = {}
    <3>1. s > issued /\ s # issued'
      BY <1>1, <2>3 DEF Secrets
    <3>2. CodesOf(issued') \cap CodesOf(s) = {}
      BY <1>1, <3>1, CodesDisjoint
    <3> QED
      BY <1>2, <3>1, <3>2 DEF CodesInv
  <2> QED
    BY <2>1, <2>2, <2>3 DEF CodesInv, OneSetUp, Kept
<1>4. ASSUME lost' = 0, NEW s \in Secrets PROVE Account(s)'
  <2>1. CASE s = issued'
    <3>1. accepted'[s] = 0
      BY <1>1, <2>1 DEF CodesInv
    <3>2. Users(s)' \in [Nat -> 0 .. NumRequests]
      BY UsersType
    <3>3. PICK credit : /\ Credits(credit, Users(s)')
                        /\ credit[NumCodes] = Uses[<<NumRequests, NumCodes>>]
      BY <3>2, AccountAnew
    <3>4. NumRequests \in Nat /\ Uses[<<NumRequests, NumCodes>>] \in Nat
      BY UsesEquation, FS_CardinalityType DEF NumRequests
    <3> QED
      BY <3>1, <3>3, <3>4 DEF Account, NumRequests
  <2>2. CASE s # issued'
    <3>1. user'.codes \cap CodesOf(s) = {}
      BY <1>1, <1>2, <2>2, CodesDisjoint
    <3>2. Held(s)' = 0
      BY <3>1, FS_EmptySet DEF Held
    <3>3. ASSUME NEW r \in Requests, NEW n \in Nat, MayUse(r, s, n)'
          PROVE  MayUse(r, s, n)
      <4>1. ~(n < 0)
        OBVIOUS
      <4> QED
        BY <3>2, <3>3, <4>1 DEF MayUse, Kept
    <3>4. Account(s)
      BY <1>4 DEF AccountInv
    <3> QED
      BY <3>3, <3>4, AccountOfFewer
  <2> QED
    BY <2>1, <2>2
<1> QED
  BY <1>3, <1>4 DEF AccountInv

LEMMA AccountInit == Init => CodesInv /\ AccountInv
<1> SUFFICES ASSUME Init PROVE CodesInv /\ AccountInv
  OBVIOUS
<1>1. /\ user.codes = {} /\ issued = 0
      /\ \A r \in Requests : request[r].left = {} /\ request[r].step # "writeback"
      /\ \A s \in Secrets : accepted[s] = 0
  BY DEF Init, Idle
<1>2. CodesInv
  BY <1>1 DEF CodesInv
<1>3. ASSUME NEW s \in Secrets PROVE Account(s)
  <2>1. PICK credit : /\ Credits(credit, Users(s))
                      /\ credit[NumCodes] = Uses[<<NumRequests, NumCodes>>]
    BY UsersType, AccountAnew
  <2>2. NumRequests \in Nat /\ Uses[<<NumRequests, NumCodes>>] \in Nat
    BY UsesEquation, FS_CardinalityType DEF NumRequests
  <2> QED
    BY <1>1, <2>1, <2>2 DEF Account
<1> QED
  BY <1>2, <1>3 DEF AccountInv

LEMMA AccountStep ==
  TypeOK /\ CodesInv /\ AccountInv /\ [Next]_vars => CodesInv' /\ AccountInv'
<1> SUFFICES ASSUME TypeOK, CodesInv, AccountInv, [Next]_vars
             PROVE  CodesInv' /\ AccountInv'
  OBVIOUS
<1>0. /\ lost \in Nat /\ \A r \in Requests : request[r] \in Entry
      /\ request \in [Requests -> Entry]
  BY DEF TypeOK, Entry
<1>1. ASSUME NEW r \in Requests, AdminLogin(r) \/ OperatorLogin(r)
      PROVE  CodesInv' /\ AccountInv'
  <2>1. PICK codeRequired : Login(r, codeRequired)
    BY <1>1 DEF AdminLogin, OperatorLogin
  <2>2. request[r].step = "idle" /\ UNCHANGED <<user, issued, lost>>
    BY <2>1 DEF Login
  <2>3. CASE WithoutCode(r)
    <3>1. \A q \in Requests :
            /\ (request'[q].step = "writeback") <=> (request[q].step = "writeback")
            /\ request'[q].left = request[q].left
      BY <1>0, <2>2, <2>3 DEF WithoutCode, Entry
    <3>2. accepted' = accepted
      BY <2>3 DEF WithoutCode
    <3> QED
      BY <2>2, <3>1, <3>2, QuietStep
  <2>4. CASE \E c \in user.codes :
               /\ request' = [request EXCEPT ![r].step = "writeback",
                                             ![r].password = user.password,
                                             ![r].left = Remaining(c)]
               /\ accepted' = [accepted EXCEPT ![SetupOf(c)] = @ + 1]
    BY <2>2, <2>4, AcceptStep
  <2> QED
    BY <2>1, <2>3, <2>4 DEF Login, WithCode
<1>2. ASSUME NEW r \in Requests, WriteBack(r)
      PROVE  CodesInv' /\ AccountInv'
  <2>1. /\ request[r].step = "writeback" /\ UNCHANGED <<issued, accepted>>
        /\ request' = [request EXCEPT ![r].step = "session", ![r].left = {}]
        /\ Update([user EXCEPT !.codes = request[r].left])
    BY <1>2 DEF WriteBack, history
  <2>2. CASE lost' = lost /\ user' = [user EXCEPT !.codes = request[r].left]
    BY <2>1, <2>2, WriteBackStep
  <2>3. CASE lost' = lost + 1 /\ user' = user
    <3>1. \A q \in Requests :
            /\ request'[q].left \subseteq request[q].left
            /\ request'[q].step = "writeback" => request'[q] = request[q]
      BY <1>0, <2>1 DEF Entry
    <3>2. CodesInv'
      BY <2>1, <2>3, <3>1 DEF CodesInv, OneSetUp, Kept
    <3>3. AccountInv'
      BY <1>0, <2>3 DEF AccountInv
    <3> QED
      BY <3>2, <3>3
  <2> QED
    BY <2>1, <2>2, <2>3 DEF Update
<1>3. ASSUME NEW r \in Requests,
             CreatePortalSession(r) \/ VerifyMFA(r) \/ EnableMFA(r)
      PROVE  CodesInv' /\ AccountInv'
  <2>1. /\ request[r].step # "writeback" /\ request'[r].step # "writeback"
        /\ request'[r].left \subseteq request[r].left
        /\ \A q \in Requests \ {r} : request'[q] = request[q]
    BY <1>0, <1>3 DEF CreatePortalSession, VerifyMFA, EnableMFA, Idle, Entry
  <2>2. /\ accepted' = accepted /\ issued' = issued
        /\ user'.codes = user.codes
    BY <1>3 DEF CreatePortalSession, VerifyMFA, EnableMFA, Update, TypeOK
  <2>3. lost' = 0 => lost = 0
    BY <1>0, <1>3 DEF CreatePortalSession, VerifyMFA, EnableMFA, Update
  <2> QED
    BY <2>1, <2>2, <2>3, QuietStep
<1>4. CASE SetupMFA
  <2>1. /\ issued < MaxSetups /\ issued' = issued + 1 /\ Update(SetUp(issued'))
        /\ UNCHANGED <<request, accepted>>
    BY <1>4 DEF SetupMFA
  <2>2. CASE lost' = lost /\ user' = SetUp(issued')
    BY <2>1, <2>2, SetupStep
  <2>3. CASE lost' = lost + 1 /\ user' = user
    <3>1. \A s \in Secrets : s > issued' => s > issued
      BY <2>1 DEF TypeOK, Secrets
    <3>2. CodesInv'
      BY <2>1, <2>3, <3>1 DEF CodesInv, OneSetUp, Kept
    <3>3. AccountInv'
      BY <1>0, <2>3 DEF AccountInv
    <3> QED
      BY <3>2, <3>3
  <2> QED
    BY <2>1, <2>2, <2>3 DEF Update
<1>5. CASE DisableMFA \/ ResetUserMFA \/ DeleteUser \/ ResetUserPassword
  <2>1. /\ request' = request /\ accepted' = accepted /\ issued' = issued
        /\ lost' = 0 => lost = 0
    BY <1>0, <1>5
       DEF DisableMFA, ResetUserMFA, DeleteUser, ResetUserPassword, Update
  <2>2. user'.codes \subseteq user.codes
    BY <1>5
       DEF DisableMFA, ResetUserMFA, DeleteUser, ResetUserPassword, Update, TypeOK
  <2> QED
    BY <2>1, <2>2, QuietStep
<1>6. ASSUME NEW role \in Roles, NEW active \in BOOLEAN, UpdateUser(role, active)
      PROVE  CodesInv' /\ AccountInv'
  <2>1. /\ request' = request /\ accepted' = accepted /\ issued' = issued
        /\ lost' = lost /\ user'.codes = user.codes
    BY <1>6 DEF UpdateUser, TypeOK
  <2> QED
    BY <2>1, QuietStep
<1>7. CASE UNCHANGED vars
  BY <1>7, QuietStep DEF vars, history
<1> QED
  BY <1>1, <1>2, <1>3, <1>4, <1>5, <1>6, <1>7 DEF Next

\* The logins that the codes of one set-up are good for, however logins overlap
\* and whatever is set up, disabled or reset meanwhile, as long as no UPDATE
\* fails: for every number of requests and of codes.
THEOREM AcceptancesAreBounded == Spec => []AcceptancesBounded
<1>1. TypeOK /\ AccountInv => AcceptancesBounded
  <2> SUFFICES ASSUME TypeOK, AccountInv, lost = 0, NEW s \in Secrets
               PROVE  accepted[s] <= Uses[<<NumRequests, NumCodes>>]
    BY DEF AcceptancesBounded, NumRequests
  <2>1. PICK credit :
          /\ Credits(credit, Users(s))
          /\ accepted[s] + credit[NumCodes] <= Uses[<<NumRequests, NumCodes>>]
    BY DEF AccountInv, Account
  <2>2. credit[NumCodes] \in Nat
    BY <2>1, UsersType, CreditNotNegative
  <2>3. accepted[s] \in Nat /\ Uses[<<NumRequests, NumCodes>>] \in Nat
    BY UsesEquation, FS_CardinalityType DEF TypeOK, NumRequests
  <2> QED
    BY <2>1, <2>2, <2>3
<1> QED
  BY <1>1, AccountInit, AccountStep, TypeInit, TypeStep, PTL DEF Spec

\* One request by itself uses each code once.
LEMMA UsesAlone == \A n \in Nat : Uses[<<1, n>>] = n
<1> DEFINE T == {n \in Nat : Uses[<<1, n>>] = n}
<1>1. 0 \in T
  BY UsesValues
<1>2. ASSUME NEW n \in Nat, n \in T PROVE n + 1 \in T
  <2>1. n + 1 \in Nat /\ 0 \in Nat /\ 0 + 1 = 1
    OBVIOUS
  <2>2. Uses[<<0 + 1, n + 1>>] = 1 + Uses[<<0, n + 1>>] + Uses[<<0 + 1, n>>]
    BY <2>1, UsesValues
  <2>3. Uses[<<0, n + 1>>] = 0
    BY <2>1, UsesValues
  <2> QED
    BY <1>2, <2>1, <2>2, <2>3
<1> HIDE DEF T
<1>3. \A n \in Nat : n \in T
  BY <1>1, <1>2, EveryNumber
<1> QED
  BY <1>3 DEF T

\* Logins that do not overlap are accepted with each code once, as the
\* specification of the second factor says: the acceptances beyond that are all
\* by overlapping requests or lost UPDATEs.
THEOREM OneAtATime ==
  ASSUME Cardinality(Requests) = 1
  PROVE  Spec => [](lost = 0 => \A s \in Secrets : accepted[s] <= NumCodes)
<1>1. AcceptancesBounded => (lost = 0 => \A s \in Secrets : accepted[s] <= NumCodes)
  BY UsesAlone DEF AcceptancesBounded
<1> QED
  BY <1>1, AcceptancesAreBounded, PTL

=============================================================================
