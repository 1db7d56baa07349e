----------------------------- MODULE StaffLogin -----------------------------
(***************************************************************************)
(* The second factor of one member of staff: the row of users that both    *)
(* the admin and the operator gateway read and write, the logins under way *)
(* at either, and the handlers that set up, verify, disable and reset MFA  *)
(* or change the user and the password.                                    *)
(*                                                                         *)
(* A login works on a copy of the row: it takes the code that was entered  *)
(* out of the copied list of backup codes and later writes the rest of the *)
(* list back, over whatever is there by then.  A verification checks a     *)
(* code against the secret it has read and later switches MFA on, whatever *)
(* the secret is by then.  Logins begin with the right password: what      *)
(* becomes of wrong ones is in Lockout.                                    *)
(***************************************************************************)
EXTENDS Integers, FiniteSets

CONSTANTS
  Requests,   \* logins and verifications, in the order of their arrival
  Roles,      \* roles.code
  NumCodes,   \* backup codes per set-up, 8 in the code
  MaxSetups,  \* bound of the model: secrets generated
  MaxResets,  \* bound of the model: passwords reset
  MaxLost     \* bound of the model: UPDATEs that fail

ASSUME RequestsAssumption == IsFiniteSet(Requests)
ASSUME BoundsAssumption ==
  NumCodes \in Nat /\ MaxSetups \in Nat /\ MaxResets \in Nat /\ MaxLost \in Nat

\* Set-ups are numbered, and so are their secrets and codes.
NoSecret == 0
Secrets == 1 .. MaxSetups
Codes == 1 .. NumCodes * MaxSetups

\* A slip to compare with: one code too many.
CodesOfAndOneMore(s) == NumCodes * (s - 1) + 1 .. NumCodes * s + 1
CodesOf(s) == NumCodes * (s - 1) + 1 .. NumCodes * s

SetupOf(c) == CHOOSE s \in Secrets : c \in CodesOf(s)

VARIABLES
  user,      \* the row of users
  request,   \* request[r]: its next statement, and what it is to write
  issued,    \* how many secrets have been generated
  accepted,  \* history: accepted[s]: logins with a backup code of set-up s
  proved,    \* history: secrets for which a valid code was entered
  stale,     \* history: MFA is on by a verification of another secret
  late,      \* history: sessions, since the last deactivation or reset of the
             \* password, while the user is inactive or with an old password
  lost       \* how many UPDATEs have failed

history == <<accepted, proved, stale, late>>
vars == <<user, request, issued, history, lost>>

TypeOK ==
  /\ user \in [active : BOOLEAN, role : Roles, password : 0 .. MaxResets,
               enabled : BOOLEAN, secret : Secrets \cup {NoSecret},
               codes : SUBSET Codes]
  /\ request \in [Requests -> [step : {"idle", "writeback", "session", "enable"},
                               password : 0 .. MaxResets, left : SUBSET Codes,
                               secret : Secrets \cup {NoSecret}]]
  /\ issued \in 0 .. MaxSetups
  /\ accepted \in [Secrets -> Nat]
  /\ proved \in SUBSET Secrets
  /\ stale \in BOOLEAN
  /\ late \in Nat
  /\ lost \in 0 .. MaxLost

-----------------------------------------------------------------------------

Idle == [step |-> "idle", password |-> 0, left |-> {}, secret |-> NoSecret]

Init ==
  /\ user \in [active : {TRUE}, role : Roles, password : {0}, enabled : {FALSE},
               secret : {NoSecret}, codes : {{}}]  \* as CreateUser inserts it
  /\ request = [r \in Requests |-> Idle]
  /\ issued = 0
  /\ accepted = [s \in Secrets |-> 0]
  /\ proved = {}
  /\ stale = FALSE
  /\ late = 0
  /\ lost = 0

\* An UPDATE of the row takes effect, or fails and its error is dropped.  (It
\* fires the audit trigger; see AuditAccepts in Lockout.)
Update(row) ==
  \/ user' = row /\ UNCHANGED lost
  \/ user' = user /\ lost < MaxLost /\ lost' = lost + 1

-----------------------------------------------------------------------------
(***************************************************************************)
(* Login.  One that is refused changes nothing of this.                    *)
(***************************************************************************)

\* A slip to compare with: the SELECT of Authenticate without is_active.
AuthenticateInactive == TRUE

\* StaffAuth.Authenticate, up to the lock and the password.
Authenticate == user.active

\* The codes that remain of the copy.  Slips to compare with: the list of all
\* codes is filtered; a list that would be empty is not written.
RemainingOfAll(c) == CodesOf(SetupOf(c)) \ {c}
RemainingUnlessEmpty(c) == IF user.codes = {c} THEN {c} ELSE user.codes \ {c}
Remaining(c) == user.codes \ {c}

WithoutCode(r) ==
  /\ request' = [request EXCEPT ![r].step = "session",
                                ![r].password = user.password]
  /\ UNCHANGED accepted

\* TOTP first, then the backup codes.  Without a secret the login is refused.
WithCode(r) ==
  /\ user.secret # NoSecret
  /\ \/ WithoutCode(r)
     \/ \E c \in user.codes :
          /\ request' = [request EXCEPT ![r].step = "writeback",
                                        ![r].password = user.password,
                                        ![r].left = Remaining(c)]
          /\ accepted' = [accepted EXCEPT ![SetupOf(c)] = @ + 1]

Login(r, codeRequired) ==
  /\ request[r].step = "idle"
  /\ Authenticate
  /\ IF codeRequired THEN WithCode(r) ELSE WithoutCode(r)
  /\ UNCHANGED <<user, issued, proved, stale, late, lost>>

AdminLogin(r) == Login(r, user.enabled)

OperatorLogin(r) ==
  Login(r, user.enabled /\ user.role \in {"admin", "reseller"})

\* UPDATE users SET mfa_backup_codes
WriteBack(r) ==
  /\ request[r].step = "writeback"
  /\ Update([user EXCEPT !.codes = request[r].left])
  /\ request' = [request EXCEPT ![r].step = "session", ![r].left = {}]
  /\ UNCHANGED <<issued, history>>

\* The INSERT takes effect or fails.
CreatePortalSession(r) ==
  /\ request[r].step = "session"
  /\ request' = [request EXCEPT ![r] = Idle]
  /\ \/ late' = IF user.active /\ user.password = request[r].password
                  THEN late ELSE late + 1
     \/ UNCHANGED late
  /\ UNCHANGED <<user, issued, accepted, proved, stale, lost>>

-----------------------------------------------------------------------------
(***************************************************************************)
(* The second factor.                                                      *)
(***************************************************************************)

\* Secret, codes and mfa_enabled in one statement.  A slip to compare with:
\* mfa_enabled stays.
SetUpStillEnabled(s) == [user EXCEPT !.secret = s, !.codes = CodesOf(s)]
SetUp(s) ==
  [user EXCEPT !.secret = s, !.codes = CodesOf(s), !.enabled = FALSE]

\* What was generated is shown to the user whether or not it is stored.
SetupMFA ==
  /\ issued < MaxSetups
  /\ issued' = issued + 1
  /\ Update(SetUp(issued'))
  /\ stale' = (stale /\ user'.enabled)
  /\ UNCHANGED <<request, accepted, proved, late>>

\* VerifyMFA reads the secret, and the code is valid for it.
VerifyMFA(r) ==
  /\ request[r].step = "idle"
  /\ user.secret # NoSecret
  /\ request' = [request EXCEPT ![r].step = "enable", ![r].secret = user.secret]
  /\ proved' = proved \cup {user.secret}
  /\ UNCHANGED <<user, issued, accepted, stale, late, lost>>

\* UPDATE users SET mfa_enabled = true
EnableMFA(r) ==
  /\ request[r].step = "enable"
  /\ Update([user EXCEPT !.enabled = TRUE])
  /\ stale' = IF user'.enabled /\ ~user.enabled
                THEN user.secret # request[r].secret
                ELSE stale
  /\ request' = [request EXCEPT ![r] = Idle]
  /\ UNCHANGED <<issued, accepted, proved, late>>

\* DisableMFA, of the user, and ResetUserMFA, of an administrator, which leaves
\* the backup codes.
DisableMFA ==
  /\ Update([user EXCEPT !.enabled = FALSE, !.secret = NoSecret, !.codes = {}])
  /\ stale' = (stale /\ user'.enabled)
  /\ UNCHANGED <<request, issued, accepted, proved, late>>

ResetUserMFA ==
  /\ Update([user EXCEPT !.enabled = FALSE, !.secret = NoSecret])
  /\ stale' = (stale /\ user'.enabled)
  /\ UNCHANGED <<request, issued, accepted, proved, late>>

-----------------------------------------------------------------------------
(***************************************************************************)
(* The user.                                                               *)
(***************************************************************************)

\* A deactivation or a new password ends what a login under way relied on.
CountLateAnew ==
  late' = IF \/ user.active /\ ~user'.active
             \/ user.password # user'.password
            THEN 0 ELSE late

\* PUT /users/:id: COALESCE leaves what the request does not name.
UpdateUser(role, active) ==
  /\ user' = [user EXCEPT !.role = role, !.active = active]
  /\ user' # user
  /\ CountLateAnew
  /\ UNCHANGED <<request, issued, accepted, proved, stale, lost>>

DeleteUser ==
  /\ Update([user EXCEPT !.active = FALSE])
  /\ CountLateAnew
  /\ UNCHANGED <<request, issued, accepted, proved, stale>>

\* A temporary password, shown to the administrator whether or not it is stored.
ResetUserPassword ==
  /\ user.password < MaxResets
  /\ Update([user EXCEPT !.password = @ + 1])
  /\ CountLateAnew
  /\ UNCHANGED <<request, issued, accepted, proved, stale>>

-----------------------------------------------------------------------------

Next ==
  \/ \E r \in Requests : \/ AdminLogin(r) \/ OperatorLogin(r)
                         \/ WriteBack(r) \/ CreatePortalSession(r)
                         \/ VerifyMFA(r) \/ EnableMFA(r)
  \/ SetupMFA \/ DisableMFA \/ ResetUserMFA
  \/ \E role \in Roles, active \in BOOLEAN : UpdateUser(role, active)
  \/ DeleteUser \/ ResetUserPassword

Spec == Init /\ [][Next]_vars

-----------------------------------------------------------------------------
(***************************************************************************)
(* Properties.                                                             *)
(***************************************************************************)

\* Codes that no login can be accepted with and no write-back brings back.
Gone == 1 .. NumCodes * issued
          \ (user.codes \cup UNION {request[r].left : r \in Requests})

\* A backup code that is neither in the row nor in the copy of a login under
\* way is used up for good: stale write-backs restore only what their own login
\* has read.
CodesGoForGood == [][Gone \subseteq Gone']_vars

\* The logins that k requests at a time can get out of n codes.  One of them
\* reads the row first and writes back last, when the others have used up all
\* n; its write-back then leaves n - 1 codes.
Uses[p \in Nat \X Nat] ==
  IF p[1] = 0 \/ p[2] = 0
    THEN 0
    ELSE 1 + Uses[<<p[1] - 1, p[2]>>] + Uses[<<p[1], p[2] - 1>>]

\* "One-time" codes may be accepted more than once, by overlapping logins and
\* because overlapping write-backs restore them; but the codes of one set-up are
\* good for no more than that many logins while no write-back is lost.
AcceptancesBounded ==
  lost = 0 => \A s \in Secrets : accepted[s] <= Uses[<<Cardinality(Requests), NumCodes>>]

\* MFA is switched on only with a secret for which a valid code was entered, so
\* that no login is refused for want of a secret; the one way around this is
\* that the secret is replaced or removed during the verification of another.
EnabledIsProved == user.enabled => user.secret \in proved \/ stale

\* A deactivated user, or one whose password was reset, gets no more sessions by
\* logging in the old way than logins were under way at the time.
LateSessionsBounded == late <= Cardinality(Requests)

=============================================================================
