---------------------------- MODULE AuthAccounts ----------------------------
(***************************************************************************)
(* Users, their authentication methods, sessions, enrolment grants and     *)
(* second factor (internal/auth, and its statements in internal/db).       *)
(*                                                                         *)
(* A request is served by a handler in a few steps: it is authenticated,   *)
(* reads the user it is about, maybe counts passkeys or reads the TOTP     *)
(* credential, and writes everything in one SERIALIZABLE transaction.      *)
(* Other requests run between the steps.  UpdateUser and SetUserDisabled   *)
(* compare and renew updated_at, so they fail exactly when the row was     *)
(* written since the request has read it.                                  *)
(*                                                                         *)
(* A passkey, a session, a challenge or a TOTP secret is a number that     *)
(* nobody else has or remembers.  Roles below admin are one, "member".     *)
(* Wrong passwords, assertions and codes, rate limits, used up attempts    *)
(* and expired challenges only make a request fail, as it may anyway.      *)
(***************************************************************************)
EXTENDS Naturals, FiniteSets

CONSTANTS
    Users,                  \* users that may ever exist
    Handlers,               \* requests that run at the same time
    Ops,                    \* the operations that this instance explores
    Ids,                    \* numbers for the challenges and secrets of a user
    SessionIds,             \* numbers for the sessions of a user
    Keys,                   \* numbers for the passkeys of a user
    MaxStep,                \* bound of the exploration: time steps of TOTP
    PasswordLoginEnabled,   \* the configuration of that name
    None

AdminOps == {"create", "update", "updateSelf", "disable", "enable", "issue"}
SelfOps == {"profile", "password", "noPassword", "passkey", "noPasskey", "setup", "confirm",
            "noTOTP", "logout", "logoutAll", "revoke", "revokeOthers"}
PublicOps == {"bootstrap", "enroll", "login", "totp"}
AllOps == AdminOps \cup SelfOps \cup PublicOps

Updates == {"update", "updateSelf", "profile"}

\* The operations whose transaction compares updated_at with what was read before it.
Guarded == Updates \cup {"disable", "enable", "password", "noPassword", "confirm", "noTOTP"}

\* The operations whose transaction names the session of the request.
SessionOps == {"passkey", "logout", "revoke", "revokeOthers"}

Roles == {"admin", "member"}
Steps == 1..MaxStep

\* The columns of users that count here; required is totp_required.
Row == [role : Roles, disabled : BOOLEAN, password : BOOLEAN, required : BOOLEAN]

\* The row of totp_credentials; last is last_accepted_timestep, 0 for NULL.
Credential == [secret : Ids, confirmed : BOOLEAN, last : Nat]

\* What UpdateUserInput asks for: another role, a password, or none any more.
Input == [role : Roles \cup {None}, password : {"keep", "set", "unset"}]

\* A code that was found valid: the secret and the time step it belongs to.
Code == [secret : Ids, step : Steps]

ASSUME OpsAssumption == Ops \subseteq AllOps
ASSUME UsersAssumption == IsFiniteSet(Users)
ASSUME BoundsAssumption ==
    Ids # {} /\ MaxStep \in Nat \ {0} /\ PasswordLoginEnabled \in BOOLEAN
ASSUME NoneAssumption ==
    /\ None \notin Users \cup Ids \cup SessionIds \cup Keys \cup Row \cup Roles \cup Code
    /\ None \notin Credential \cup Input

VARIABLES
    \* The tables.
    created,    \* users that have a row
    row,
    passkeys,   \* of each user
    totp,       \* the TOTP credential of each user, or None
    sessions,   \* the sessions of each user that are not revoked
    grant,      \* the enrolment grant of each user, or None
    pending,    \* the challenges of each user that wait for a code
    now,        \* the time step of the clock
    \* The requests.
    pc,         \* where each handler is
    op,         \* its operation, or None
    target,     \* the user it is about, or None
    sess,       \* the session its transaction names, or None
    seen,       \* the row it has read, or None
    overtaken,  \* handlers for which updated_at is no longer what they have read
    input,      \* what an update asks for, or None
    held,       \* the passkey, grant or pending challenge it works with, or None
    code,       \* the code it has verified, or None
    \* History, for the properties only.
    founders,   \* users that were created by a bootstrap
    uses        \* how often each time step was accepted with the present secret of each user

tokenVars == <<sessions, grant, pending>>
tableVars == <<created, row, passkeys, totp, sessions, grant, pending>>
localVars == <<op, target, sess, seen, overtaken, input, held, code>>
historyVars == <<founders, uses>>
vars == <<tableVars, now, pc, localVars, historyVars>>

Init ==
    /\ created = {}
    /\ row = [u \in Users |-> [role |-> "member", disabled |-> FALSE, password |-> FALSE,
                                required |-> FALSE]]
    /\ passkeys = [u \in Users |-> {}]
    /\ totp = [u \in Users |-> None]
    /\ sessions = [u \in Users |-> {}]
    /\ grant = [u \in Users |-> None]
    /\ pending = [u \in Users |-> {}]
    /\ now = 1
    /\ pc = [h \in Handlers |-> "idle"]
    /\ op = [h \in Handlers |-> None]
    /\ target = [h \in Handlers |-> None]
    /\ sess = [h \in Handlers |-> None]
    /\ seen = [h \in Handlers |-> None]
    /\ overtaken = {}
    /\ input = [h \in Handlers |-> None]
    /\ held = [h \in Handlers |-> None]
    /\ code = [h \in Handlers |-> None]
    /\ founders = {}
    /\ uses = [u \in Users |-> [t \in Steps |-> 0]]

----------------------------------------------------------------------------
(* New numbers, and who can log in. *)

\* Something new gets a number that nothing of its kind has and no other request holds;
\* that one is left is a bound of the exploration.
Left(ids, taken) == ~(ids \subseteq taken)
Unused(ids, taken) == CHOOSE i \in ids : i \notin taken

\* What the other requests of operation o hold, and the secrets they have verified a code of.
HeldBy(h, o) == {held[g] : g \in {f \in Handlers \ {h} : op[f] = o}}
Verified(h) == {c.secret : c \in {code[g] : g \in Handlers \ {h}} \ {None}}

ActiveAdmins == {u \in created : row[u].role = "admin" /\ ~row[u].disabled}

HasMethod(u) == passkeys[u] # {} \/ (PasswordLoginEnabled /\ row[u].password)

----------------------------------------------------------------------------
(* The beginning of a request. *)

Leave(h) ==
    /\ pc' = [pc EXCEPT ![h] = "idle"]
    /\ op' = [op EXCEPT ![h] = None]
    /\ target' = [target EXCEPT ![h] = None]
    /\ sess' = [sess EXCEPT ![h] = None]
    /\ seen' = [seen EXCEPT ![h] = None]
    /\ input' = [input EXCEPT ![h] = None]
    /\ held' = [held EXCEPT ![h] = None]
    /\ code' = [code EXCEPT ![h] = None]

Fail(h) ==
    /\ pc[h] # "idle"
    /\ Leave(h)
    /\ overtaken' = overtaken \ {h}
    /\ UNCHANGED <<tableVars, now, historyVars>>

\* FirstStep with two operations that do not read the user.
FirstStepUnread(o) ==
    IF o \in {"create", "noPasskey", "logout", "logoutAll", "revoke", "revokeOthers",
              "disable", "noTOTP"}
    THEN "commit" ELSE "read"

\* Where an authenticated operation goes first: several have only a transaction.
FirstStep(o) ==
    IF o \in {"create", "noPasskey", "logout", "logoutAll", "revoke", "revokeOthers"}
    THEN "commit" ELSE "read"

\* AuthenticateSession and RequirePermission, then the operation itself.
Authenticate(h) ==
    /\ pc[h] = "idle"
    /\ \E u \in created : \E s \in sessions[u], t \in Users, o \in Ops \cap (AdminOps \cup SelfOps) :
        /\ ~row[u].disabled
        /\ o \in AdminOps => row[u].role = "admin"
        /\ o \in SelfOps \cup {"updateSelf"} => t = u
        /\ o \in {"update", "disable"} => t # u
        /\ o # "create" => t \in created
        /\ o = "password" => PasswordLoginEnabled
        /\ pc' = [pc EXCEPT ![h] = FirstStep(o)]
        /\ op' = [op EXCEPT ![h] = o]
        /\ target' = [target EXCEPT ![h] = t]
        /\ sess' = [sess EXCEPT ![h] = IF o \in SessionOps THEN s ELSE None]
    /\ UNCHANGED <<tableVars, now, seen, overtaken, input, held, code, historyVars>>

\* AuthenticateSession refuses a session that has expired and revokes it.
ExpireSession(u) ==
    /\ \E s \in sessions[u] : sessions' = [sessions EXCEPT ![u] = @ \ {s}]
    /\ UNCHANGED <<created, row, passkeys, totp, grant, pending, now, pc, localVars, historyVars>>

\* A request without a session begins: it has shown a token or a method.
BeginPublic(h, o, u, first) ==
    /\ o \in Ops
    /\ pc[h] = "idle"
    /\ pc' = [pc EXCEPT ![h] = first]
    /\ op' = [op EXCEPT ![h] = o]
    /\ target' = [target EXCEPT ![h] = u]
    /\ UNCHANGED <<tableVars, now, sess, overtaken, input, code, historyVars>>

\* BootstrapWithPassword, and the two requests of a bootstrap with a passkey.
BeginBootstrap(h) ==
    /\ created = {}
    /\ \E u \in Users : BeginPublic(h, "bootstrap", u, "commit")
    /\ UNCHANGED <<seen, held>>

\* FinishEnrollment consumes a ceremony, which falls with its grant, and reads the grant.
BeginEnrollment(h) ==
    /\ \E u \in created :
        /\ grant[u] # None
        /\ BeginPublic(h, "enroll", u, "read")
        /\ held' = [held EXCEPT ![h] = grant[u]]
    /\ UNCHANGED seen

\* PasswordLogin has read the user and verified the password, or FinishPasskeyLogin the passkey.
BeginLogin(h) ==
    \E u \in created : \E k \in passkeys[u] \cup {None} :
        /\ ~row[u].disabled
        /\ k = None => PasswordLoginEnabled /\ row[u].password
        /\ BeginPublic(h, "login", u, "commit")
        /\ seen' = [seen EXCEPT ![h] = row[u]]
        /\ held' = [held EXCEPT ![h] = k]

\* CompleteTOTPLogin reads the pending challenge.
BeginTOTP(h) ==
    /\ \E u \in created : \E c \in pending[u] :
        /\ BeginPublic(h, "totp", u, "read")
        /\ held' = [held EXCEPT ![h] = c]
    /\ UNCHANGED seen

----------------------------------------------------------------------------
(* What a request reads before its transaction. *)

\* What an update of a user whose role is r may ask for.
Inputs(o, r) ==
    {i \in Input : /\ o = "profile" => i.role = None /\ i.password = "keep"
                   /\ o = "updateSelf" => i.role \in {None, r}
                   /\ i.password = "set" => PasswordLoginEnabled}

NextStep(o, i) ==
    IF o \in {"setup", "confirm", "totp"} THEN "credential"
    ELSE IF o = "noPassword" \/ (o \in Updates /\ i.password = "unset") THEN "count"
    ELSE "commit"

\* GetUserByID.
ReadUser(h) ==
    /\ pc[h] = "read"
    /\ op[h] \in {"issue", "enroll", "totp"} => ~row[target[h]].disabled
    /\ seen' = [seen EXCEPT ![h] = row[target[h]]]
    /\ \E i \in IF op[h] \in Updates THEN Inputs(op[h], row[target[h]].role) ELSE {None} :
        /\ input' = [input EXCEPT ![h] = i]
        /\ pc' = [pc EXCEPT ![h] = NextStep(op[h], i)]
    /\ UNCHANGED <<tableVars, now, op, target, sess, overtaken, held, code, historyVars>>

\* Who gives up the password must have a passkey.
CountPasskeys(h) ==
    /\ pc[h] = "count"
    /\ passkeys[target[h]] # {}
    /\ pc' = [pc EXCEPT ![h] = "commit"]
    /\ UNCHANGED <<tableVars, now, localVars, historyVars>>

\* SetupTOTP refuses a credential that is confirmed.
ReadForSetup(h) ==
    /\ pc[h] = "credential"
    /\ op[h] = "setup"
    /\ totp[target[h]] # None => ~totp[target[h]].confirmed
    /\ pc' = [pc EXCEPT ![h] = "commit"]
    /\ UNCHANGED <<tableVars, now, localVars, historyVars>>

\* ConfirmTOTP and CompleteTOTPLogin read the credential and verify the code with it, for
\* the present time step or one next to it.
VerifyCode(h) ==
    /\ pc[h] = "credential"
    /\ op[h] \in {"confirm", "totp"}
    /\ totp[target[h]] # None
    /\ totp[target[h]].confirmed = (op[h] = "totp")
    /\ \E t \in Steps :
        /\ t \in {now, now + 1} \/ t + 1 = now
        /\ code' = [code EXCEPT ![h] = [secret |-> totp[target[h]].secret, step |-> t]]
    /\ pc' = [pc EXCEPT ![h] = "commit"]
    /\ UNCHANGED <<tableVars, now, op, target, sess, seen, overtaken, input, held, historyVars>>

----------------------------------------------------------------------------
(* Parts of the transactions. *)

\* UpdateUser and SetUserDisabled: the row becomes r and gets a new updated_at, so that
\* whoever has read it before is overtaken.
WriteRow(h, u, r) ==
    /\ row' = [row EXCEPT ![u] = r]
    /\ overtaken' = (overtaken \cup {g \in Handlers : target[g] = u /\ seen[g] # None}) \ {h}

KeepRow(h) ==
    /\ row' = row
    /\ overtaken' = overtaken \ {h}

\* User u has the sessions kept and a new one.
EnterSession(h, u, kept) ==
    LET taken == kept \cup {sess[g] : g \in {f \in Handlers \ {h} : target[f] = u}} IN
    /\ Left(SessionIds, taken)
    /\ sessions' = [sessions EXCEPT ![u] = kept \cup {Unused(SessionIds, taken)}]

AddSession(h, u) == EnterSession(h, u, sessions[u])

\* OnlyNewSession without the deletion of the pending challenges.
OnlyNewSessionKeepingLogins(h, u) ==
    /\ EnterSession(h, u, {})
    /\ UNCHANGED pending

\* RevokeAllSessions, the deletion of the pending challenges, and a new session.
OnlyNewSession(h, u) ==
    /\ EnterSession(h, u, {})
    /\ pending' = [pending EXCEPT ![u] = {}]

\* A new enrolment grant, in the place of the one before.
NewGrant(h, u) ==
    /\ Left(Ids, HeldBy(h, "enroll"))
    /\ grant' = [grant EXCEPT ![u] = Unused(Ids, HeldBy(h, "enroll"))]

AddPasskey(h, u) ==
    LET taken == passkeys[u] \cup HeldBy(h, "login") IN
    /\ Left(Keys, taken)
    /\ passkeys' = [passkeys EXCEPT ![u] = @ \cup {Unused(Keys, taken)}]

\* The transaction of operation o commits, and the request ends.
Commits(h, o) ==
    /\ pc[h] = "commit"
    /\ op[h] = o
    /\ Leave(h)
    /\ now' = now

----------------------------------------------------------------------------
(* Users. *)

NewRow(h, u, r, password) ==
    /\ u \notin created
    /\ created' = created \cup {u}
    /\ WriteRow(h, u, [row[u] EXCEPT !.role = r, !.password = password])

\* CommitBootstrap without the count of users in the transaction.
CommitBootstrapUncounted(h) ==
    /\ Commits(h, "bootstrap")
    /\ NewRow(h, target[h], "admin", FALSE)
    /\ AddPasskey(h, target[h])
    /\ AddSession(h, target[h])
    /\ founders' = founders \cup {target[h]}
    /\ UNCHANGED <<totp, grant, pending, uses>>

\* The first administrator, with a password or a passkey.
CommitBootstrap(h) ==
    /\ Commits(h, "bootstrap")
    /\ created = {}
    /\ \/ PasswordLoginEnabled /\ NewRow(h, target[h], "admin", TRUE) /\ UNCHANGED passkeys
       \/ NewRow(h, target[h], "admin", FALSE) /\ AddPasskey(h, target[h])
    /\ AddSession(h, target[h])
    /\ founders' = founders \cup {target[h]}
    /\ UNCHANGED <<totp, grant, pending, uses>>

\* CreateUser; an initial password is optional.
CommitCreate(h) ==
    /\ Commits(h, "create")
    /\ \E r \in Roles, p \in {FALSE, PasswordLoginEnabled} : NewRow(h, target[h], r, p)
    /\ NewGrant(h, target[h])
    /\ UNCHANGED <<passkeys, totp, sessions, pending, historyVars>>

\* The administrator that the request has read is not the last one.
NotLastAdmin(h) ==
    seen[h].role = "admin" /\ ~seen[h].disabled => Cardinality(ActiveAdmins) > 1

Applied(r, i) ==
    [r EXCEPT !.role = IF i.role = None THEN @ ELSE i.role,
              !.password = IF i.password = "keep" THEN @ ELSE i.password = "set"]

\* UpdateUser and UpdateProfile.  A change of the role or the password signs the user out.
CommitUpdate(h) ==
    LET u == target[h] i == input[h] IN
    /\ \E o \in Updates : Commits(h, o)
    /\ h \notin overtaken
    /\ i.role = "member" => NotLastAdmin(h)
    /\ WriteRow(h, u, Applied(row[u], i))
    /\ IF i.role \in {None, seen[h].role} /\ i.password = "keep"
       THEN UNCHANGED <<sessions, pending>>
       ELSE /\ sessions' = [sessions EXCEPT ![u] = {}]
            /\ pending' = [pending EXCEPT ![u] = {}]
    /\ UNCHANGED <<created, passkeys, totp, grant, historyVars>>

\* CommitDisable without the comparison of updated_at.
CommitDisableAnyway(h) ==
    LET u == target[h] IN
    /\ Commits(h, "disable")
    /\ NotLastAdmin(h)
    /\ WriteRow(h, u, [row[u] EXCEPT !.disabled = TRUE])
    /\ sessions' = [sessions EXCEPT ![u] = {}]
    /\ pending' = [pending EXCEPT ![u] = {}]
    /\ grant' = [grant EXCEPT ![u] = None]
    /\ UNCHANGED <<created, passkeys, totp, historyVars>>

\* SetUserDisabled, which ends the sessions, the pending challenges and the enrolment.
CommitDisable(h) ==
    LET u == target[h] IN
    /\ Commits(h, "disable")
    /\ h \notin overtaken
    /\ NotLastAdmin(h)
    /\ WriteRow(h, u, [row[u] EXCEPT !.disabled = TRUE])
    /\ sessions' = [sessions EXCEPT ![u] = {}]
    /\ pending' = [pending EXCEPT ![u] = {}]
    /\ grant' = [grant EXCEPT ![u] = None]
    /\ UNCHANGED <<created, passkeys, totp, historyVars>>

\* SetUserDisabled, the other way.
CommitEnable(h) ==
    /\ Commits(h, "enable")
    /\ h \notin overtaken
    /\ WriteRow(h, target[h], [row[target[h]] EXCEPT !.disabled = FALSE])
    /\ UNCHANGED <<created, passkeys, totp, tokenVars, historyVars>>

\* IssueEnrollmentToken.
CommitIssue(h) ==
    /\ Commits(h, "issue")
    /\ NewGrant(h, target[h])
    /\ KeepRow(h)
    /\ UNCHANGED <<created, passkeys, totp, sessions, pending, historyVars>>

----------------------------------------------------------------------------
(* Passkeys and passwords. *)

\* FinishEnrollment deletes the grant, or fails if it is gone.
CommitEnroll(h) ==
    /\ Commits(h, "enroll")
    /\ grant[target[h]] = held[h]
    /\ grant' = [grant EXCEPT ![target[h]] = None]
    /\ AddPasskey(h, target[h])
    /\ AddSession(h, target[h])
    /\ KeepRow(h)
    /\ UNCHANGED <<created, totp, pending, historyVars>>

\* CommitPasskey for a session that may be revoked.
CommitPasskeyAnyway(h) ==
    LET u == target[h] IN
    /\ Commits(h, "passkey")
    /\ AddPasskey(h, u)
    /\ EnterSession(h, u, sessions[u] \ {sess[h]})
    /\ KeepRow(h)
    /\ UNCHANGED <<created, totp, grant, pending, historyVars>>

\* FinishPasskeyRegistration rotates the session, or fails if it is revoked.
CommitPasskey(h) ==
    LET u == target[h] IN
    /\ Commits(h, "passkey")
    /\ sess[h] \in sessions[u]
    /\ AddPasskey(h, u)
    /\ EnterSession(h, u, sessions[u] \ {sess[h]})
    /\ KeepRow(h)
    /\ UNCHANGED <<created, totp, grant, pending, historyVars>>

\* DeletePasskey reads the user and counts in the transaction, and renews updated_at.
CommitNoPasskey(h) ==
    LET u == target[h] IN
    /\ Commits(h, "noPasskey")
    /\ \E k \in passkeys[u] :
        /\ Cardinality(passkeys[u]) > 1 \/ (PasswordLoginEnabled /\ row[u].password)
        /\ passkeys' = [passkeys EXCEPT ![u] = @ \ {k}]
    /\ WriteRow(h, u, row[u])
    /\ OnlyNewSession(h, u)
    /\ UNCHANGED <<created, totp, grant, historyVars>>

\* CommitPassword without the comparison of updated_at.
CommitPasswordAnyway(h) ==
    LET u == target[h] IN
    /\ \E o \in {"password", "noPassword"} : Commits(h, o)
    /\ WriteRow(h, u, [row[u] EXCEPT !.password = (op[h] = "password")])
    /\ OnlyNewSession(h, u)
    /\ UNCHANGED <<created, passkeys, totp, grant, historyVars>>

\* SetPassword and DeletePassword.
CommitPassword(h) ==
    LET u == target[h] IN
    /\ \E o \in {"password", "noPassword"} : Commits(h, o)
    /\ h \notin overtaken
    /\ WriteRow(h, u, [row[u] EXCEPT !.password = (op[h] = "password")])
    /\ OnlyNewSession(h, u)
    /\ UNCHANGED <<created, passkeys, totp, grant, historyVars>>

----------------------------------------------------------------------------
(* Sessions and the second factor. *)

\* completePrimaryLogin: what the row said when it was read decides on the second factor.
CommitLogin(h) ==
    LET u == target[h] taken == pending[u] \cup HeldBy(h, "totp") IN
    /\ Commits(h, "login")
    /\ held[h] \in passkeys[u] \cup {None}
    /\ IF seen[h].required
       THEN /\ Left(Ids, taken)
            /\ pending' = [pending EXCEPT ![u] = @ \cup {Unused(Ids, taken)}]
            /\ UNCHANGED sessions
       ELSE AddSession(h, u) /\ UNCHANGED pending
    /\ KeepRow(h)
    /\ UNCHANGED <<created, passkeys, totp, grant, historyVars>>

\* The acceptance of code c of user u is counted if it belongs to the present secret.
Accept(u, c) ==
    /\ uses' = IF totp[u].secret = c.secret THEN [uses EXCEPT ![u][c.step] = @ + 1] ELSE uses
    /\ founders' = founders

\* CommitTOTP without the comparison of last_accepted_timestep.
CommitTOTPAgain(h) ==
    LET u == target[h] IN
    /\ Commits(h, "totp")
    /\ totp[u] # None /\ totp[u].confirmed
    /\ held[h] \in pending[u]
    /\ totp' = [totp EXCEPT ![u].last = code[h].step]
    /\ pending' = [pending EXCEPT ![u] = @ \ {held[h]}]
    /\ AddSession(h, u)
    /\ Accept(u, code[h])
    /\ KeepRow(h)
    /\ UNCHANGED <<created, passkeys, grant>>

\* CompleteTOTPLogin: AcceptTOTPTimestep, the end of the challenge, the session.
CommitTOTP(h) ==
    LET u == target[h] IN
    /\ Commits(h, "totp")
    /\ totp[u] # None /\ totp[u].confirmed /\ totp[u].last < code[h].step
    /\ held[h] \in pending[u]
    /\ totp' = [totp EXCEPT ![u].last = code[h].step]
    /\ pending' = [pending EXCEPT ![u] = @ \ {held[h]}]
    /\ AddSession(h, u)
    /\ Accept(u, code[h])
    /\ KeepRow(h)
    /\ UNCHANGED <<created, passkeys, grant>>

\* UpsertTOTPCredential, whatever there is by now.
CommitSetup(h) ==
    LET u == target[h] IN
    /\ Commits(h, "setup")
    /\ Left(Ids, Verified(h))
    /\ totp' = [totp EXCEPT ![u] = [secret |-> Unused(Ids, Verified(h)), confirmed |-> FALSE,
                                    last |-> 0]]
    /\ uses' = [uses EXCEPT ![u] = [t \in Steps |-> 0]]
    /\ KeepRow(h)
    /\ UNCHANGED <<created, passkeys, tokenVars, founders>>

\* CommitConfirm with the confirmation in a transaction of its own, so that a refused
\* update of the user does not undo it.
CommitConfirmApart(h) ==
    LET u == target[h] IN
    /\ Commits(h, "confirm")
    /\ totp[u] # None /\ ~totp[u].confirmed
    /\ totp' = [totp EXCEPT ![u].confirmed = TRUE, ![u].last = code[h].step]
    /\ IF h \notin overtaken
       THEN WriteRow(h, u, [row[u] EXCEPT !.required = TRUE]) /\ OnlyNewSession(h, u)
       ELSE KeepRow(h) /\ UNCHANGED <<sessions, pending>>
    /\ Accept(u, code[h])
    /\ UNCHANGED <<created, passkeys, grant>>

\* ConfirmTOTP.
CommitConfirm(h) ==
    LET u == target[h] IN
    /\ Commits(h, "confirm")
    /\ totp[u] # None /\ ~totp[u].confirmed
    /\ h \notin overtaken
    /\ totp' = [totp EXCEPT ![u].confirmed = TRUE, ![u].last = code[h].step]
    /\ WriteRow(h, u, [row[u] EXCEPT !.required = TRUE])
    /\ OnlyNewSession(h, u)
    /\ Accept(u, code[h])
    /\ UNCHANGED <<created, passkeys, grant>>

\* DeleteTOTP.
CommitNoTOTP(h) ==
    LET u == target[h] IN
    /\ Commits(h, "noTOTP")
    /\ totp[u] # None
    /\ h \notin overtaken
    /\ totp' = [totp EXCEPT ![u] = None]
    /\ WriteRow(h, u, [row[u] EXCEPT !.required = FALSE])
    /\ OnlyNewSession(h, u)
    /\ UNCHANGED <<created, passkeys, grant, historyVars>>

\* Logout, RevokeSession and RevokeOtherSessions.
CommitLogout(h) ==
    LET u == target[h] IN
    /\ \/ Commits(h, "logout") /\ sessions' = [sessions EXCEPT ![u] = @ \ {sess[h]}]
       \/ Commits(h, "logoutAll") /\ sessions' = [sessions EXCEPT ![u] = {}]
       \/ /\ Commits(h, "revoke")
          /\ \E s \in sessions[u] \ {sess[h]} : sessions' = [sessions EXCEPT ![u] = @ \ {s}]
       \/ Commits(h, "revokeOthers") /\ sessions' = [sessions EXCEPT ![u] = @ \cap {sess[h]}]
    /\ pending' = [pending EXCEPT ![u] = {}]
    /\ KeepRow(h)
    /\ UNCHANGED <<created, passkeys, totp, grant, historyVars>>

\* The clock of TOTP.
Tick ==
    /\ now < MaxStep
    /\ now' = now + 1
    /\ UNCHANGED <<tableVars, pc, localVars, historyVars>>

----------------------------------------------------------------------------
(* The system. *)

Begin(h) ==
    \/ Authenticate(h) \/ BeginBootstrap(h) \/ BeginEnrollment(h) \/ BeginLogin(h) \/ BeginTOTP(h)

Read(h) == ReadUser(h) \/ CountPasskeys(h) \/ ReadForSetup(h) \/ VerifyCode(h)

CommitUser(h) ==
    \/ CommitBootstrap(h) \/ CommitCreate(h) \/ CommitUpdate(h) \/ CommitDisable(h)
    \/ CommitEnable(h) \/ CommitIssue(h)

CommitMethod(h) ==
    \/ CommitEnroll(h) \/ CommitPasskey(h) \/ CommitNoPasskey(h) \/ CommitPassword(h)

CommitSession(h) ==
    \/ CommitLogin(h) \/ CommitTOTP(h) \/ CommitSetup(h) \/ CommitConfirm(h) \/ CommitNoTOTP(h)
    \/ CommitLogout(h)

Next ==
    \/ \E h \in Handlers :
        Begin(h) \/ Read(h) \/ CommitUser(h) \/ CommitMethod(h) \/ CommitSession(h) \/ Fail(h)
    \/ \E u \in created : ExpireSession(u)
    \/ Tick

Spec == Init /\ [][Next]_vars

----------------------------------------------------------------------------
(* Properties. *)

\* Every variable has its type, and a request has read and holds what its step needs.
TypeOK ==
    /\ created \subseteq Users
    /\ row \in [Users -> Row]
    /\ passkeys \in [Users -> SUBSET Keys]
    /\ totp \in [Users -> Credential \cup {None}]
    /\ sessions \in [Users -> SUBSET SessionIds]
    /\ grant \in [Users -> Ids \cup {None}]
    /\ pending \in [Users -> SUBSET Ids]
    /\ now \in Steps
    /\ pc \in [Handlers -> {"idle", "read", "count", "credential", "commit"}]
    /\ op \in [Handlers -> AllOps \cup {None}]
    /\ target \in [Handlers -> Users \cup {None}]
    /\ sess \in [Handlers -> SessionIds \cup {None}]
    /\ seen \in [Handlers -> Row \cup {None}]
    /\ input \in [Handlers -> Input \cup {None}]
    /\ held \in [Handlers -> Ids \cup Keys \cup {None}]
    /\ code \in [Handlers -> Code \cup {None}]
    /\ overtaken \subseteq Handlers
    /\ \A h \in Handlers : pc[h] # "idle" =>
        /\ op[h] \in AllOps /\ target[h] \in Users
        /\ op[h] \in SessionOps => sess[h] \in SessionIds
        /\ pc[h] = "count" => op[h] \in Updates \cup {"noPassword"}
        /\ pc[h] = "credential" => op[h] \in {"setup", "confirm", "totp"}
        /\ pc[h] # "read" /\ op[h] \in Guarded \cup {"login"} => seen[h] \in Row
        /\ pc[h] # "read" /\ op[h] \in Updates => input[h] \in Input
        /\ pc[h] = "commit" /\ op[h] \in {"confirm", "totp"} => code[h] \in Code
    /\ founders \subseteq Users
    /\ uses \in [Users -> [Steps -> Nat]]

\* An enabled administrator remains, whoever demotes or disables whom at the same time:
\* UpdateUser and SetUserDisabled decide on a row read before their transaction.
AdminRemains == created # {} => ActiveAdmins # {}

\* Who has a method to log in keeps one, though the passkeys are counted before the
\* transaction that takes the password away.
MethodRemains == [][\A u \in Users : HasMethod(u) => HasMethod(u)']_vars

\* Bootstraps that run at the same time make one first administrator.
OneFounder == Cardinality(founders) <= 1

\* No user who is disabled by now gets a passkey from a request that began before
\* (FinishEnrollment, FinishPasskeyRegistration).
DisabledUsersGetNoPasskeys ==
    [][\A u \in Users : row[u].disabled => passkeys'[u] \subseteq passkeys[u]]_vars

\* One code is accepted once, by a confirmation or by one of any number of logins.
CodesAreUsedOnce == \A u \in Users, t \in Steps : uses[u][t] <= 1

\* A login that can still complete has verified its code with the secret the user has now,
\* whatever became of the second factor in between.
VerifiedCodesAreCurrent ==
    \A h \in Handlers :
        /\ pc[h] = "commit" /\ op[h] = "totp"
        /\ held[h] \in pending[target[h]]
        /\ totp[target[h]] # None /\ totp[target[h]].confirmed
        => code[h].secret = totp[target[h]].secret

\* The users table and the table of TOTP credentials agree: no second factor is asked for
\* that does not exist, and none is confirmed but not asked for.
SecondFactorIsConsistent ==
    \A u \in Users :
        /\ row[u].required => totp[u] # None
        /\ totp[u] # None /\ totp[u].confirmed => row[u].required

=============================================================================
