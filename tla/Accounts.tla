------------------------------ MODULE Accounts ------------------------------
(***************************************************************************)
(* Administrators and their sessions: auth.Service (backend/internal/auth) *)
(* with the handlers and the middleware that call it.                      *)
(*                                                                         *)
(* A request runs the handler of one operation; an action is one statement *)
(* or transaction on the users and sessions tables, and between two of     *)
(* them a request works with what it has read.  What a client sends is     *)
(* chosen where the code first depends on it.  The one permission that     *)
(* matters here, to manage users, is the owners'; addresses, names and the *)
(* other roles are left out.                                               *)
(***************************************************************************)
EXTENDS Naturals, FiniteSets

CONSTANTS
    User,       \* identities of accounts
    Session,    \* identities of sessions
    Request,    \* requests that are served at the same time
    Password,
    Change,     \* what the operations may make of an account
    First,      \* the account that Bootstrap creates
    NoAccount, NoSession, NoUser

Role == {"owner", "other"}
Account == [role : Role, disabled : BOOLEAN, password : Password]

ASSUME AccountsAssumption ==
    /\ First \in User /\ IsFiniteSet(User)
    /\ Change \subseteq [role : Role, disabled : BOOLEAN] /\ NoAccount \notin Change
    /\ NoAccount \notin Account /\ NoUser \notin User /\ NoSession \notin Session

VARIABLES
    account,  \* the users table: an Account each, or NoAccount
    session,  \* the sessions table: whose each session is, whether it has expired,
              \* the password it was opened with, and late: whether the account was
              \* changed between the check of the password and the insertion
    request,  \* what each request is about to do, and what it knows
    unrevoked \* history: the disabled accounts whose sessions a failure has kept

vars == <<account, session, request, unrevoked>>

\* The next statement; the session it came with; the account it is about; what
\* was read of it, the role or, to sign in, the password; what it is to become,
\* NoAccount for its removal; the enabled owners when they were counted.
Idle == [at |-> "idle", me |-> NoSession, user |-> NoUser, read |-> NoAccount,
         to |-> NoAccount, owners |-> {}]

Exists(u) == account[u] # NoAccount
Live(s) == session[s] # NoSession
SessionsOf(u) == {s \in Session : Live(s) /\ session[s].user = u}
Without(gone) == [s \in Session |-> IF s \in gone THEN NoSession ELSE session[s]]

IsEnabledOwner(a) == a # NoAccount /\ a.role = "owner" /\ ~a.disabled

\* countOwners
EnabledOwners == {u \in User : IsEnabledOwner(account[u])}

NewOwner(w) == [role |-> "owner", disabled |-> FALSE, password |-> w]

Init ==
    /\ account \in {[u \in User |-> IF u = First THEN NewOwner(w) ELSE NoAccount] :
                       w \in Password}
    /\ session = [s \in Session |-> NoSession]
    /\ request = [p \in Request |-> Idle]
    /\ unrevoked = {}

At(p, l) == request[p].at = l
Go(p, local) == request' = [request EXCEPT ![p] = local]
Goto(p, l) == Go(p, [request[p] EXCEPT !.at = l])
Return(p) == Go(p, Idle)

\* A statement fails, the client leaves, or what it sent is refused.
GiveUp(p) ==
    /\ ~At(p, "idle")
    /\ Return(p)
    /\ unrevoked' = IF At(p, "revoke") THEN unrevoked \cup {request[p].user} ELSE unrevoked
    /\ UNCHANGED <<account, session>>

-----------------------------------------------------------------------------
(* Signing in and out.                                                     *)

\* handleLogin, with the right password; a wrong one changes nothing.
Authenticate(p, u) ==
    /\ At(p, "idle")
    /\ Exists(u) /\ ~account[u].disabled
    /\ Go(p, [Idle EXCEPT !.at = "createSession", !.user = u, !.read = account[u].password])
    /\ UNCHANGED <<account, session, unrevoked>>

\* No request works with s any more.
FreeSession(s) == ~Live(s) /\ \A p \in Request : request[p].me # s

OpenSession(p, s) ==
    LET u == request[p].user
        w == request[p].read
    IN  session' = [session EXCEPT ![s] =
            [user |-> u, expired |-> FALSE, password |-> w,
             late |-> Exists(u) => account[u].disabled \/ account[u].password # w]]

\* The foreign key refuses a session of a user who has been deleted.
CreateSession(p) ==
    /\ At(p, "createSession") /\ Exists(request[p].user)
    /\ \E s \in Session : FreeSession(s) /\ OpenSession(p, s)
    /\ Return(p)
    /\ UNCHANGED <<account, unrevoked>>

\* LookupSession: the row, unexpired, joined with an account in use.
Valid(s) ==
    /\ Live(s) /\ ~session[s].expired
    /\ Exists(session[s].user) /\ ~account[session[s].user].disabled

\* A request comes with the cookie of a session that is valid.
Arrive(p, s, l) ==
    /\ At(p, "idle") /\ Valid(s)
    /\ LET u == session[s].user
       IN  Go(p, [Idle EXCEPT !.at = l, !.me = s, !.user = u, !.read = account[u].role])
    /\ UNCHANGED <<account, session, unrevoked>>

DeleteSession(p) ==
    /\ At(p, "deleteSession")
    /\ session' = Without({request[p].me})
    /\ Return(p)
    /\ UNCHANGED <<account, unrevoked>>

\* How the handlers begin that change users: of one's own password, or, with
\* the permission, of any account; nobody disables or deletes the one he uses.
Handlers(p) ==
    LET r == request[p]
        mine == [Idle EXCEPT !.at = "confirm", !.me = r.me, !.user = r.user]
        create == [Idle EXCEPT !.at = "insert"]
        change == UNION {{[Idle EXCEPT !.at = "find", !.user = u, !.to = c] :
                             c \in Change \cup {NoAccount}} : u \in User}
        lockout == {l \in change : l.user = r.user /\ (l.to = NoAccount \/ l.to.disabled)}
    IN  {mine} \cup IF r.read = "owner" THEN {create} \cup (change \ lockout) ELSE {}

\* TouchSession slides the expiry of a row that is still there, and does
\* nothing within a minute; its failure is only logged.
Touch(p) ==
    /\ At(p, "touch")
    /\ \/ UNCHANGED session
       \/ Live(request[p].me) /\ session' = [session EXCEPT ![request[p].me].expired = FALSE]
    /\ \E l \in Handlers(p) : Go(p, l)
    /\ UNCHANGED <<account, unrevoked>>

-----------------------------------------------------------------------------
(* The user's own password.                                                *)

\* The current password is right.
Confirm(p) ==
    /\ At(p, "confirm") /\ Exists(request[p].user)
    /\ Goto(p, "changePassword")
    /\ UNCHANGED <<account, session, unrevoked>>

\* An UPDATE of u's row, if there is one.
SetAccount(u, a) == account' = IF Exists(u) THEN [account EXCEPT ![u] = a] ELSE account

\* Mutant of ChangePassword: the other sessions stay.
ChangeKeepsSessions(p, w) ==
    LET u == request[p].user
    IN  /\ At(p, "changePassword")
        /\ SetAccount(u, [account[u] EXCEPT !.password = w])
        /\ Return(p)
        /\ UNCHANGED <<session, unrevoked>>

\* One transaction.  The session that is kept counts as one of the new
\* password.
ChangePassword(p, w) ==
    LET u == request[p].user
    IN  /\ At(p, "changePassword")
        /\ SetAccount(u, [account[u] EXCEPT !.password = w])
        /\ session' = [s \in Session |->
               IF s \notin SessionsOf(u) THEN session[s]
               ELSE IF s = request[p].me THEN [session[s] EXCEPT !.password = w]
               ELSE NoSession]
        /\ Return(p)
        /\ UNCHANGED unrevoked

-----------------------------------------------------------------------------
(* Managing users.                                                         *)

\* No request knows u any more.
FreeUser(u) == ~Exists(u) /\ \A p \in Request : request[p].user # u

CreateUser(p, u, a) ==
    /\ At(p, "insert") /\ FreeUser(u)
    /\ account' = [account EXCEPT ![u] = a]
    /\ Return(p)
    /\ UNCHANGED <<session, unrevoked>>

\* GetUser; the owners are counted only if an owner is to go.
Find(p) ==
    LET r == request[p]
        a == account[r.user]
        loses == r.to = NoAccount \/ r.to.role # "owner" \/ r.to.disabled
    IN  /\ At(p, "find") /\ Exists(r.user)
        /\ Go(p, [r EXCEPT !.read = a.role,
                           !.at = IF a.role = "owner" /\ loses THEN "count" ELSE "write"])
        /\ UNCHANGED <<account, session, unrevoked>>

\* Mutant of Count: one owner is enough.
CountOffByOne(p) ==
    /\ At(p, "count") /\ Cardinality(EnabledOwners) > 0
    /\ Go(p, [request[p] EXCEPT !.at = "write", !.owners = EnabledOwners])
    /\ UNCHANGED <<account, session, unrevoked>>

\* With one owner left the operation is refused.
Count(p) ==
    /\ At(p, "count") /\ Cardinality(EnabledOwners) > 1
    /\ Go(p, [request[p] EXCEPT !.at = "write", !.owners = EnabledOwners])
    /\ UNCHANGED <<account, session, unrevoked>>

\* DELETE FROM users, which takes the sessions along.
Remove(p) ==
    LET u == request[p].user
    IN  /\ At(p, "write") /\ request[p].to = NoAccount
        /\ account' = [account EXCEPT ![u] = NoAccount]
        /\ session' = Without(SessionsOf(u))
        /\ unrevoked' = unrevoked \ {u}
        /\ Return(p)

\* Mutant of Update: the sessions of a disabled account are not revoked.
UpdateWithoutRevocation(p) ==
    LET u == request[p].user
        c == request[p].to
    IN  /\ At(p, "write") /\ c # NoAccount
        /\ SetAccount(u, [account[u] EXCEPT !.role = c.role, !.disabled = c.disabled])
        /\ Go(p, [Idle EXCEPT !.at = "reread", !.user = u])
        /\ UNCHANGED <<session, unrevoked>>

\* UPDATE users; the sessions of an account that is disabled go in a statement
\* of their own.
Update(p) ==
    LET u == request[p].user
        c == request[p].to
    IN  /\ At(p, "write") /\ c # NoAccount
        /\ SetAccount(u, [account[u] EXCEPT !.role = c.role, !.disabled = c.disabled])
        /\ Go(p, [Idle EXCEPT !.at = IF c.disabled THEN "revoke" ELSE "reread", !.user = u])
        /\ UNCHANGED <<session, unrevoked>>

Revoke(p) ==
    LET u == request[p].user
    IN  /\ At(p, "revoke")
        /\ session' = Without(SessionsOf(u))
        /\ unrevoked' = unrevoked \ {u}
        /\ Goto(p, "reread")
        /\ UNCHANGED account

\* GetUser again, of an account that is still there; with a new password the
\* handler goes on.
Reread(p) ==
    /\ At(p, "reread")
    /\ \/ Return(p)
       \/ Exists(request[p].user) /\ Goto(p, "reset")
    /\ UNCHANGED <<account, session, unrevoked>>

\* SetPassword, one transaction.
SetPassword(u, w) ==
    /\ Exists(u)
    /\ account' = [account EXCEPT ![u].password = w]
    /\ session' = Without(SessionsOf(u))
    /\ unrevoked' = unrevoked \ {u}

Reset(p, w) ==
    /\ At(p, "reset")
    /\ SetPassword(request[p].user, w)
    /\ Return(p)

-----------------------------------------------------------------------------
(* Outside requests.                                                       *)

\* The --reset-password flag, another process on the same database.
ResetPassword(u, w) == SetPassword(u, w) /\ UNCHANGED request

Expire(s) ==
    /\ Live(s) /\ ~session[s].expired
    /\ session' = [session EXCEPT ![s].expired = TRUE]
    /\ UNCHANGED <<account, request, unrevoked>>

\* The hourly job.
PurgeExpiredSessions ==
    LET gone == {s \in Session : Live(s) /\ session[s].expired}
    IN  /\ gone # {}
        /\ session' = Without(gone)
        /\ UNCHANGED <<account, request, unrevoked>>

\* The process dies and starts again, which creates the first owner if there
\* are no users at all.
Restart ==
    /\ request' = [p \in Request |-> Idle]
    /\ unrevoked' = unrevoked \cup {request[p].user : p \in {q \in Request : At(q, "revoke")}}
    /\ IF \E u \in User : Exists(u) THEN UNCHANGED account
       ELSE \E w \in Password : account' = [account EXCEPT ![First] = NewOwner(w)]
    /\ UNCHANGED session

-----------------------------------------------------------------------------

Step(p) ==
    \/ \E u \in User : Authenticate(p, u)
    \/ \E s \in Session : Arrive(p, s, "deleteSession") \/ Arrive(p, s, "touch")
    \/ CreateSession(p) \/ DeleteSession(p) \/ Touch(p)
    \/ Confirm(p) \/ \E w \in Password : ChangePassword(p, w)
    \/ \E u \in User, a \in Account : ~a.disabled /\ CreateUser(p, u, a)
    \/ Find(p) \/ Count(p) \/ Remove(p) \/ Update(p) \/ Revoke(p) \/ Reread(p)
    \/ \E w \in Password : Reset(p, w)
    \/ GiveUp(p)

Next ==
    \/ \E p \in Request : Step(p)
    \/ \E u \in User, w \in Password : ResetPassword(u, w)
    \/ \E s \in Session : Expire(s)
    \/ PurgeExpiredSessions \/ Restart

Spec == Init /\ [][Next]_vars

-----------------------------------------------------------------------------
(* Properties.                                                             *)

\* What the check of UpdateUser and DeleteUser achieves: a request leaves the
\* instance without an enabled owner only if the account, or the set of the
\* owners, is no longer what the request saw.
LastOwnerGuarded ==
    [][\A p \in Request :
          (Update(p) \/ Remove(p)) /\ EnabledOwners # {} /\ EnabledOwners' = {}
             => \/ request[p].read # account[request[p].user].role
                \/ request[p].owners # EnabledOwners]_vars

\* A change or reset of a password revokes every other session: a session was
\* opened with its account's present password, except by a sign-in that had
\* checked the password before the change and inserted its row after it.
SessionFitsPassword ==
    \A s \in Session : Live(s) =>
        session[s].late \/ session[s].password = account[session[s].user].password

\* An account that is disabled is signed out, although its row and its sessions
\* are changed by two statements: a session that is left is waiting for the
\* second, or a failure has skipped it, or a late sign-in opened the session.
DisabledSignedOut ==
    \A s \in Session : Live(s) /\ account[session[s].user].disabled =>
        \/ session[s].late \/ session[s].user \in unrevoked
        \/ \E p \in Request : At(p, "revoke") /\ request[p].user = session[s].user
=============================================================================
