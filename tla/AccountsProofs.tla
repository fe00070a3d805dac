--------------------------- MODULE AccountsProofs ---------------------------
(* Proofs about Accounts, for any users, sessions, requests, passwords and   *)
(* changes.                                                                  *)
EXTENDS Accounts, FiniteSetTheorems, TLAPS

\* A row of the sessions table.
Row == [user : User, expired : BOOLEAN, password : Password, late : BOOLEAN]

\* What a request may know.
Local ==
    [at : {"idle", "createSession", "deleteSession", "touch", "confirm", "changePassword",
           "insert", "find", "count", "write", "revoke", "reread", "reset"},
     me : Session \cup {NoSession}, user : User \cup {NoUser},
     read : Role \cup Password \cup {NoAccount}, to : Change \cup {NoAccount},
     owners : SUBSET User]

\* What the change c takes from an account: being an enabled owner.
Loses(c) == c = NoAccount \/ c.role # "owner" \/ c.disabled

\* What a handler may rely on at its next statement. The last part is what the
\* count of the owners was for.
Known(r) ==
    /\ r \in Local
    /\ r.at \notin {"idle", "insert"} => r.user \in User
    /\ r.at \in {"deleteSession", "touch"} => r.me \in Session
    /\ r.at = "createSession" => r.read \in Password
    /\ r.at = "write" /\ r.read = "owner" /\ Loses(r.to) => Cardinality(r.owners) > 1

TypeOK ==
    /\ account \in [User -> Account \cup {NoAccount}]
    /\ session \in [Session -> Row \cup {NoSession}]
    /\ request \in [Request -> Local]
    /\ \A p \in Request : Known(request[p])

\* The foreign key.
Owned == \A s \in Session : Live(s) => Exists(session[s].user)

IInv == TypeOK /\ Owned /\ SessionFitsPassword /\ DisabledSignedOut

-----------------------------------------------------------------------------
(* Types.                                                                    *)

\* An idle request knows nothing.
LEMMA IdleKnown == Known(Idle)
BY DEF Known, Local, Idle

\* One of the fields of a local state is set.
LEMMA SetAt ==
    ASSUME NEW r \in Local, NEW l \in {"count", "write"}
    PROVE  LET x == [r EXCEPT !.at = l]
           IN  /\ x \in Local /\ x.at = l
               /\ x.user = r.user /\ x.to = r.to /\ x.read = r.read
BY DEF Local

\* A handler notes the role it read, and nothing else.
LEMMA SetRead ==
    ASSUME NEW r \in Local, NEW v \in Role
    PROVE  LET x == [r EXCEPT !.read = v]
           IN  x \in Local /\ x.read = v /\ x.user = r.user /\ x.to = r.to
BY DEF Local

\* A handler notes the owners it counted, and nothing else.
LEMMA SetOwners ==
    ASSUME NEW r \in Local, NEW o \in SUBSET User
    PROVE  LET x == [r EXCEPT !.owners = o]
           IN  x \in Local /\ x.owners = o /\ x.user = r.user /\ x.at = r.at
BY DEF Local

\* The local state after any statement is one that a handler may have.
LEMMA StepKnown ==
    ASSUME TypeOK, NEW p \in Request, Step(p)
    PROVE  \E r : Known(r) /\ Go(p, r)
<1> DEFINE r == request[p]
<1>0. Known(r) /\ r \in Local BY DEF TypeOK
<1>1. ASSUME Return(p) PROVE \E x : Known(x) /\ Go(p, x) BY <1>1, IdleKnown DEF Return
<1>2. ASSUME NEW u \in User, Authenticate(p, u) PROVE \E x : Known(x) /\ Go(p, x)
  <2>1. account[u].password \in Password BY <1>2 DEF Authenticate, TypeOK, Exists, Account
  <2>2. Known([Idle EXCEPT !.at = "createSession", !.user = u, !.read = account[u].password])
    BY <2>1 DEF Known, Local, Idle
  <2> QED BY <1>2, <2>2 DEF Authenticate
<1>3. ASSUME NEW s \in Session, NEW l \in {"deleteSession", "touch"}, Arrive(p, s, l)
      PROVE  \E x : Known(x) /\ Go(p, x)
  <2>1. session[s].user \in User /\ account[session[s].user].role \in Role
    BY <1>3 DEF Arrive, Valid, Live, Exists, TypeOK, Row, Account
  <2>2. Known([Idle EXCEPT !.at = l, !.me = s, !.user = session[s].user,
                           !.read = account[session[s].user].role])
    BY <2>1 DEF Known, Local, Idle
  <2> QED BY <1>3, <2>2 DEF Arrive
<1>4. ASSUME Touch(p) PROVE \E x : Known(x) /\ Go(p, x)
  <2>1. PICK x \in Handlers(p) : Go(p, x) BY <1>4 DEF Touch
  <2>2. r.at = "touch" BY <1>4 DEF Touch, At
  <2>3. r.user \in User BY <1>0, <2>2 DEF Known
  <2>4. CASE x = [Idle EXCEPT !.at = "confirm", !.me = r.me, !.user = r.user]
    <3>1. x = [at |-> "confirm", me |-> r.me, user |-> r.user, read |-> NoAccount,
               to |-> NoAccount, owners |-> {}]
      BY <2>4 DEF Idle
    <3>2. r.me \in Session \cup {NoSession} BY <1>0 DEF Local
    <3>3. Known(x) BY <2>3, <3>1, <3>2 DEF Known, Local
    <3> QED BY <2>1, <3>3
  <2>5. CASE x = [Idle EXCEPT !.at = "insert"] BY <2>1, <2>5 DEF Known, Local, Idle
  <2>6. ASSUME NEW u \in User, NEW c \in Change \cup {NoAccount},
               x = [Idle EXCEPT !.at = "find", !.user = u, !.to = c]
        PROVE  Known(x)
    BY <2>6 DEF Known, Local, Idle
  <2> DEFINE all == UNION {{[Idle EXCEPT !.at = "find", !.user = u, !.to = c] :
                               c \in Change \cup {NoAccount}} : u \in User}
  <2>7. \/ x = [Idle EXCEPT !.at = "confirm", !.me = r.me, !.user = r.user]
        \/ x = [Idle EXCEPT !.at = "insert"]
        \/ x \in all
    BY <2>1, Zenon DEF Handlers
  <2>8. x \in all => \E u \in User, c \in Change \cup {NoAccount} :
                         x = [Idle EXCEPT !.at = "find", !.user = u, !.to = c]
    BY Zenon
  <2> QED BY <2>1, <2>4, <2>5, <2>6, <2>7, <2>8, Zenon
<1>5. ASSUME NEW l \in {"changePassword", "reread", "reset"}, r.at \notin {"idle", "insert"},
             Goto(p, l)
      PROVE  \E x : Known(x) /\ Go(p, x)
  <2>1. Known([r EXCEPT !.at = l]) BY <1>0, <1>5 DEF Known, Local
  <2> QED BY <1>5, <2>1 DEF Goto
<1>6. ASSUME Find(p) PROVE \E x : Known(x) /\ Go(p, x)
  <2>1. r.at = "find" /\ account[r.user] # NoAccount BY <1>6 DEF Find, At, Exists
  <2>2. r.user \in User BY <1>0, <2>1 DEF Known
  <2>3. account[r.user].role \in Role BY <2>1, <2>2 DEF TypeOK, Account
  <2> DEFINE l == IF account[r.user].role = "owner"
                     /\ (r.to = NoAccount \/ r.to.role # "owner" \/ r.to.disabled)
                  THEN "count" ELSE "write"
             y == [r EXCEPT !.read = account[r.user].role]
             x == [y EXCEPT !.at = l]
  <2>4. l = "write" /\ account[r.user].role = "owner" => ~Loses(r.to) BY DEF Loses
  <2>5. l \in {"count", "write"} OBVIOUS
  <2> HIDE DEF l
  <2>6. y \in Local /\ y.read = account[r.user].role /\ y.user = r.user /\ y.to = r.to
    BY <1>0, <2>3, SetRead
  <2> HIDE DEF y
  <2>7. x \in Local /\ x.at = l /\ x.user = r.user /\ x.to = r.to /\ x.read = y.read
    BY <2>5, <2>6, SetAt
  <2> HIDE DEF x
  <2>8. Known(x) BY <2>2, <2>4, <2>5, <2>6, <2>7 DEF Known
  <2> QED BY <1>6, <2>8 DEF Find, x, y, l
<1>7. ASSUME Count(p) PROVE \E x : Known(x) /\ Go(p, x)
  <2>1. r.user \in User BY <1>0, <1>7 DEF Count, At, Known
  <2>2. EnabledOwners \in SUBSET User BY DEF EnabledOwners
  <2> DEFINE y == [r EXCEPT !.at = "write"]
             x == [y EXCEPT !.owners = EnabledOwners]
  <2>3. y \in Local /\ y.at = "write" /\ y.user = r.user BY <1>0, SetAt
  <2> HIDE DEF y
  <2>4. x \in Local /\ x.at = "write" /\ x.user = r.user /\ x.owners = EnabledOwners
    BY <2>2, <2>3, SetOwners
  <2>5. Cardinality(EnabledOwners) > 1 BY <1>7 DEF Count
  <2> HIDE DEF x
  <2>6. Known(x) BY <2>1, <2>4, <2>5 DEF Known
  <2> QED BY <1>7, <2>6 DEF Count, x, y
<1>8. ASSUME Update(p) PROVE \E x : Known(x) /\ Go(p, x)
  <2>1. r.user \in User BY <1>0, <1>8 DEF Update, At, Known
  <2>2. \A l \in {"revoke", "reread"} : Known([Idle EXCEPT !.at = l, !.user = r.user])
    BY <2>1 DEF Known, Local, Idle
  <2> QED BY <1>8, <2>2 DEF Update
<1> QED
  BY <1>1, <1>2, <1>3, <1>4, <1>5, <1>6, <1>7, <1>8
  DEF Step, CreateSession, DeleteSession, Confirm, ChangePassword, CreateUser, Remove, Revoke,
      Reread, Reset, GiveUp, At

\* What an UPDATE makes of the account a is an account.
Revised(a, c) == [a EXCEPT !.role = c.role, !.disabled = c.disabled]

\* A change of role and of access leaves the password alone.
LEMMA ChangedAccount ==
    ASSUME NEW a \in Account, NEW c \in Change
    PROVE  LET x == Revised(a, c)
           IN  /\ x \in Account /\ x.password = a.password
               /\ x.role = c.role /\ x.disabled = c.disabled
<1> DEFINE y == [a EXCEPT !.role = c.role]
           x == [y EXCEPT !.disabled = c.disabled]
<1>1. c.role \in Role /\ c.disabled \in BOOLEAN BY AccountsAssumption
<1>2. y \in Account /\ y.password = a.password /\ y.role = c.role BY <1>1 DEF Account
<1> HIDE DEF y
<1>3. /\ x \in Account /\ x.password = y.password
      /\ x.role = y.role /\ x.disabled = c.disabled
  BY <1>1, <1>2 DEF Account
<1> HIDE DEF x
<1>4. x \in Account /\ x.password = a.password /\ x.role = c.role /\ x.disabled = c.disabled
  BY <1>2, <1>3
<1> QED BY <1>4 DEF x, y, Revised

\* A new password changes nothing else of an account.
LEMMA NewPassword ==
    ASSUME NEW a \in Account, NEW w \in Password
    PROVE  LET x == [a EXCEPT !.password = w]
           IN  /\ x \in Account /\ x.password = w
               /\ x.role = a.role /\ x.disabled = a.disabled
BY DEF Account

\* The expiry of a session that is there is set.
Slide(s, b) == Live(s) /\ session' = [session EXCEPT ![s].expired = b] /\ UNCHANGED account

\* An account that is there is written. Its sessions stay.
Write(u, c) ==
    /\ SetAccount(u, Revised(account[u], c))
    /\ UNCHANGED session

\* The first account is created where there are none.
Bootstrap(w) ==
    /\ \A u \in User : ~Exists(u)
    /\ account' = [account EXCEPT ![First] = NewOwner(w)]
    /\ UNCHANGED session

\* What a step does to the accounts and the sessions.
Effect ==
    \/ UNCHANGED <<account, session>>
    \/ \E p \in Request : CreateSession(p)
    \/ \E gone \in SUBSET Session : session' = Without(gone) /\ UNCHANGED account
    \/ \E s \in Session, b \in BOOLEAN : Slide(s, b)
    \/ \E p \in Request, w \in Password : ChangePassword(p, w)
    \/ \E p \in Request, u \in User, a \in Account : ~a.disabled /\ CreateUser(p, u, a)
    \/ \E p \in Request : Remove(p)
    \/ \E p \in Request : Update(p)
    \/ \E u \in User, w \in Password : SetPassword(u, w)
    \/ \E w \in Password : Bootstrap(w)

\* A request at a statement that is about a user has that user.
LEMMA UserKnown ==
    ASSUME TypeOK, NEW p \in Request, ~At(p, "idle"), ~At(p, "insert")
    PROVE  request[p].user \in User
BY DEF TypeOK, Known, At

\* An update writes the account of a user.
LEMMA UpdateWrites ==
    ASSUME TypeOK, NEW p \in Request, Update(p)
    PROVE  /\ request[p].user \in User /\ request[p].to \in Change
           /\ Write(request[p].user, request[p].to)
<1>1. request[p].user \in User BY UserKnown DEF Update, At
<1>2. request[p].to \in Change BY DEF Update, TypeOK, Local
<1>3. Write(request[p].user, request[p].to) BY DEF Update, Write, Revised
<1> QED BY <1>1, <1>2, <1>3

\* Every statement of a request has one of these effects, and so has every step.
LEMMA StepEffect ==
    ASSUME TypeOK, NEW p \in Request, Step(p)
    PROVE  Effect
<1>1. ASSUME NEW u \in User, Authenticate(p, u) PROVE Effect BY <1>1 DEF Authenticate, Effect
<1>2. ASSUME NEW s \in Session, NEW l, Arrive(p, s, l) PROVE Effect
  BY <1>2 DEF Arrive, Effect
<1>3. CASE CreateSession(p) BY <1>3 DEF Effect
<1>4. CASE DeleteSession(p)
  <2>1. request[p].me \in Session BY <1>4 DEF DeleteSession, At, TypeOK, Known
  <2> QED BY <1>4, <2>1 DEF DeleteSession, Effect
<1>5. CASE Touch(p)
  <2>1. request[p].me \in Session BY <1>5 DEF Touch, At, TypeOK, Known
  <2>2. CASE UNCHANGED session BY <1>5, <2>2 DEF Touch, Effect
  <2>3. CASE Slide(request[p].me, FALSE) BY <2>1, <2>3 DEF Effect
  <2> QED BY <1>5, <2>2, <2>3 DEF Touch, Slide
<1>6. ASSUME NEW w \in Password, ChangePassword(p, w) PROVE Effect BY <1>6 DEF Effect
<1>7. ASSUME NEW u \in User, NEW a \in Account, ~a.disabled, CreateUser(p, u, a) PROVE Effect
  BY <1>7 DEF Effect
<1>8. CASE Remove(p) BY <1>8 DEF Effect
<1>9. CASE Update(p) BY <1>9 DEF Effect
<1>10. CASE Revoke(p)
  <2>1. SessionsOf(request[p].user) \in SUBSET Session BY DEF SessionsOf
  <2> QED BY <1>10, <2>1 DEF Revoke, Effect
<1>11. ASSUME NEW w \in Password, Reset(p, w) PROVE Effect
  <2>1. request[p].user \in User BY <1>11, UserKnown DEF Reset, At
  <2> QED BY <1>11, <2>1 DEF Reset, Effect
<1>12. CASE Confirm(p) \/ Find(p) \/ Count(p) \/ Reread(p) \/ GiveUp(p)
  BY <1>12 DEF Confirm, Find, Count, Reread, GiveUp, Effect
<1> QED BY <1>1, <1>2, <1>3, <1>4, <1>5, <1>6, <1>7, <1>8, <1>9, <1>10, <1>11, <1>12 DEF Step

\* Every step has one of the effects listed.
LEMMA NextEffect == ASSUME TypeOK, Next PROVE Effect
<1>1. ASSUME NEW u \in User, NEW w \in Password, ResetPassword(u, w) PROVE Effect
  BY <1>1 DEF ResetPassword, Effect
<1>2. ASSUME NEW s \in Session, Expire(s) PROVE Effect
  <2>1. Slide(s, TRUE) BY <1>2 DEF Expire, Slide
  <2> QED BY <2>1 DEF Effect
<1>3. CASE PurgeExpiredSessions
  <2>1. {s \in Session : Live(s) /\ session[s].expired} \in SUBSET Session OBVIOUS
  <2> QED BY <1>3, <2>1 DEF PurgeExpiredSessions, Effect
<1>4. CASE Restart
  <2>1. CASE UNCHANGED account BY <1>4, <2>1 DEF Restart, Effect
  <2>2. ASSUME NEW w \in Password, Bootstrap(w) PROVE Effect BY <2>2 DEF Effect
  <2> QED BY <1>4, <2>1, <2>2 DEF Restart, Bootstrap
<1> QED BY <1>1, <1>2, <1>3, <1>4, StepEffect DEF Next

-----------------------------------------------------------------------------
(* Types of the two tables.                                                  *)

\* The tables keep their types, and so does what requests know.
LEMMA SetAccountType ==
    ASSUME TypeOK, NEW u \in User, NEW a, Exists(u) => a \in Account, SetAccount(u, a)
    PROVE  account' \in [User -> Account \cup {NoAccount}]
BY DEF SetAccount, TypeOK

\* No effect takes the accounts out of their type,
LEMMA AccountType ==
    ASSUME TypeOK, Effect
    PROVE  account' \in [User -> Account \cup {NoAccount}]
<1> USE DEF TypeOK
<1>1. CASE UNCHANGED account BY <1>1
<1>2. ASSUME NEW p \in Request, NEW w \in Password, ChangePassword(p, w)
      PROVE  account' \in [User -> Account \cup {NoAccount}]
  <2>1. request[p].user \in User BY <1>2, UserKnown DEF ChangePassword, At
  <2>2. Exists(request[p].user)
        => [account[request[p].user] EXCEPT !.password = w] \in Account
    BY <2>1, NewPassword DEF Exists
  <2> QED BY <1>2, <2>1, <2>2, SetAccountType DEF ChangePassword
<1>3. ASSUME NEW p \in Request, NEW u \in User, NEW a \in Account, CreateUser(p, u, a)
      PROVE  account' \in [User -> Account \cup {NoAccount}]
  BY <1>3 DEF CreateUser
<1>4. ASSUME NEW p \in Request, Remove(p)
      PROVE  account' \in [User -> Account \cup {NoAccount}]
  BY <1>4 DEF Remove
<1>5. ASSUME NEW u \in User, NEW c \in Change, Write(u, c)
      PROVE  account' \in [User -> Account \cup {NoAccount}]
  <2>1. Exists(u) => Revised(account[u], c) \in Account
    BY ChangedAccount DEF Exists
  <2> QED BY <1>5, <2>1, SetAccountType DEF Write
<1>6. ASSUME NEW u \in User, NEW w \in Password, SetPassword(u, w)
      PROVE  account' \in [User -> Account \cup {NoAccount}]
  <2>1. [account[u] EXCEPT !.password = w] \in Account
    BY <1>6, NewPassword DEF SetPassword, Exists
  <2> QED BY <1>6, <2>1 DEF SetPassword
<1>7. ASSUME NEW w \in Password, Bootstrap(w)
      PROVE  account' \in [User -> Account \cup {NoAccount}]
  <2>1. NewOwner(w) \in Account BY DEF NewOwner, Account, Role
  <2> QED BY <1>7, <2>1 DEF Bootstrap
<1> HIDE DEF TypeOK
<1> QED BY <1>1, <1>2, <1>3, <1>4, <1>5, <1>6, <1>7, UpdateWrites DEF Effect, CreateSession, Slide

\* nor the sessions.
LEMMA SessionType ==
    ASSUME TypeOK, Effect
    PROVE  session' \in [Session -> Row \cup {NoSession}]
<1> USE DEF TypeOK
<1>1. CASE UNCHANGED session BY <1>1
<1>2. ASSUME NEW p \in Request, CreateSession(p)
      PROVE  session' \in [Session -> Row \cup {NoSession}]
  <2>1. request[p].user \in User /\ request[p].read \in Password
    BY <1>2 DEF CreateSession, At, Known
  <2>2. Exists(request[p].user) /\ account[request[p].user] \in Account
    BY <1>2, <2>1 DEF CreateSession, Exists
  <2>3. (Exists(request[p].user) => account[request[p].user].disabled
                                    \/ account[request[p].user].password # request[p].read)
        \in BOOLEAN
    OBVIOUS
  <2>4. PICK s \in Session : OpenSession(p, s) BY <1>2 DEF CreateSession
  <2> QED BY <2>1, <2>3, <2>4 DEF OpenSession, Row
<1>3. ASSUME NEW gone \in SUBSET Session, session' = Without(gone)
      PROVE  session' \in [Session -> Row \cup {NoSession}]
  BY <1>3 DEF Without
<1>4. ASSUME NEW s \in Session, NEW b \in BOOLEAN, Slide(s, b)
      PROVE  session' \in [Session -> Row \cup {NoSession}]
  <2>1. [session[s] EXCEPT !.expired = b] \in Row BY <1>4 DEF Slide, Live, Row
  <2> QED BY <1>4, <2>1 DEF Slide
<1>5. ASSUME NEW p \in Request, NEW w \in Password, ChangePassword(p, w)
      PROVE  session' \in [Session -> Row \cup {NoSession}]
  <2>1. \A s \in Session : Live(s) => [session[s] EXCEPT !.password = w] \in Row
    BY DEF Live, Row
  <2> QED BY <1>5, <2>1 DEF ChangePassword, SessionsOf
<1>6. ASSUME NEW u, session' = Without(SessionsOf(u))
      PROVE  session' \in [Session -> Row \cup {NoSession}]
  BY <1>6 DEF Without
<1>7. ASSUME NEW p \in Request, Update(p) PROVE UNCHANGED session BY <1>7 DEF Update
<1> HIDE DEF TypeOK
<1> QED BY <1>1, <1>2, <1>3, <1>4, <1>5, <1>6, <1>7, Zenon
        DEF Effect, CreateUser, Remove, SetPassword, Bootstrap

\* Every step keeps the types.
LEMMA TypeNext == ASSUME TypeOK, Next PROVE TypeOK'
<1>1. /\ account' \in [User -> Account \cup {NoAccount}]
      /\ session' \in [Session -> Row \cup {NoSession}]
  BY NextEffect, AccountType, SessionType
<1>2. ASSUME NEW p \in Request, Step(p)
      PROVE  request' \in [Request -> Local] /\ \A q \in Request : Known(request'[q])
  <2>1. PICK r : Known(r) /\ Go(p, r) BY <1>2, StepKnown
  <2>2. r \in Local BY <2>1 DEF Known
  <2>3. request' = [request EXCEPT ![p] = r] BY <2>1 DEF Go
  <2>4. \A q \in Request : request'[q] = IF q = p THEN r ELSE request[q]
    BY <2>3 DEF TypeOK
  <2> QED BY <2>1, <2>2, <2>3, <2>4 DEF TypeOK
<1>3. CASE Restart
  <2>1. \A q \in Request : request'[q] = Idle BY <1>3 DEF Restart
  <2>2. Idle \in Local BY IdleKnown DEF Known
  <2> QED BY <1>1, <1>3, <2>1, <2>2, IdleKnown DEF Restart, TypeOK, Known
<1>4. CASE UNCHANGED request BY <1>1, <1>4 DEF TypeOK, Known
<1> QED
  BY <1>1, <1>2, <1>3, <1>4 DEF Next, ResetPassword, Expire, PurgeExpiredSessions, TypeOK, Known

-----------------------------------------------------------------------------
(* Sessions and passwords.                                                   *)

\* What Owned and SessionFitsPassword say of one session.
Fits(s) ==
    Live(s) => /\ Exists(session[s].user)
               /\ session[s].late \/ session[s].password = account[session[s].user].password

\* A session that a step leaves alone fits if its account keeps its password.
LEMMA StillFits ==
    ASSUME NEW s \in Session, Fits(s), session'[s] = session[s],
           Live(s) => /\ account'[session[s].user] # NoAccount
                      /\ account'[session[s].user].password = account[session[s].user].password
    PROVE  Fits(s)'
BY DEF Fits, Live, Exists

\* Every effect keeps every session fitting.
LEMMA FitsNext ==
    ASSUME TypeOK, Effect, NEW s \in Session, Fits(s)
    PROVE  Fits(s)'
<1> USE DEF TypeOK
<1>0. Live(s) => /\ session[s] \in Row /\ session[s].user \in User
                 /\ Exists(session[s].user) /\ account[session[s].user] \in Account
  BY DEF Fits, Live, Exists, Row
<1>1. CASE UNCHANGED <<account, session>> BY <1>0, <1>1, StillFits DEF Exists
<1>2. ASSUME NEW p \in Request, CreateSession(p) PROVE Fits(s)'
  <2>1. request[p].user \in User /\ Exists(request[p].user) /\ UNCHANGED account
    BY <1>2, UserKnown DEF CreateSession, At
  <2>2. PICK n \in Session : OpenSession(p, n) BY <1>2 DEF CreateSession
  <2>3. CASE s = n
    <3>1. /\ session'[s].user = request[p].user /\ session'[s].password = request[p].read
          /\ session'[s].late = (Exists(request[p].user) =>
               account[request[p].user].disabled
               \/ account[request[p].user].password # request[p].read)
      BY <2>2, <2>3 DEF OpenSession
    <3> QED BY <2>1, <3>1 DEF Fits, Exists
  <2>4. CASE s # n
    <3>1. session'[s] = session[s] BY <2>2, <2>4 DEF OpenSession
    <3> QED BY <1>0, <2>1, <3>1, StillFits DEF Exists
  <2> QED BY <2>3, <2>4
<1>3. ASSUME NEW gone, session' = Without(gone), s \in gone PROVE Fits(s)'
  BY <1>3 DEF Without, Fits, Live
<1>4. ASSUME NEW gone, session' = Without(gone), s \notin gone PROVE session'[s] = session[s]
  BY <1>4 DEF Without
<1>5. ASSUME NEW gone, session' = Without(gone), UNCHANGED account PROVE Fits(s)'
  BY <1>0, <1>3, <1>4, <1>5, StillFits DEF Exists
<1>6. ASSUME NEW n \in Session, NEW b \in BOOLEAN, Slide(n, b) PROVE Fits(s)'
  <2>1. CASE s = n
    <3>1. /\ session'[s].user = session[s].user /\ session'[s].late = session[s].late
          /\ session'[s].password = session[s].password
      BY <1>0, <1>6, <2>1 DEF Slide, Row
    <3> QED BY <1>6, <2>1, <3>1 DEF Slide, Fits, Exists
  <2>2. CASE s # n
    <3>1. session'[s] = session[s] BY <1>6, <2>2 DEF Slide
    <3> QED BY <1>0, <1>6, <3>1, StillFits DEF Slide, Exists
  <2> QED BY <2>1, <2>2
<1>7. ASSUME NEW p \in Request, NEW w \in Password, ChangePassword(p, w) PROVE Fits(s)'
  <2> DEFINE u == request[p].user
  <2>1. u \in User BY <1>7, UserKnown DEF ChangePassword, At
  <2>2. CASE s \notin SessionsOf(u)
    <3>1. session'[s] = session[s] BY <1>7, <2>2 DEF ChangePassword
    <3>2. Live(s) => session[s].user # u BY <2>2 DEF SessionsOf
    <3>3. Live(s) => account'[session[s].user] = account[session[s].user]
      BY <1>0, <1>7, <2>1, <3>2 DEF ChangePassword, SetAccount
    <3> QED BY <1>0, <3>1, <3>3, StillFits DEF Exists
  <2>3. CASE s \in SessionsOf(u) /\ s = request[p].me
    <3>1. session[s].user = u /\ Live(s) BY <2>3 DEF SessionsOf
    <3>2. session'[s] = [session[s] EXCEPT !.password = w] BY <1>7, <2>3 DEF ChangePassword
    <3>3. session'[s].user = u /\ session'[s].password = w BY <1>0, <3>1, <3>2 DEF Row
    <3>4. account'[u] = [account[u] EXCEPT !.password = w]
      BY <1>0, <1>7, <2>1, <3>1 DEF ChangePassword, SetAccount
    <3>5. account'[u].password = w /\ account'[u] # NoAccount
      BY <1>0, <3>1, <3>4, NewPassword, AccountsAssumption
    <3> QED BY <3>3, <3>5 DEF Fits, Exists
  <2>4. CASE s \in SessionsOf(u) /\ s # request[p].me
    <3>1. session'[s] = NoSession BY <1>7, <2>4 DEF ChangePassword
    <3> QED BY <3>1 DEF Fits, Live
  <2> QED BY <2>2, <2>3, <2>4
<1>8. ASSUME NEW p \in Request, NEW u \in User, NEW a \in Account, CreateUser(p, u, a)
      PROVE  Fits(s)'
  <2>1. Live(s) => account'[session[s].user] = account[session[s].user]
    BY <1>0, <1>8 DEF CreateUser, FreeUser
  <2> QED BY <1>0, <1>8, <2>1, StillFits DEF CreateUser, Exists
<1>9. ASSUME NEW p \in Request, Remove(p) PROVE Fits(s)'
  <2> DEFINE u == request[p].user
  <2>1. CASE s \in SessionsOf(u) BY <1>3, <1>9, <2>1 DEF Remove
  <2>2. CASE s \notin SessionsOf(u)
    <3>1. session'[s] = session[s] BY <1>4, <1>9, <2>2 DEF Remove
    <3>2. Live(s) => account'[session[s].user] = account[session[s].user]
      BY <1>0, <1>9, <2>2 DEF Remove, SessionsOf
    <3> QED BY <1>0, <3>1, <3>2, StillFits DEF Exists
  <2> QED BY <2>1, <2>2
<1>10. ASSUME NEW u \in User, NEW c \in Change, Write(u, c) PROVE Fits(s)'
  <2>1. CASE Live(s) /\ session[s].user = u
    <3>1. account'[u] = Revised(account[u], c)
      BY <1>0, <1>10, <2>1 DEF Write, SetAccount
    <3>2. account'[u] \in Account /\ account'[u].password = account[u].password
      BY <1>0, <2>1, <3>1, ChangedAccount
    <3> QED BY <1>10, <2>1, <3>2, StillFits, AccountsAssumption DEF Write
  <2>2. CASE Live(s) /\ session[s].user # u
    <3>1. account'[session[s].user] = account[session[s].user]
      BY <1>0, <1>10, <2>2 DEF Write, SetAccount
    <3> QED BY <1>0, <1>10, <2>2, <3>1, StillFits DEF Write, Exists
  <2> QED BY <1>10, <2>1, <2>2, StillFits DEF Write
<1>11. ASSUME NEW u \in User, NEW w \in Password, SetPassword(u, w) PROVE Fits(s)'
  <2>1. CASE s \in SessionsOf(u) BY <1>3, <1>11, <2>1 DEF SetPassword
  <2>2. CASE s \notin SessionsOf(u)
    <3>1. session'[s] = session[s] BY <1>4, <1>11, <2>2 DEF SetPassword
    <3>2. Live(s) => account'[session[s].user] = account[session[s].user]
      BY <1>0, <1>11, <2>2 DEF SetPassword, SessionsOf
    <3> QED BY <1>0, <3>1, <3>2, StillFits DEF Exists
  <2> QED BY <2>1, <2>2
<1>12. ASSUME NEW w \in Password, Bootstrap(w) PROVE Fits(s)'
  <2>1. ~Live(s) BY <1>0, <1>12 DEF Bootstrap
  <2> QED BY <1>12, <2>1 DEF Bootstrap, Fits, Live
<1> HIDE DEF TypeOK
<1> QED BY <1>1, <1>2, <1>5, <1>6, <1>7, <1>8, <1>9, <1>10, <1>11, <1>12, UpdateWrites DEF Effect

-----------------------------------------------------------------------------
(* Disabled accounts.                                                        *)

\* A request is about to revoke the sessions of u.
Revoking(u) == \E p \in Request : At(p, "revoke") /\ request[p].user = u

\* The sessions of u may stay although u is disabled.
Excused(u) == u \in unrevoked \/ Revoking(u)

\* u has no session.
SignedOut(u) == \A s \in Session : Live(s) => session[s].user # u

\* What DisabledSignedOut says of one session.
Signed(s) ==
    Live(s) /\ account[session[s].user].disabled => session[s].late \/ Excused(session[s].user)

\* The property says that every session is signed for.
LEMMA AllSigned == DisabledSignedOut <=> \A s \in Session : Signed(s)
BY DEF DisabledSignedOut, Signed, Excused, Revoking

\* A request about to revoke does so, or it gives up.
LEMMA AtRevoke ==
    ASSUME NEW p \in Request, Step(p), At(p, "revoke")
    PROVE  Revoke(p) \/ GiveUp(p)
<1>1. ASSUME NEW u \in User, Authenticate(p, u) PROVE FALSE BY <1>1 DEF Authenticate, At
<1>2. ASSUME NEW s, NEW l, Arrive(p, s, l) PROVE FALSE BY <1>2 DEF Arrive, At
<1>3. CASE CreateSession(p) \/ DeleteSession(p) \/ Touch(p) \/ Confirm(p)
  BY <1>3 DEF CreateSession, DeleteSession, Touch, Confirm, At
<1>4. ASSUME NEW w, ChangePassword(p, w) \/ Reset(p, w) PROVE FALSE
  BY <1>4 DEF ChangePassword, Reset, At
<1>5. ASSUME NEW u, NEW a, CreateUser(p, u, a) PROVE FALSE BY <1>5 DEF CreateUser, At
<1>6. CASE Find(p) \/ Count(p) \/ Remove(p) \/ Update(p) \/ Reread(p)
  BY <1>6 DEF Find, Count, Remove, Update, Reread, At
<1> QED BY <1>1, <1>2, <1>3, <1>4, <1>5, <1>6 DEF Step

\* A revocation leaves no session.
LEMMA Dropped ==
    ASSUME NEW u, session' = Without(SessionsOf(u))
    PROVE  SignedOut(u)'
BY DEF Without, SessionsOf, SignedOut, Live

\* A failure excuses the sessions of an account until they go.
LEMMA UnrevokedKept ==
    ASSUME Next, NEW u \in unrevoked
    PROVE  u \in unrevoked' \/ SignedOut(u)'
<1>1. ASSUME NEW v, session' = Without(SessionsOf(v)), unrevoked' = unrevoked \ {v}
      PROVE  u \in unrevoked' \/ SignedOut(u)'
  BY <1>1, Dropped
<1>2. ASSUME unrevoked \subseteq unrevoked' PROVE u \in unrevoked' BY <1>2
<1>3. ASSUME NEW p \in Request, Step(p)
      PROVE  \/ unrevoked \subseteq unrevoked'
             \/ \E v : session' = Without(SessionsOf(v)) /\ unrevoked' = unrevoked \ {v}
  <2>1. CASE Remove(p) \/ Revoke(p) BY <2>1 DEF Remove, Revoke
  <2>2. CASE \E w \in Password : Reset(p, w) BY <2>2 DEF Reset, SetPassword
  <2>3. CASE GiveUp(p) BY <2>3 DEF GiveUp
  <2>4. CASE UNCHANGED unrevoked BY <2>4
  <2>5. ASSUME NEW x \in User, NEW a, Authenticate(p, x) \/ CreateUser(p, x, a)
        PROVE  UNCHANGED unrevoked
    BY <2>5 DEF Authenticate, CreateUser
  <2>6. ASSUME NEW s, NEW l, Arrive(p, s, l) PROVE UNCHANGED unrevoked BY <2>6 DEF Arrive
  <2>7. ASSUME NEW w, ChangePassword(p, w) PROVE UNCHANGED unrevoked
    BY <2>7 DEF ChangePassword
  <2>8. CASE CreateSession(p) \/ DeleteSession(p) \/ Touch(p) \/ Confirm(p) \/ Find(p)
             \/ Count(p) \/ Update(p) \/ Reread(p)
    BY <2>8 DEF CreateSession, DeleteSession, Touch, Confirm, Find, Count, Update, Reread
  <2> QED BY <1>3, <2>1, <2>2, <2>3, <2>4, <2>5, <2>6, <2>7, <2>8 DEF Step
<1>4. CASE Restart BY <1>2, <1>4 DEF Restart
<1>5. ASSUME NEW v \in User, NEW w \in Password, ResetPassword(v, w)
      PROVE  u \in unrevoked' \/ SignedOut(u)'
  BY <1>1, <1>5 DEF ResetPassword, SetPassword
<1> QED BY <1>1, <1>2, <1>3, <1>4, <1>5 DEF Next, Expire, PurgeExpiredSessions

\* So does a revocation that is to come.
LEMMA RevokingKept ==
    ASSUME TypeOK, Next, NEW u, Revoking(u)
    PROVE  Excused(u)' \/ SignedOut(u)'
<1>1. PICK p \in Request : At(p, "revoke") /\ request[p].user = u BY DEF Revoking
<1>2. CASE request'[p] = request[p] BY <1>1, <1>2 DEF Excused, Revoking, At
<1>3. CASE Revoke(p) BY <1>1, <1>3, Dropped DEF Revoke
<1>4. CASE GiveUp(p) BY <1>1, <1>4 DEF GiveUp, Excused
<1>5. CASE Restart BY <1>1, <1>5 DEF Restart, Excused
<1>6. ASSUME NEW q \in Request, q # p, Step(q) PROVE request'[p] = request[p]
  BY <1>6, StepKnown DEF Go, TypeOK
<1> QED BY <1>1, <1>2, <1>3, <1>4, <1>5, <1>6, AtRevoke
        DEF Next, ResetPassword, Expire, PurgeExpiredSessions

\* The excuse of an account ends with its sessions.
LEMMA ExcusedKept ==
    ASSUME TypeOK, Next, NEW u, Excused(u)
    PROVE  Excused(u)' \/ SignedOut(u)'
BY UnrevokedKept, RevokingKept DEF Excused

\* Who disables an account is about to revoke its sessions.
LEMMA NewlyDisabled ==
    ASSUME TypeOK, Effect, NEW u \in User, Exists(u), ~account[u].disabled,
           account'[u] # NoAccount, account'[u].disabled
    PROVE  Excused(u)'
<1>0. account[u] \in Account BY DEF TypeOK, Exists
<1>1. account'[u] # account[u] OBVIOUS
<1>2. ASSUME NEW p \in Request, Update(p) PROVE Excused(u)'
  <2>1. /\ request[p].user \in User /\ request[p].to \in Change
        /\ Write(request[p].user, request[p].to)
    BY <1>2, UpdateWrites
  <2>2. request[p].user = u BY <1>1, <2>1 DEF Write, SetAccount, TypeOK
  <2>3. account'[u] = Revised(account[u], request[p].to)
    BY <2>1, <2>2 DEF Write, SetAccount, TypeOK
  <2>4. request[p].to.disabled BY <1>0, <2>1, <2>3, ChangedAccount
  <2>5. request'[p] = [Idle EXCEPT !.at = "revoke", !.user = u]
    BY <1>2, <2>2, <2>4 DEF Update, Go, TypeOK
  <2>6. request'[p].at = "revoke" /\ request'[p].user = u BY <2>5 DEF Idle
  <2> QED BY <2>6 DEF Excused, Revoking, At
<1>3. ASSUME NEW v \in User, NEW w \in Password,
             account'[u] = [account[u] EXCEPT !.password = w]
      PROVE  FALSE
  BY <1>0, <1>3, NewPassword
<1>4. ASSUME NEW p \in Request, NEW w \in Password, ChangePassword(p, w) PROVE FALSE
  <2>1. request[p].user \in User BY <1>4, UserKnown DEF ChangePassword, At
  <2>2. account'[u] = [account[u] EXCEPT !.password = w]
    BY <1>1, <1>4, <2>1 DEF ChangePassword, SetAccount, TypeOK
  <2> QED BY <1>3, <2>2
<1>5. ASSUME NEW v \in User, NEW w \in Password, SetPassword(v, w) PROVE FALSE
  <2>1. account'[u] = [account[u] EXCEPT !.password = w]
    BY <1>1, <1>5 DEF SetPassword, TypeOK
  <2> QED BY <1>3, <2>1
<1>6. ASSUME NEW p \in Request, NEW v \in User, NEW a, CreateUser(p, v, a) PROVE FALSE
  BY <1>1, <1>6 DEF CreateUser, FreeUser, TypeOK
<1>7. ASSUME NEW p \in Request, Remove(p) PROVE FALSE BY <1>1, <1>7 DEF Remove, TypeOK
<1>8. ASSUME NEW w \in Password, Bootstrap(w) PROVE FALSE BY <1>8 DEF Bootstrap
<1> QED BY <1>1, <1>2, <1>4, <1>5, <1>6, <1>7, <1>8 DEF Effect, CreateSession, Slide

\* A session is one of before, or has been opened in this step.
LEMMA SessionOrigin ==
    ASSUME TypeOK, Effect, NEW s \in Session, Live(s)'
    PROVE  \/ /\ Live(s) /\ session'[s].user = session[s].user
              /\ session'[s].late = session[s].late
           \/ \E p \in Request : CreateSession(p) /\ OpenSession(p, s)
<1> DEFINE Old == Live(s) /\ session'[s].user = session[s].user
                  /\ session'[s].late = session[s].late
<1>0. Live(s) => session[s] \in Row BY DEF TypeOK, Live
<1>1. CASE session'[s] = session[s] BY <1>1 DEF Live
<1>2. ASSUME NEW p \in Request, NEW n \in Session, OpenSession(p, n), n # s PROVE Old
  <2>1. session'[s] = session[s] BY <1>2 DEF OpenSession, TypeOK
  <2> QED BY <2>1 DEF Live
<1>3. ASSUME NEW gone, session' = Without(gone) PROVE Old BY <1>3 DEF Without, Live
<1>4. ASSUME NEW n \in Session, NEW b \in BOOLEAN, Slide(n, b) PROVE Old
  <2>1. CASE n = s
    <3>1. session'[s] = [session[s] EXCEPT !.expired = b] /\ Live(s)
      BY <1>4, <2>1 DEF Slide, TypeOK
    <3> QED BY <1>0, <3>1 DEF Row
  <2>2. CASE n # s
    <3>1. session'[s] = session[s] BY <1>4, <2>2 DEF Slide, TypeOK
    <3> QED BY <3>1 DEF Live
  <2> QED BY <2>1, <2>2
<1>5. ASSUME NEW p \in Request, NEW w \in Password, ChangePassword(p, w) PROVE Old
  <2>1. session'[s] \in {session[s], NoSession, [session[s] EXCEPT !.password = w]}
    BY <1>5 DEF ChangePassword
  <2>2. session'[s] # NoSession BY DEF Live
  <2>3. CASE session'[s] = session[s] BY <2>3 DEF Live
  <2>4. CASE session'[s] = [session[s] EXCEPT !.password = w] /\ session'[s] # session[s]
    <3>1. Live(s) BY <1>5, <2>2, <2>4 DEF ChangePassword, SessionsOf
    <3> QED BY <1>0, <2>4, <3>1 DEF Row
  <2> QED BY <2>1, <2>2, <2>3, <2>4
<1>6. ASSUME NEW p \in Request, CreateSession(p)
      PROVE  Old \/ (CreateSession(p) /\ OpenSession(p, s))
  BY <1>2, <1>6 DEF CreateSession
<1> HIDE DEF Old
<1>7. Old \/ \E p \in Request : CreateSession(p) /\ OpenSession(p, s)
  <2>1. ASSUME UNCHANGED session PROVE Old BY <2>1 DEF Old, Live
  <2>2. ASSUME NEW p \in Request, Update(p) PROVE UNCHANGED session BY <2>2 DEF Update
  <2> QED BY <1>3, <1>4, <1>5, <1>6, <2>1, <2>2
          DEF Effect, CreateUser, Remove, SetPassword, Bootstrap
<1> QED BY <1>7 DEF Old

\* Every step keeps every session signed for.
LEMMA SignedNext ==
    ASSUME TypeOK, Next, NEW s \in Session, Fits(s), Signed(s)
    PROVE  Signed(s)'
<1>0. TypeOK' /\ Fits(s)' /\ Effect BY TypeNext, NextEffect, FitsNext
<1>1. SUFFICES ASSUME Live(s)', NEW u, u = session'[s].user,
                      account'[u].disabled, ~session'[s].late
               PROVE  Excused(u)'
  BY DEF Signed, Excused, Revoking
<1>2. u \in User /\ account'[u] # NoAccount BY <1>0, <1>1 DEF TypeOK, Live, Row, Fits, Exists
<1>3. CASE Live(s) /\ session'[s].user = session[s].user /\ session'[s].late = session[s].late
  <2>1. Exists(u) BY <1>1, <1>3 DEF Fits
  <2>2. CASE account[u].disabled
    <3>1. Excused(u) BY <1>1, <1>3, <2>2 DEF Signed
    <3>2. ~SignedOut(u)' BY <1>1 DEF SignedOut
    <3> QED BY <3>1, <3>2, ExcusedKept
  <2>3. CASE ~account[u].disabled BY <1>0, <1>1, <1>2, <2>1, <2>3, NewlyDisabled
  <2> QED BY <2>2, <2>3
<1>4. ASSUME NEW p \in Request, CreateSession(p), OpenSession(p, s) PROVE FALSE
  <2>1. /\ session'[s].user = request[p].user
        /\ session'[s].late = (Exists(request[p].user) =>
             account[request[p].user].disabled
             \/ account[request[p].user].password # request[p].read)
    BY <1>4 DEF OpenSession, TypeOK
  <2>2. account[request[p].user].disabled BY <1>1, <1>4, <2>1 DEF CreateSession
  <2> QED BY <1>1, <2>1, <2>2
<1> QED BY <1>0, <1>1, <1>3, <1>4, SessionOrigin

-----------------------------------------------------------------------------
(* Owners.                                                                   *)

\* If a request takes away the last owner, it counted two, or found another role.
LEMMA LastOwner ==
    ASSUME TypeOK, NEW p \in Request, Update(p) \/ Remove(p),
           EnabledOwners # {}, EnabledOwners' = {},
           request[p].read = account[request[p].user].role,
           request[p].owners = EnabledOwners
    PROVE  FALSE
<1> DEFINE r == request[p]
           u == r.user
<1>1. u \in User /\ r.at = "write" /\ Known(r)
  BY UserKnown DEF Update, Remove, At, TypeOK
<1>2. Remove(p) \/ (Update(p) /\ r.to \in Change /\ Write(u, r.to)) BY UpdateWrites
<1>3. \A v \in User : v # u => account'[v] = account[v]
  BY <1>1, <1>2 DEF Remove, Write, SetAccount, TypeOK
<1>4. EnabledOwners = {u} BY <1>1, <1>3 DEF EnabledOwners
<1>5. IsEnabledOwner(account[u]) /\ ~IsEnabledOwner(account'[u]) BY <1>1, <1>4 DEF EnabledOwners
<1>6. Exists(u) /\ account[u] \in Account /\ r.read = "owner"
  BY <1>1, <1>5 DEF IsEnabledOwner, Exists, TypeOK
<1>7. Loses(r.to)
  <2>1. CASE Remove(p) BY <2>1 DEF Remove, Loses
  <2>2. CASE r.to \in Change /\ Write(u, r.to)
    <3>1. account'[u] = Revised(account[u], r.to)
      BY <1>1, <1>6, <2>2 DEF Write, SetAccount, TypeOK
    <3>2. /\ account'[u] # NoAccount
          /\ account'[u].role = r.to.role /\ account'[u].disabled = r.to.disabled
      BY <1>6, <2>2, <3>1, ChangedAccount, AccountsAssumption
    <3> QED BY <1>5, <3>2 DEF IsEnabledOwner, Loses
  <2> QED BY <1>2, <2>1, <2>2
<1>8. Cardinality({u}) > 1 BY <1>1, <1>4, <1>6, <1>7 DEF Known
<1>9. Cardinality({u}) = 1 BY FS_Singleton
<1> QED BY <1>8, <1>9

-----------------------------------------------------------------------------
(* The theorems.                                                             *)

\* The foreign key and the property say that every session fits.
LEMMA Fitting == Owned /\ SessionFitsPassword <=> \A s \in Session : Fits(s)
BY DEF Owned, SessionFitsPassword, Fits

\* IInv holds at first, when there are no sessions.
LEMMA Initial == ASSUME Init PROVE IInv
<1>1. \A w \in Password : NewOwner(w) \in Account BY DEF NewOwner, Account, Role
<1>2. TypeOK BY <1>1, IdleKnown, AccountsAssumption DEF Init, TypeOK, Known
<1>3. Owned /\ SessionFitsPassword /\ DisabledSignedOut
  BY DEF Init, Owned, SessionFitsPassword, DisabledSignedOut, Live
<1> QED BY <1>2, <1>3 DEF IInv

\* Every step keeps IInv.
LEMMA Inductive == ASSUME IInv, [Next]_vars PROVE IInv'
<1>1. CASE Next
  <2>1. TypeOK' BY <1>1, TypeNext DEF IInv
  <2>2. \A s \in Session : Fits(s) /\ Signed(s) BY Fitting, AllSigned DEF IInv
  <2>3. Effect BY <1>1, NextEffect DEF IInv
  <2>4. \A s \in Session : Fits(s)' /\ Signed(s)'
    BY <1>1, <2>2, <2>3, FitsNext, SignedNext DEF IInv
  <2>5. Owned' /\ SessionFitsPassword' BY <2>4 DEF Owned, SessionFitsPassword, Fits
  <2>6. DisabledSignedOut' BY <2>4 DEF DisabledSignedOut, Signed, Excused, Revoking
  <2> QED BY <2>1, <2>5, <2>6 DEF IInv
<1>2. CASE UNCHANGED vars
  BY <1>2 DEF vars, IInv, TypeOK, Owned, SessionFitsPassword, DisabledSignedOut, Live, Exists, At
<1> QED BY <1>1, <1>2

\* IInv is an invariant.
LEMMA Invariant == Spec => []IInv
BY Initial, Inductive, PTL DEF Spec

\* However sign-ins, changes of passwords and of accounts interleave and break
\* off, a session was opened with the present password of its account, unless the
\* sign-in inserted it after the change.
THEOREM PasswordFits == Spec => []SessionFitsPassword
BY Invariant, PTL DEF IInv

\* A disabled account keeps no session but those that a revocation still to come
\* will take, that a failure has spared, or that a late sign-in opened.
THEOREM DisabledOut == Spec => []DisabledSignedOut
BY Invariant, PTL DEF IInv

\* No request leaves the instance without an owner on the evidence it had: the
\* role it read or the owners it counted have changed in between.
THEOREM OwnerGuarded == Spec => LastOwnerGuarded
<1>1. ASSUME IInv, Next
      PROVE  \A p \in Request :
                (Update(p) \/ Remove(p)) /\ EnabledOwners # {} /\ EnabledOwners' = {}
                   => \/ request[p].read # account[request[p].user].role
                      \/ request[p].owners # EnabledOwners
  BY <1>1, LastOwner DEF IInv
<1> QED BY <1>1, Invariant, PTL DEF Spec, LastOwnerGuarded
=============================================================================
