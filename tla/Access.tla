------------------------------- MODULE Access --------------------------------
(***************************************************************************)
(* Accounts and sessions: UserStore (access/users.py), SessionStore        *)
(* (access/sessions.py), the password provider (access/providers.py) and   *)
(* the administrators' pages (users_* of web/ops.py).                      *)
(*                                                                         *)
(* Each operation of a store is one critical section of that store's lock, *)
(* but a request is several of them: an administrator is identified, then  *)
(* the catalog is changed, then sessions are revoked; a login checks the   *)
(* password and then opens a session.                                      *)
(***************************************************************************)
EXTENDS Integers, FiniteSets

CONSTANTS
    Users,        \* usernames
    LocalOperator,\* who every request is from in local mode; not an account
    Admins,       \* who administers accounts
    Modes,        \* the values of ATLAS_AUTH_MODE that are used
    Requests,     \* what the administrators post
    FirstUsers,   \* the accounts that exist at first
    MaxAge,       \* max_age_seconds, in ticks
    IdleTimeout,  \* idle_timeout_seconds, in ticks
    MaxEdits,     \* bound: revisions of the catalog
    MaxLogins,    \* bound: logins
    MaxTicks,     \* bound: ticks of the clock
    MaxRestarts   \* bound: restarts of the server

VARIABLES
    authMode,     \* ATLAS_AUTH_MODE
    users,        \* users.json: user -> account, or Nobody
    revision,     \* users.json: the catalog's revision
    sessions,     \* sessions.json: the session records
    admin,        \* administrator -> the request it has under way
    logins,       \* user -> is a login between the password and the session
    opened,       \* sessions opened so far; the last one's token
    ticks,        \* ticks of the clock so far
    restarts,     \* restarts so far
    hadAdmin,     \* history: there was a usable administrator in this mode
    revoked       \* history: tokens that a finished request had to revoke

accessVars == <<authMode, users, revision, sessions, admin, logins, opened, ticks,
                restarts, hadAdmin, revoked>>

Nobody == [admin |-> FALSE, password |-> FALSE, disabled |-> TRUE]
Exists(u) == users[u] # Nobody

\* A posted form: a field is left as it is, or set to yes or no; `password'
\* says that the form has a new password.
Form(kind, isAdmin, disabled, password) ==
    [kind |-> kind, admin |-> isAdmin, disabled |-> disabled, password |-> password]

Idle == [pc |-> "rest", form |-> -1, seen |-> {}, user |-> "",
         op |-> Form("none", "keep", "keep", FALSE), revoke |-> FALSE, doomed |-> {}]

ASSUME AccessAssumption ==
    /\ LocalOperator \notin Users
    /\ Admins \subseteq Users \cup {LocalOperator}
    /\ Modes \subseteq {"local", "password", "proxy"}
    /\ Requests \subseteq [kind : {"create", "update", "delete"}, admin : {"keep", "yes", "no"},
                           disabled : {"keep", "yes", "no"}, password : BOOLEAN]
    /\ FirstUsers \in [Users -> [admin : BOOLEAN, password : BOOLEAN, disabled : BOOLEAN]]
    /\ MaxAge \in Int /\ IdleTimeout \in Int

---------------------------------------------------------------------------
(* UserStore.                                                              *)

\* _is_usable_admin
UsableAdmin(account, sso) ==
    ~account.disabled /\ account.admin /\ (account.password \/ sso)

\* usable_admin_count(excluding)
OtherAdmins(u, sso) == {v \in Users \ {u} : UsableAdmin(users[v], sso)}

\* _allow_sso_admins
AllowSso == authMode = "proxy"

\* Mutant: only the account's role counts, not whether it can sign in.
KeepsAdminByRole(u, after, sso) ==
    (users[u].admin /\ ~after.admin) => \E v \in Users \ {u} : users[v].admin

\* _guard_last_admin
KeepsAdmin(u, after, sso) ==
    UsableAdmin(users[u], sso) /\ ~UsableAdmin(after, sso) => OtherAdmins(u, sso) # {}

\* Mutant: the catalog is written under the revision that was read.
WriteUsersSameRevision(to) ==
    /\ users' = to
    /\ revision' = revision

\* _write, at the next revision
WriteUsers(to) ==
    /\ users' = to
    /\ revision' = revision + 1

\* The account that the form makes of this one.
Updated(account, op) ==
    [admin    |-> IF op.admin = "keep" THEN account.admin ELSE op.admin = "yes",
     password |-> account.password \/ op.password,
     disabled |-> IF op.disabled = "keep" THEN account.disabled ELSE op.disabled = "yes"]

---------------------------------------------------------------------------
(* SessionStore.                                                           *)

Alive(record) == record.age > 0 /\ record.idle > 0

\* _write leaves the expired records out.
Pruned(records) == {record \in records : Alive(record)}

\* create
Opened(u) == [token |-> opened + 1, user |-> u, age |-> MaxAge, idle |-> IdleTimeout]

\* Mutant: the idle deadline is not tested.
ResolvesIdle(record) == record.age > 0

\* resolve's early return
Resolves(record) == Alive(record)

\* Mutant: the deadline is moved on from where it was.
SlidFromDeadline(record) == [record EXCEPT !.idle = @ + IdleTimeout]

\* resolve slides the idle deadline.
Slid(record) == [record EXCEPT !.idle = IdleTimeout]

\* invalidate_user
Without(u) == Pruned({record \in sessions : record.user # u})

---------------------------------------------------------------------------
(* Administrators.                                                         *)

\* The request is from someone who may manage accounts.
MayManage(a) ==
    IF authMode = "local" THEN a = LocalOperator
    ELSE a \in Users /\ UsableAdmin(users[a], AllowSso)

\* users_page lists the accounts...
DisplayUsers(a) ==
    /\ admin[a].pc = "rest"
    /\ MayManage(a)
    /\ admin' = [admin EXCEPT ![a].pc = "display", ![a].form = revision, ![a].seen = {users}]
    /\ UNCHANGED <<authMode, users, revision, sessions, logins, opened, ticks, restarts,
                   hadAdmin, revoked>>

\* ... and then reads the revision that its forms hold, in a second read of the
\* file: when the catalog was written in between, the page is torn, and `seen'
\* is empty.
DisplayRevision(a) ==
    /\ admin[a].pc = "display"
    /\ admin' = [admin EXCEPT ![a].pc = "rest", ![a].form = revision,
                              ![a].seen = IF admin[a].form = revision THEN @ ELSE {}]
    /\ UNCHANGED <<authMode, users, revision, sessions, logins, opened, ticks, restarts,
                   hadAdmin, revoked>>

\* The posts: the request is identified as an administrator, who may neither
\* disable, demote nor delete the account it is signed in with.
Permitted(a, u, op) ==
    a = u => op.kind # "delete" /\ op.disabled # "yes" /\ op.admin # "no"

Post(a, u, op) ==
    /\ admin[a].pc = "rest"
    /\ admin[a].form >= 0
    /\ MayManage(a)
    /\ op.kind = "update" => Exists(u)
    /\ Permitted(a, u, op)
    /\ admin' = [admin EXCEPT ![a].pc = "apply", ![a].user = u, ![a].op = op]
    /\ UNCHANGED <<authMode, users, revision, sessions, logins, opened, ticks, restarts,
                   hadAdmin, revoked>>

\* What becomes of the account: created, deleted or updated.
After(u, op) ==
    CASE op.kind = "create" -> Updated([Nobody EXCEPT !.disabled = FALSE], op)
      [] op.kind = "delete" -> Nobody
      [] op.kind = "update" -> Updated(users[u], op)

\* Mutant: a new password leaves the sessions open.
MustRevokeIfDisabled(a, u, op) ==
    op.kind = "delete" \/ (After(u, op).disabled /\ ~users[u].disabled)

\* Sessions are revoked when the account is deleted or becomes disabled, and
\* when another administrator changed the password.
MustRevoke(a, u, op) ==
    \/ op.kind = "delete"
    \/ op.kind = "update" /\ After(u, op).disabled /\ ~users[u].disabled
    \/ op.kind = "update" /\ op.password /\ a # u

\* create, update and delete of the store, under its lock
MayApply(a, u, op) ==
    /\ admin[a].form = revision
    /\ (op.kind = "create") = ~Exists(u)
    /\ KeepsAdmin(u, After(u, op), AllowSso)

\* The sessions that the change of this account must end: it can no longer sign
\* in, or not with the password that they were opened with.  A login that was
\* authenticated before the change but has no session yet is not among them.
Doomed(a, u, op) ==
    IF \/ ~users[u].disabled /\ After(u, op).disabled
       \/ users[u].password /\ op.password /\ a # u
    THEN {record.token : record \in {r \in sessions : r.user = u}}
    ELSE {}

Apply(a) ==
    LET u == admin[a].user  op == admin[a].op
    IN  /\ admin[a].pc = "apply"
        /\ revision < MaxEdits
        /\ MayApply(a, u, op)
        /\ WriteUsers([users EXCEPT ![u] = After(u, op)])
        /\ hadAdmin' = (hadAdmin \/ \E v \in Users : UsableAdmin(users'[v], AllowSso))
        /\ admin' = [admin EXCEPT ![a].pc = "finish", ![a].revoke = MustRevoke(a, u, op),
                                  ![a].doomed = Doomed(a, u, op)]
        /\ UNCHANGED <<authMode, sessions, logins, opened, ticks, restarts, revoked>>

\* A conflict, an unknown or existing account, or the last administrator.
RefuseEdit(a) ==
    /\ admin[a].pc = "apply"
    /\ ~MayApply(a, admin[a].user, admin[a].op)
    /\ admin' = [admin EXCEPT ![a] = Idle]
    /\ UNCHANGED <<authMode, users, revision, sessions, logins, opened, ticks, restarts,
                   hadAdmin, revoked>>

\* The rest of the handler: sessions are revoked, the request ends.
Finish(a) ==
    /\ admin[a].pc = "finish"
    /\ sessions' = IF admin[a].revoke THEN Without(admin[a].user) ELSE sessions
    /\ revoked' = revoked \cup admin[a].doomed
    /\ admin' = [admin EXCEPT ![a] = Idle]
    /\ UNCHANGED <<authMode, users, revision, logins, opened, ticks, restarts, hadAdmin>>

---------------------------------------------------------------------------
(* Sign-in and requests, in password mode.                                 *)

\* authenticate
Authenticate(u) ==
    /\ authMode = "password"
    /\ ~logins[u]
    /\ opened < MaxLogins
    /\ users[u].password /\ ~users[u].disabled
    /\ logins' = [logins EXCEPT ![u] = TRUE]
    /\ UNCHANGED <<authMode, users, revision, sessions, admin, opened, ticks, restarts,
                   hadAdmin, revoked>>

\* create
OpenSession(u) ==
    /\ logins[u]
    /\ opened < MaxLogins
    /\ opened' = opened + 1
    /\ sessions' = Pruned(sessions \cup {Opened(u)})
    /\ logins' = [logins EXCEPT ![u] = FALSE]
    /\ UNCHANGED <<authMode, users, revision, admin, ticks, restarts, hadAdmin, revoked>>

\* identify: a request of a session whose account is gone or disabled revokes
\* every session of that account; the other requests slide the deadline.
Identify(record) ==
    /\ authMode = "password"
    /\ Resolves(record)
    /\ sessions' = IF users[record.user].disabled THEN Without(record.user)
                   ELSE Pruned((sessions \ {record}) \cup {Slid(record)})
    /\ UNCHANGED <<authMode, users, revision, admin, logins, opened, ticks, restarts,
                   hadAdmin, revoked>>

\* logout: invalidate
Logout(record) ==
    /\ authMode = "password"
    /\ sessions' = Pruned(sessions \ {record})
    /\ UNCHANGED <<authMode, users, revision, admin, logins, opened, ticks, restarts,
                   hadAdmin, revoked>>

Tick ==
    /\ ticks < MaxTicks
    /\ ticks' = ticks + 1
    /\ sessions' = {[r EXCEPT !.age = @ - 1, !.idle = @ - 1] : r \in sessions}
    /\ UNCHANGED <<authMode, users, revision, admin, logins, opened, restarts, hadAdmin,
                   revoked>>

\* The server is stopped, with the requests it serves, and started, in either
\* mode and with or without ensure_recovery_admin.
Restart(mode, recover) ==
    LET one == [admin |-> TRUE, password |-> TRUE, disabled |-> FALSE]
    IN  /\ restarts < MaxRestarts
        /\ restarts' = restarts + 1
        /\ authMode' = mode
        /\ IF recover = {} THEN UNCHANGED <<users, revision>>
           ELSE WriteUsers([u \in Users |-> IF u \in recover THEN one ELSE users[u]])
        /\ admin' = [a \in Admins |-> Idle]
        /\ logins' = [u \in Users |-> FALSE]
        /\ hadAdmin' = \E v \in Users : UsableAdmin(users'[v], mode = "proxy")
        /\ UNCHANGED <<sessions, opened, ticks, revoked>>

AccessInit ==
    /\ authMode \in Modes
    /\ users = FirstUsers
    /\ revision = 0
    /\ sessions = {}
    /\ admin = [a \in Admins |-> Idle]
    /\ logins = [u \in Users |-> FALSE]
    /\ opened = 0 /\ ticks = 0 /\ restarts = 0
    /\ hadAdmin = \E v \in Users : UsableAdmin(users[v], AllowSso)
    /\ revoked = {}

AccessNext ==
    \/ \E a \in Admins :
         \/ DisplayUsers(a) \/ DisplayRevision(a)
         \/ \E u \in Users, op \in Requests : Post(a, u, op)
         \/ Apply(a)
         \/ RefuseEdit(a)
         \/ Finish(a)
    \/ \E u \in Users : Authenticate(u) \/ OpenSession(u)
    \/ \E record \in sessions : Identify(record) \/ Logout(record)
    \/ Tick
    \/ \E mode \in Modes, recover \in SUBSET Users :
         Cardinality(recover) <= 1 /\ Restart(mode, recover)

AccessSpec == AccessInit /\ [][AccessNext]_accessVars

---------------------------------------------------------------------------
(* Properties.                                                             *)

\* Tokens are unique, the file has no session longer than the limits, and a
\* request is for an account.
AccessTypeOK ==
    /\ users \in [Users -> [admin : BOOLEAN, password : BOOLEAN, disabled : BOOLEAN]]
    /\ \A r, s \in sessions : r.token = s.token => r = s
    /\ \A r \in sessions : r.token \in 1 .. opened /\ r.age <= MaxAge /\ r.idle <= IdleTimeout
    /\ \A a \in Admins : admin[a].pc \in {"rest", "display", "apply", "finish"}

\* "This change would leave Atlas without a usable system administrator": as
\* long as the server runs in one mode, a usable administrator, once there is
\* one, remains, whatever the administrators do to each other at once.
AccessAdminRemains ==
    hadAdmin => \E u \in Users : UsableAdmin(users[u], AllowSso)

\* The revision in a form tells whether the catalog changed since it was
\* displayed, so no administrator overwrites what it has not seen, unless the
\* page it looks at is torn.
AccessRevisionIdentifies ==
    \A a \in Admins : admin[a].form = revision => admin[a].seen \in {{}, {users}}

\* "whoever held the old credential no longer holds a live session": when the
\* request that disabled or deleted an account or changed its password ends,
\* no session is left that was open when it took effect, whatever requests
\* refreshed that session meanwhile.  The comment says more: a login on its way
\* with the old password still gets its session.
AccessRevocationHolds ==
    \A r \in sessions : r.token \notin revoked

\* A session that expired, was idle too long, or was revoked is never alive
\* again: nothing but a login makes a session.
AccessDeadStaysDead ==
    [][\A t \in 1 .. opened :
         (~ \E r \in sessions : r.token = t /\ Alive(r))
            => ~ \E r \in sessions' : r.token = t /\ Alive(r)]_accessVars

\* What administrators do to accounts at once: one of them remains, nobody
\* overwrites what it has not seen, and revoked sessions are gone.
AccessSound ==
    /\ AccessTypeOK
    /\ AccessAdminRemains
    /\ AccessRevisionIdentifies
    /\ AccessRevocationHolds

=============================================================================
