---------------------------- MODULE Authenticator ----------------------------
(***************************************************************************)
(* Authenticator: the start-up bootstrap of roles and of the first user,   *)
(* and auth(), which handler threads call concurrently.  The service may   *)
(* be killed at any moment and started again, possibly after its           *)
(* configuration file was edited; the database file survives.              *)
(*                                                                         *)
(* ODB allows one current transaction per thread.  get_perms() calls       *)
(* get_default_role() inside its transaction, which begins another one and *)
(* gets already_in_transaction.  The rest of get_default_role() and of     *)
(* that branch of get_perms() (create the user, commit) is never reached,  *)
(* so it has no action here.                                               *)
(***************************************************************************)
EXTENDS Database

CONSTANT Configs   \* the AuthConfig values the service may be started with

ConfigType == [adminRole : RoleIDs, defaultRole : RoleIDs, bootstrapUser : UserIDs]

ASSUME ConfigsAssumption == Configs \subseteq ConfigType

VARIABLES
    phase,     \* of the process: "down", in one of the two bootstraps, or "up"
    config,    \* the AuthConfig of the running process ({} before the first start)
    at,        \* where the thread is in auth()
    subject,   \* the subject of the token it verified
    result,    \* what auth() returned or threw
    used       \* history: every configuration the service was started with

authVars == <<phase, config, at, subject, result, used>>
vars == <<dbVars, authVars>>

NoResult == [kind |-> "none", perms |-> {}]
Result(kind, perms) == [kind |-> kind, perms |-> perms]

Idle == at' = [t \in Threads |-> "idle"] /\ subject' = [t \in Threads |-> {}]
        /\ result' = [t \in Threads |-> NoResult]

Init ==
    /\ DatabaseInit(EmptyStore)
    /\ phase = "down" /\ config = {} /\ used = {}
    /\ at = [t \in Threads |-> "idle"]
    /\ subject = [t \in Threads |-> {}]
    /\ result = [t \in Threads |-> NoResult]

-----------------------------------------------------------------------------
(* Roles and users *)

HasRole(d, n) == \E r \in d.roles : r.name = n
HasUser(d, u) == \E x \in d.users : x.id = u

\* A role that is there keeps the permissions it has.
OverwriteRole(d, n, perms) ==
    [d EXCEPT !.roles = {r \in @ : r.name # n} \cup {[name |-> n, perms |-> perms]}]

EnsureRole(d, n, perms) ==
    IF HasRole(d, n) THEN d
    ELSE [d EXCEPT !.roles = @ \cup {[name |-> n, perms |-> perms]}]

EnsureUserWithoutRole(d, u, n) ==
    IF HasUser(d, u) THEN d
    ELSE [d EXCEPT !.users = @ \cup {[id |-> u, roles |-> {}]}]

\* A user that is there keeps the roles it has.
EnsureUser(d, u, n) ==
    IF HasUser(d, u) THEN d
    ELSE [d EXCEPT !.users = @ \cup {[id |-> u, roles |-> {n}]}]

\* flatten_roles() of the roles of user u
FlattenRoles(d, u) ==
    UNION {r.perms : r \in {r \in d.roles :
                              \E x \in d.users : x.id = u /\ r.name \in x.roles}}

-----------------------------------------------------------------------------
(* The process *)

\* main() reads the configuration and begins to build the Authenticator.
Start ==
    /\ phase = "down"
    /\ \E c \in Configs : config' = {c} /\ used' = used \cup {c}
    /\ phase' = "admin"
    /\ UNCHANGED <<dbVars, at, subject, result>>

\* One transaction each; nothing else uses the database yet.
BootstrapAdmin ==
    /\ phase = "admin"
    /\ \E c \in config :
          db' = EnsureUser(EnsureRole(db, c.adminRole, {"administrate"}),
                           c.bootstrapUser, c.adminRole)
    /\ image' = db'
    /\ phase' = "default"
    /\ UNCHANGED <<rlock, wlock, current, config, at, subject, result, used>>

BootstrapDefaultWithAdminPerms ==
    /\ phase = "default"
    /\ \E c \in config : db' = EnsureRole(db, c.defaultRole, {"administrate"})
    /\ image' = db'
    /\ phase' = "up"
    /\ UNCHANGED <<rlock, wlock, current, config, at, subject, result, used>>

BootstrapDefault ==
    /\ phase = "default"
    /\ \E c \in config : db' = EnsureRole(db, c.defaultRole, {})
    /\ image' = db'
    /\ phase' = "up"
    /\ UNCHANGED <<rlock, wlock, current, config, at, subject, result, used>>

Crash ==
    /\ phase # "down"
    /\ LoseCache
    /\ phase' = "down"
    /\ Idle
    /\ UNCHANGED <<config, used>>

-----------------------------------------------------------------------------
(* auth() *)

\* A request with a token reaches a free handler thread.
Auth(t) ==
    /\ phase = "up" /\ at[t] = "idle"
    /\ at' = [at EXCEPT ![t] = "verify"]
    /\ UNCHANGED <<dbVars, phase, config, subject, result, used>>

Leave(t, r) ==
    /\ Rollback(t)
    /\ at' = [at EXCEPT ![t] = "done"]
    /\ result' = [result EXCEPT ![t] = r]
    /\ UNCHANGED <<phase, config, subject, used>>

RejectTokenUncaught(t) ==
    /\ at[t] = "verify"
    /\ Leave(t, Result("exception", {}))

\* verify_auth() throws AuthError.
RejectToken(t) ==
    /\ at[t] = "verify"
    /\ Leave(t, Result("auth_error", {}))

\* verify_auth() returns the subject; get_perms() begins a transaction.
AcceptToken(t) ==
    /\ at[t] = "verify"
    /\ \E u \in UserIDs : subject' = [subject EXCEPT ![t] = {u}]
    /\ Begin(t)
    /\ at' = [at EXCEPT ![t] = "begun"]
    /\ UNCHANGED <<phase, config, result, used>>

\* find<User> loads the user's roles with it.
FindUser(t) ==
    /\ at[t] = "begun"
    /\ \E u \in subject[t] :
          IF HasUser(db, u)
          THEN /\ Blockers(t, {"User", "Role"}, {}) = {}
               /\ Leave(t, Result("ok", FlattenRoles(db, u)))
          ELSE /\ Select(t, {"User"})
               /\ at' = [at EXCEPT ![t] = "absent"]
               /\ UNCHANGED <<phase, config, subject, result, used>>

GetDefaultRoleSwallowed(t) ==
    /\ at[t] = "absent"
    /\ at' = [at EXCEPT ![t] = "done"]
    /\ result' = [result EXCEPT ![t] = Result("already_in_transaction", {})]
    /\ UNCHANGED <<dbVars, phase, config, subject, used>>

\* The begin() in get_default_role()
GetDefaultRole(t) ==
    /\ at[t] = "absent"
    /\ t \in current
    /\ Leave(t, Result("already_in_transaction", {}))

\* The request goes on, or fails, without the authenticator.
Done(t) ==
    /\ at[t] = "done"
    /\ at' = [at EXCEPT ![t] = "idle"]
    /\ subject' = [subject EXCEPT ![t] = {}]
    /\ result' = [result EXCEPT ![t] = NoResult]
    /\ UNCHANGED <<dbVars, phase, config, used>>

Next ==
    \/ Start \/ BootstrapAdmin \/ BootstrapDefault \/ Crash
    \/ \E t \in Threads :
          \/ Auth(t) \/ RejectToken(t) \/ AcceptToken(t)
          \/ FindUser(t) \/ GetDefaultRole(t) \/ Done(t)

Spec == Init /\ [][Next]_vars

-----------------------------------------------------------------------------
(* Properties *)

ResultKinds == {"none", "ok", "auth_error", "already_in_transaction"}

\* Type correctness of the tables, the locks and the authenticator's own state.
TypeOK ==
    /\ db \in StoreType /\ image \in StoreType
    /\ rlock \in [Threads -> SUBSET Tables] /\ wlock \in [Threads -> SUBSET Tables]
    /\ current \subseteq Threads
    /\ phase \in {"down", "admin", "default", "up"}
    /\ config \subseteq Configs /\ used \subseteq Configs
    /\ at \in [Threads -> {"idle", "verify", "begun", "absent", "done"}]
    /\ subject \in [Threads -> SUBSET UserIDs]
    /\ result \in [Threads -> [kind : ResultKinds, perms : SUBSET Perm]]

\* Every user that was ever the bootstrap user
Named == {c.bootstrapUser : c \in used}

\* No name was ever the administrator's role and the default role, at whatever starts.
KeptApart(cs) == \A c, d \in cs : c.adminRole # d.defaultRole

\* Nobody becomes privileged by logging in.  As long as the configurations never give
\* one name to both roles, whoever auth() gives a permission was at some start the
\* bootstrap user; and the role that README.md promises everybody else on first login
\* has no permission, whichever configuration named it and in whatever order they came.
NoEscalation ==
    KeptApart(used) =>
        /\ \A t \in Threads : result[t].perms # {} => subject[t] \subseteq Named
        /\ \A r \in db.roles, c \in used : r.name = c.defaultRole => r.perms = {}

\* When auth() is over, also by an exception out of the nested begin, the thread
\* has no transaction and no lock left, so that the endpoint it runs next, or the
\* next request, can begin one.
NothingLeftBehind ==
    \A t \in Threads : at[t] \in {"idle", "done"} =>
        t \notin current /\ rlock[t] = {} /\ wlock[t] = {}

\* e has the users of d with their permissions; only the users in some may have got more.
PermsKept(d, e, some) ==
    \A x \in d.users :
        /\ HasUser(e, x.id)
        /\ FlattenRoles(d, x.id) \subseteq FlattenRoles(e, x.id)
        /\ x.id \notin some => FlattenRoles(e, x.id) = FlattenRoles(d, x.id)

\* Nobody is disturbed by a restart, an edited configuration or somebody's login: no
\* user is lost or has a permission taken away, and only the bootstrap user of the
\* running configuration (whom README.md promises the admin role) may come to have more.
OthersUndisturbed ==
    [][PermsKept(db, db', {c.bootstrapUser : c \in config})]_vars

\* One name for the administrator's role, and for no other role
OneAdminRole(cs) == \A c, d \in cs : c.adminRole = d.adminRole /\ c.adminRole # d.defaultRole

\* Once the service is up its bootstrap user is an administrator, even when
\* earlier starts were killed half-way or named other users, unless an edit of
\* the configuration ever gave the name of that role another meaning.
AdministratorExists ==
    phase = "up" /\ OneAdminRole(used) =>
        \A c \in config : "administrate" \in FlattenRoles(db, c.bootstrapUser)

\* README.md: "Users other than `auth_bootstrap_admin_user` are given this role
\* upon FIRST login": a user whose token is good is not turned away.
FirstLoginIsWelcome ==
    \A t \in Threads : result[t].kind \in {"none", "auth_error", "ok"}

\* README.md: "This role is given to `auth_bootstrap_admin_user` upon any login".
AdminRoleUponLogin ==
    \A t \in Threads : \A c \in config :
        result[t].kind = "ok" /\ subject[t] = {c.bootstrapUser} =>
            \E x \in db.users : x.id = c.bootstrapUser /\ c.adminRole \in x.roles
=============================================================================
