------------------------- MODULE AuthenticatorProofs -------------------------
(***************************************************************************)
(* The safety properties of module Authenticator, for any number of        *)
(* threads, users and roles and any sequence of configurations.  They      *)
(* follow from one inductive invariant: nothing but the bootstrap writes,  *)
(* every user was the bootstrap user once, and a thread has a transaction  *)
(* exactly in the middle of get_perms().                                   *)
(***************************************************************************)
EXTENDS Authenticator, TLAPS

\* Only complete transactions are visible, and no thread holds a write lock.
NothingWritten == image = db /\ \A t \in Threads : wlock[t] = {}

\* A thread's transaction lasts from AcceptToken to the end of get_perms().
InTransaction ==
    \A t \in Threads : at[t] \notin {"begun", "absent"} => t \notin current /\ rlock[t] = {}

OneSubject == \A t \in Threads : \A u, v \in subject[t] : u = v

ResultAtTheEnd == \A t \in Threads : at[t] # "done" => result[t] = NoResult

\* auth() runs only when the service is up.
Serving == \A t \in Threads : at[t] # "idle" => phase = "up"

UsersNamed ==
    /\ \A x \in db.users : x.id \in Named
    /\ config \subseteq used

RolesExist == \A x \in db.users : \A n \in x.roles : HasRole(db, n)

\* Every role was created by a bootstrap, from one of the configurations.
RolesConfigured ==
    \A r \in db.roles : \E c \in used :
        \/ r = [name |-> c.adminRole, perms |-> {"administrate"}]
        \/ r = [name |-> c.defaultRole, perms |-> {}]

GrantedToNamed == \A t \in Threads : result[t].perms # {} => subject[t] \subseteq Named

IInv ==
    /\ TypeOK /\ NothingWritten /\ InTransaction /\ OneSubject /\ ResultAtTheEnd /\ Serving
    /\ UsersNamed /\ RolesExist /\ RolesConfigured /\ GrantedToNamed

-----------------------------------------------------------------------------
(* The bootstrap transactions *)

\* bootstrap_admin and bootstrap_default: creating a role that is not there
\* changes nobody's permissions, because nobody has it yet.
LEMMA EnsureRoleKeeps ==
    ASSUME NEW d \in StoreType, NEW n \in RoleIDs, NEW perms \in SUBSET Perm,
           \A x \in d.users : \A m \in x.roles : HasRole(d, m)
    PROVE  LET e == EnsureRole(d, n, perms) IN
           /\ e \in StoreType /\ HasRole(e, n) /\ e.users = d.users
           /\ \A r \in e.roles : r \in d.roles \/ r = [name |-> n, perms |-> perms]
           /\ \A x \in e.users : \A m \in x.roles : HasRole(e, m)
           /\ PermsKept(d, e, {})
<1> DEFINE e == EnsureRole(d, n, perms)
           new == [name |-> n, perms |-> perms]
<1>1. CASE HasRole(d, n)
  <2>1. e = d
    BY <1>1 DEF EnsureRole
  <2> QED
    BY <1>1, <2>1 DEF PermsKept, HasUser
<1>2. CASE ~ HasRole(d, n)
  <2>1. new \in RoleRow /\ new.name = n
    BY DEF RoleRow
  <2>2. /\ e.users = d.users /\ e.roles = d.roles \cup {new} /\ e \in StoreType
    <3>1. e = [d EXCEPT !.roles = d.roles \cup {new}]
      BY <1>2 DEF EnsureRole
    <3>2. d.roles \cup {new} \in SUBSET RoleRow
      BY <2>1 DEF StoreType
    <3> HIDE DEF e, new
    <3> QED
      BY <3>1, <3>2 DEF StoreType
  <2> HIDE DEF e, new
  <2>3. HasRole(e, n) /\ \A x \in e.users : \A m \in x.roles : HasRole(e, m)
    BY <2>1, <2>2 DEF HasRole
  <2>4. ASSUME NEW x \in d.users PROVE FlattenRoles(e, x.id) = FlattenRoles(d, x.id)
    <3>1. \A y \in d.users : n \notin y.roles
      BY <1>2
    <3>2. \A r \in e.roles : (\E y \in e.users : y.id = x.id /\ r.name \in y.roles) => r \in d.roles
      BY <2>1, <2>2, <3>1
    <3>3. {r \in e.roles : \E y \in e.users : y.id = x.id /\ r.name \in y.roles}
        = {r \in d.roles : \E y \in d.users : y.id = x.id /\ r.name \in y.roles}
      BY <2>2, <3>2
    <3> QED
      BY <3>3 DEF FlattenRoles
  <2>5. \A r \in e.roles : r \in d.roles \/ r = new
    BY <2>2
  <2> QED
    BY <2>2, <2>3, <2>4, <2>5 DEF PermsKept, HasUser, e, new
<1> QED
  BY <1>1, <1>2

\* bootstrap_admin: creating a user that is not there changes nobody else.
LEMMA EnsureUserKeeps ==
    ASSUME NEW d \in StoreType, NEW u \in UserIDs, NEW n \in RoleIDs, HasRole(d, n),
           \A x \in d.users : \A m \in x.roles : HasRole(d, m)
    PROVE  LET e == EnsureUser(d, u, n) IN
           /\ e \in StoreType /\ HasUser(e, u) /\ e.roles = d.roles
           /\ \A x \in e.users : x \in d.users \/ x = [id |-> u, roles |-> {n}]
           /\ \A x \in e.users : \A m \in x.roles : HasRole(e, m)
           /\ PermsKept(d, e, {})
<1> DEFINE e == EnsureUser(d, u, n)
           new == [id |-> u, roles |-> {n}]
<1>1. CASE HasUser(d, u)
  <2>1. e = d
    BY <1>1 DEF EnsureUser
  <2> QED
    BY <1>1, <2>1 DEF PermsKept, HasUser
<1>2. CASE ~ HasUser(d, u)
  <2>1. new \in UserRow /\ new.id = u /\ new.roles = {n}
    BY DEF UserRow
  <2>2. e.users = d.users \cup {new} /\ e.roles = d.roles /\ e \in StoreType
    <3>1. e = [d EXCEPT !.users = d.users \cup {new}]
      BY <1>2 DEF EnsureUser
    <3>2. d.users \cup {new} \in SUBSET UserRow
      BY <2>1 DEF StoreType
    <3> HIDE DEF e, new
    <3> QED
      BY <3>1, <3>2 DEF StoreType
  <2>3. \A x \in e.users : x \in d.users \/ x = new
    BY <2>2
  <2> HIDE DEF e, new
  <2>4. HasUser(e, u) /\ \A x \in e.users : \A m \in x.roles : HasRole(e, m)
    BY <2>1, <2>2 DEF HasUser, HasRole
  <2>5. ASSUME NEW x \in d.users
        PROVE  HasUser(e, x.id) /\ FlattenRoles(e, x.id) = FlattenRoles(d, x.id)
    <3>1. x.id # u
      BY <1>2 DEF HasUser
    <3>2. {r \in e.roles : \E y \in e.users : y.id = x.id /\ r.name \in y.roles}
        = {r \in d.roles : \E y \in d.users : y.id = x.id /\ r.name \in y.roles}
      BY <2>1, <2>2, <3>1
    <3> QED
      BY <2>2, <3>2 DEF FlattenRoles, HasUser
  <2> QED
    BY <2>2, <2>3, <2>4, <2>5 DEF PermsKept, e, new
<1> QED
  BY <1>1, <1>2

-----------------------------------------------------------------------------
(* Initiation and consecution *)

\* A new database file and a service that is down.
LEMMA InitInv == Init => IInv
<1> SUFFICES ASSUME Init PROVE IInv
  OBVIOUS
<1> USE DEF Init, DatabaseInit
<1>1. EmptyStore \in StoreType
  BY DEF EmptyStore, StoreType
<1>2. TypeOK
  <2>1. result \in [Threads -> [kind : ResultKinds, perms : SUBSET Perm]]
    BY DEF NoResult, ResultKinds
  <2> QED
    BY <1>1, <2>1 DEF TypeOK
<1>3. UsersNamed /\ RolesExist /\ RolesConfigured
  BY DEF UsersNamed, RolesExist, RolesConfigured, EmptyStore
<1> QED
  BY <1>2, <1>3 DEF IInv, NothingWritten, InTransaction, OneSubject, ResultAtTheEnd, Serving,
     GrantedToNamed, NoResult

\* The two bootstrap transactions, run when no thread is in auth().
LEMMA BootstrapInv ==
    ASSUME IInv, BootstrapAdmin \/ BootstrapDefault PROVE IInv' /\ PermsKept(db, db', {})
<1> USE ConfigsAssumption
<1>1. db \in StoreType /\ {"administrate"} \in SUBSET Perm /\ {} \in SUBSET Perm
  BY DEF IInv, TypeOK, Perm
<1>2. PICK c \in config :
        \/ /\ phase = "admin" /\ phase' = "default"
           /\ db' = EnsureUser(EnsureRole(db, c.adminRole, {"administrate"}),
                              c.bootstrapUser, c.adminRole)
        \/ /\ phase = "default" /\ phase' = "up"
           /\ db' = EnsureRole(db, c.defaultRole, {})
  BY DEF BootstrapAdmin, BootstrapDefault
<1>3. c.adminRole \in RoleIDs /\ c.defaultRole \in RoleIDs /\ c.bootstrapUser \in UserIDs
  BY DEF IInv, TypeOK, ConfigType
<1>4. \A x \in db.users : \A m \in x.roles : HasRole(db, m)
  BY DEF IInv, RolesExist
<1>5. /\ db' \in StoreType /\ PermsKept(db, db', {})
      /\ \A x \in db'.users : \A m \in x.roles : HasRole(db', m)
      /\ \A x \in db'.users : x \in db.users \/ x = [id |-> c.bootstrapUser, roles |-> {c.adminRole}]
      /\ \A r \in db'.roles : \/ r \in db.roles
                               \/ r = [name |-> c.adminRole, perms |-> {"administrate"}]
                               \/ r = [name |-> c.defaultRole, perms |-> {}]
  <2>1. CASE db' = EnsureRole(db, c.defaultRole, {})
    BY <2>1, <1>1, <1>3, <1>4, EnsureRoleKeeps
  <2>2. CASE db' = EnsureUser(EnsureRole(db, c.adminRole, {"administrate"}),
                              c.bootstrapUser, c.adminRole)
    <3> DEFINE e == EnsureRole(db, c.adminRole, {"administrate"})
    <3>1. /\ e \in StoreType /\ HasRole(e, c.adminRole) /\ e.users = db.users
          /\ \A r \in e.roles : r \in db.roles \/ r = [name |-> c.adminRole, perms |-> {"administrate"}]
          /\ \A x \in e.users : \A m \in x.roles : HasRole(e, m)
          /\ PermsKept(db, e, {})
      BY <1>1, <1>3, <1>4, EnsureRoleKeeps
    <3>2. db' = EnsureUser(e, c.bootstrapUser, c.adminRole)
      BY <2>2
    <3> HIDE DEF e
    <3>3. /\ db' \in StoreType /\ db'.roles = e.roles
          /\ \A x \in db'.users : x \in e.users \/ x = [id |-> c.bootstrapUser, roles |-> {c.adminRole}]
          /\ \A x \in db'.users : \A m \in x.roles : HasRole(db', m)
          /\ PermsKept(e, db', {})
      BY <1>3, <3>1, <3>2, EnsureUserKeeps
    <3>4. PermsKept(db, db', {})
      BY <3>1, <3>3 DEF PermsKept
    <3> QED
      BY <3>1, <3>3, <3>4
  <2> QED
    BY <1>2, <2>1, <2>2
<1>6. /\ image' = db' /\ UNCHANGED <<rlock, wlock, current, config, at, subject, result, used>>
  BY DEF BootstrapAdmin, BootstrapDefault
<1>7. TypeOK'
  BY <1>2, <1>5, <1>6 DEF IInv, TypeOK
<1>8. Serving'
  BY <1>2, <1>6 DEF IInv, Serving
<1>9. UsersNamed'
  BY <1>5, <1>6 DEF IInv, UsersNamed, Named
<1>10. RolesExist' /\ RolesConfigured'
  BY <1>5, <1>6 DEF IInv, UsersNamed, RolesExist, RolesConfigured, HasRole
<1>11. (NothingWritten /\ InTransaction /\ OneSubject /\ ResultAtTheEnd /\ GrantedToNamed)'
  BY <1>6 DEF IInv, NothingWritten, InTransaction, OneSubject, ResultAtTheEnd, GrantedToNamed, Named
<1> QED
  BY <1>5, <1>7, <1>8, <1>9, <1>10, <1>11 DEF IInv

\* Starting and killing the process.
LEMMA ProcessInv == ASSUME IInv, Start \/ Crash PROVE IInv' /\ db' = db
<1> USE ConfigsAssumption
<1>1. db' = db /\ image' = db
  BY DEF Start, Crash, LoseCache, dbVars, IInv, NothingWritten
<1>2. TypeOK'
  <2>1. CASE Start
    <3>1. PICK c \in Configs : config' = {c} /\ used' = used \cup {c}
      BY <2>1 DEF Start
    <3>2. c.bootstrapUser \in UserIDs
      BY DEF ConfigType
    <3> QED
      BY <2>1, <3>1, <3>2 DEF Start, IInv, TypeOK, dbVars
  <2>2. CASE Crash
    <3>1. result' \in [Threads -> [kind : ResultKinds, perms : SUBSET Perm]]
      BY <2>2 DEF Crash, Idle, NoResult, ResultKinds
    <3> QED
      BY <2>2, <3>1, <1>1 DEF Crash, Idle, LoseCache, IInv, TypeOK
  <2> QED BY <2>1, <2>2
<1>3. UsersNamed' /\ RolesExist' /\ RolesConfigured'
  BY <1>1 DEF Start, Crash, IInv, UsersNamed, Named, RolesExist, RolesConfigured, HasRole
<1>4. (NothingWritten /\ InTransaction /\ OneSubject /\ ResultAtTheEnd /\ Serving /\ GrantedToNamed)'
  <2>1. CASE Start
    BY <2>1 DEF Start, dbVars, IInv, NothingWritten, InTransaction, OneSubject, ResultAtTheEnd,
       Serving, GrantedToNamed, Named
  <2>2. CASE Crash
    BY <2>2 DEF Crash, Idle, LoseCache, NoResult, IInv, NothingWritten, InTransaction, OneSubject,
       ResultAtTheEnd, Serving, GrantedToNamed
  <2> QED BY <2>1, <2>2
<1> QED
  BY <1>1, <1>2, <1>3, <1>4 DEF IInv

\* Ending auth() with result r rolls the transaction back.
LEMMA LeaveInv ==
    ASSUME IInv, NEW t \in Threads, NEW r, Leave(t, r), at[t] # "idle",
           r \in [kind : ResultKinds, perms : SUBSET Perm],
           r.perms # {} => subject[t] \subseteq Named
    PROVE  IInv' /\ db' = db
<1> USE DEF Leave, Rollback, Release
<1>1. db' = db /\ image' = db /\ wlock' = wlock
  BY DEF IInv, NothingWritten, TypeOK
<1>2. TypeOK'
  BY <1>1 DEF IInv, TypeOK
<1>3. UsersNamed' /\ RolesExist' /\ RolesConfigured'
  BY <1>1 DEF IInv, UsersNamed, Named, RolesExist, RolesConfigured, HasRole
<1>4. (NothingWritten /\ InTransaction /\ OneSubject /\ ResultAtTheEnd /\ Serving)'
  BY <1>1 DEF IInv, TypeOK, NothingWritten, InTransaction, OneSubject, ResultAtTheEnd, Serving
<1>5. GrantedToNamed'
  BY DEF IInv, TypeOK, GrantedToNamed, Named
<1> QED
  BY <1>1, <1>2, <1>3, <1>4, <1>5 DEF IInv

\* The steps of auth() that do not end it, and Done.
LEMMA AuthStepInv ==
    ASSUME IInv, NEW t \in Threads,
           \/ Auth(t) \/ AcceptToken(t) \/ Done(t)
           \/ /\ at[t] = "begun" /\ Select(t, {"User"})
              /\ at' = [at EXCEPT ![t] = "absent"]
              /\ UNCHANGED <<phase, config, subject, result, used>>
    PROVE  IInv' /\ db' = db
<1> USE DEF Auth, AcceptToken, Done, Begin, Select, dbVars
<1>1. db' = db /\ image' = image /\ wlock' = wlock
      /\ UNCHANGED <<phase, config, used>>
  OBVIOUS
<1>2. TypeOK'
  <2>1. result' \in [Threads -> [kind : ResultKinds, perms : SUBSET Perm]]
    BY DEF IInv, TypeOK, NoResult, ResultKinds
  <2>2. rlock' \in [Threads -> SUBSET Tables] /\ current' \subseteq Threads
    BY DEF IInv, TypeOK, Tables
  <2>3. subject' \in [Threads -> SUBSET UserIDs]
    BY DEF IInv, TypeOK
  <2>4. at' \in [Threads -> {"idle", "verify", "begun", "absent", "done"}]
    BY DEF IInv, TypeOK
  <2> QED
    BY <1>1, <2>1, <2>2, <2>3, <2>4 DEF IInv, TypeOK
<1>3. UsersNamed' /\ RolesExist' /\ RolesConfigured'
  BY <1>1 DEF IInv, UsersNamed, Named, RolesExist, RolesConfigured, HasRole
<1>4. NothingWritten' /\ InTransaction' /\ Serving'
  BY DEF IInv, TypeOK, NothingWritten, InTransaction, Serving
<1>5. OneSubject' /\ ResultAtTheEnd'
  BY DEF IInv, TypeOK, OneSubject, ResultAtTheEnd
<1>6. GrantedToNamed'
  <2>1. Named' = Named
    BY <1>1 DEF Named
  <2> QED
    BY <1>1, <2>1 DEF IInv, TypeOK, GrantedToNamed, ResultAtTheEnd, NoResult
<1> QED
  BY <1>1, <1>2, <1>3, <1>4, <1>5, <1>6 DEF IInv

\* Every step keeps the invariant and everybody's permissions.
LEMMA NextInv ==
    IInv /\ [Next]_vars => IInv' /\ [PermsKept(db, db', {})]_vars
<1> SUFFICES ASSUME IInv, [Next]_vars PROVE IInv' /\ [PermsKept(db, db', {})]_vars
  OBVIOUS
<1>1. db' = db => PermsKept(db, db', {})
  BY DEF PermsKept, HasUser
<1>2. CASE UNCHANGED vars
  BY <1>2 DEF vars, authVars, dbVars, IInv, TypeOK, NothingWritten, InTransaction, OneSubject,
     ResultAtTheEnd, Serving, UsersNamed, RolesExist, RolesConfigured, HasRole, GrantedToNamed, Named
<1>3. CASE BootstrapAdmin \/ BootstrapDefault
  BY <1>3, BootstrapInv
<1>4. CASE Start \/ Crash
  BY <1>1, <1>4, ProcessInv
<1>5. ASSUME NEW t \in Threads, Auth(t) \/ AcceptToken(t) \/ Done(t)
      PROVE  IInv' /\ PermsKept(db, db', {})
  BY <1>1, <1>5, AuthStepInv
<1>6. ASSUME NEW t \in Threads, RejectToken(t) PROVE IInv' /\ PermsKept(db, db', {})
  BY <1>1, <1>6, LeaveInv DEF RejectToken, Result, ResultKinds
<1>7. ASSUME NEW t \in Threads, GetDefaultRole(t) PROVE IInv' /\ PermsKept(db, db', {})
  BY <1>1, <1>7, LeaveInv DEF GetDefaultRole, Result, ResultKinds
<1>8. ASSUME NEW t \in Threads, FindUser(t) PROVE IInv' /\ PermsKept(db, db', {})
  <2>1. PICK u \in subject[t] :
          \/ /\ HasUser(db, u)
             /\ Leave(t, Result("ok", FlattenRoles(db, u)))
          \/ /\ Select(t, {"User"})
             /\ at' = [at EXCEPT ![t] = "absent"]
             /\ UNCHANGED <<phase, config, subject, result, used>>
    BY <1>8 DEF FindUser
  <2>2. at[t] = "begun"
    BY <1>8 DEF FindUser
  <2>3. CASE HasUser(db, u) /\ Leave(t, Result("ok", FlattenRoles(db, u)))
    <3>1. FlattenRoles(db, u) \in SUBSET Perm
      BY DEF IInv, TypeOK, StoreType, RoleRow, FlattenRoles
    <3>2. subject[t] \subseteq Named
      BY <2>3 DEF IInv, OneSubject, UsersNamed, HasUser
    <3>3. Result("ok", FlattenRoles(db, u)) \in [kind : ResultKinds, perms : SUBSET Perm]
      BY <3>1 DEF Result, ResultKinds
    <3> QED
      BY <1>1, <2>2, <2>3, <3>2, <3>3, LeaveInv
  <2>4. CASE /\ Select(t, {"User"})
             /\ at' = [at EXCEPT ![t] = "absent"]
             /\ UNCHANGED <<phase, config, subject, result, used>>
    BY <1>1, <2>2, <2>4, AuthStepInv
  <2> QED
    BY <2>1, <2>3, <2>4
<1> QED
  BY <1>2, <1>3, <1>4, <1>5, <1>6, <1>7, <1>8 DEF Next

\* IInv is an invariant of the authenticator.
THEOREM Invariance == Spec => []IInv
<1>1. Init => IInv
  BY InitInv
<1>2. IInv /\ [Next]_vars => IInv'
  BY NextInv
<1> QED
  BY <1>1, <1>2, PTL DEF Spec

-----------------------------------------------------------------------------
(* What the invariant is for *)

\* The tables, the locks and the state of every auth() stay well formed.
THEOREM TypeCorrect == Spec => []TypeOK
<1>1. IInv => TypeOK
  BY DEF IInv
<1> QED
  BY <1>1, Invariance, PTL

\* auth() gives permissions only to users the configuration once named, and the role for
\* everybody else has none, unless one name ever stood for both roles.
THEOREM NobodyEscalates == Spec => []NoEscalation
<1>1. IInv => NoEscalation
  <2> SUFFICES ASSUME IInv, KeptApart(used), NEW r \in db.roles, NEW c \in used, r.name = c.defaultRole
               PROVE  r.perms = {}
    BY DEF IInv, GrantedToNamed, NoEscalation
  <2>1. PICK d \in used : \/ r = [name |-> d.adminRole, perms |-> {"administrate"}]
                          \/ r = [name |-> d.defaultRole, perms |-> {}]
    BY DEF IInv, RolesConfigured
  <2> QED
    BY <2>1 DEF KeptApart
<1> QED
  BY <1>1, Invariance, PTL

\* auth() leaves no transaction and no lock behind, however it ends.
THEOREM AuthCleansUp == Spec => []NothingLeftBehind
<1>1. IInv => NothingLeftBehind
  BY DEF IInv, NothingWritten, InTransaction, NothingLeftBehind
<1> QED
  BY <1>1, Invariance, PTL

\* Nobody loses a permission by what the service does, and nobody but the configured
\* bootstrap user can gain one.
THEOREM UsersAreUndisturbed == Spec => OthersUndisturbed
<1>1. IInv /\ [Next]_vars => [PermsKept(db, db', {})]_vars
  BY NextInv
<1>2. [PermsKept(db, db', {})]_vars => [PermsKept(db, db', {c.bootstrapUser : c \in config})]_vars
  BY DEF PermsKept
<1> QED
  BY <1>1, <1>2, Invariance, PTL DEF Spec, OthersUndisturbed

-----------------------------------------------------------------------------
(* The administrator *)

\* As long as the administrator's role keeps its name, it has the permission and
\* every user has it; the bootstrap user is created before the service is up.
AdminInv ==
    /\ OneAdminRole(used) => \A c \in used :
          /\ \A r \in db.roles : r.name = c.adminRole => "administrate" \in r.perms
          /\ \A x \in db.users : c.adminRole \in x.roles
    /\ used = {} => db.roles = {} /\ db.users = {}
    /\ phase \in {"default", "up"} => \A c \in config : HasUser(db, c.bootstrapUser)
    /\ \A c, d \in config : c = d

\* bootstrap_admin creates the administrator of the running configuration.
LEMMA BootstrapAdminInv == ASSUME IInv, AdminInv, BootstrapAdmin PROVE AdminInv'
<1>1. /\ db \in StoreType /\ config \subseteq used /\ used \subseteq Configs
      /\ \A x \in db.users : \A m \in x.roles : HasRole(db, m)
  BY DEF IInv, TypeOK, RolesExist, UsersNamed
<1>2. PICK c \in config :
        db' = EnsureUser(EnsureRole(db, c.adminRole, {"administrate"}), c.bootstrapUser, c.adminRole)
  BY DEF BootstrapAdmin
<1>3. c.adminRole \in RoleIDs /\ c.bootstrapUser \in UserIDs
  BY <1>1, ConfigsAssumption DEF ConfigType
<1> DEFINE a == c.adminRole
           e == EnsureRole(db, a, {"administrate"})
<1>4. /\ e \in StoreType /\ HasRole(e, a) /\ e.users = db.users
      /\ \A r \in e.roles : r \in db.roles \/ r = [name |-> a, perms |-> {"administrate"}]
      /\ \A x \in e.users : \A m \in x.roles : HasRole(e, m)
  BY <1>1, <1>3, EnsureRoleKeeps DEF Perm
<1>5. db' = EnsureUser(e, c.bootstrapUser, a)
  BY <1>2
<1> HIDE DEF e
<1>6. /\ HasUser(db', c.bootstrapUser) /\ db'.roles = e.roles
      /\ \A x \in db'.users : x \in e.users \/ x = [id |-> c.bootstrapUser, roles |-> {a}]
  BY <1>3, <1>4, <1>5, EnsureUserKeeps
<1>7. config' = config /\ used' = used
  BY DEF BootstrapAdmin
<1>8. ASSUME OneAdminRole(used), NEW d \in used
      PROVE  /\ \A r \in db'.roles : r.name = d.adminRole => "administrate" \in r.perms
             /\ \A x \in db'.users : d.adminRole \in x.roles
  <2>1. d.adminRole = a
    BY <1>1, <1>8 DEF OneAdminRole
  <2> QED
    BY <1>4, <1>6, <1>8, <2>1 DEF AdminInv
<1>9. \A d \in config : HasUser(db', d.bootstrapUser)
  BY <1>6 DEF AdminInv
<1> QED
  BY <1>1, <1>2, <1>7, <1>8, <1>9 DEF AdminInv, OneAdminRole

\* bootstrap_default adds no user, and no role with the administrator's name.
LEMMA BootstrapDefaultInv == ASSUME IInv, AdminInv, BootstrapDefault PROVE AdminInv'
<1>1. /\ db \in StoreType /\ config \subseteq used /\ used \subseteq Configs
      /\ \A x \in db.users : \A m \in x.roles : HasRole(db, m)
  BY DEF IInv, TypeOK, RolesExist, UsersNamed
<1>2. PICK c \in config : db' = EnsureRole(db, c.defaultRole, {})
  BY DEF BootstrapDefault
<1>3. c.defaultRole \in RoleIDs
  BY <1>1, ConfigsAssumption DEF ConfigType
<1>4. /\ db'.users = db.users
      /\ \A r \in db'.roles : r \in db.roles \/ r = [name |-> c.defaultRole, perms |-> {}]
  BY <1>1, <1>2, <1>3, EnsureRoleKeeps
<1>5. phase = "default" /\ config' = config /\ used' = used
  BY DEF BootstrapDefault
<1>6. ASSUME OneAdminRole(used), NEW d \in used
      PROVE  /\ \A r \in db'.roles : r.name = d.adminRole => "administrate" \in r.perms
             /\ \A x \in db'.users : d.adminRole \in x.roles
  <2>1. d.adminRole # c.defaultRole
    BY <1>1, <1>6 DEF OneAdminRole
  <2> QED
    BY <1>4, <1>6, <2>1 DEF AdminInv
<1>7. \A d \in config : HasUser(db', d.bootstrapUser)
  BY <1>4, <1>5 DEF AdminInv, HasUser
<1> QED
  BY <1>1, <1>2, <1>5, <1>6, <1>7 DEF AdminInv, OneAdminRole

\* A start with a configuration that keeps the name of the role, or any other, and
\* the end of the process
LEMMA StartInv == ASSUME IInv, AdminInv, Start \/ Crash PROVE AdminInv'
<1>1. db' = db
  BY ProcessInv
<1>2. phase' \notin {"default", "up"} /\ (\A c, d \in config : c = d)'
  BY DEF Start, Crash, AdminInv
<1>3. \E c : used' = used \cup {c} \/ used' = used
  BY DEF Start, Crash
<1>4. ASSUME OneAdminRole(used'), NEW d \in used'
      PROVE  /\ \A r \in db.roles : r.name = d.adminRole => "administrate" \in r.perms
             /\ \A x \in db.users : d.adminRole \in x.roles
  <2>1. OneAdminRole(used) /\ used \subseteq used'
    BY <1>3, <1>4 DEF OneAdminRole
  <2>2. CASE used = {}
    BY <2>2 DEF AdminInv
  <2>3. CASE used # {}
    <3>1. PICK c \in used : d.adminRole = c.adminRole
      BY <1>4, <2>1, <2>3 DEF OneAdminRole
    <3> QED
      BY <2>1, <3>1 DEF AdminInv
  <2> QED
    BY <2>2, <2>3
<1>5. used' = {} => db.roles = {} /\ db.users = {}
  BY <1>3 DEF AdminInv
<1> QED
  BY <1>1, <1>2, <1>4, <1>5 DEF AdminInv, OneAdminRole

\* As long as every configuration the service was started with uses one name for the
\* administrator's role, and for no other role, there is an administrator whenever the
\* service is up, however often its start was cut short (bootstrap_admin).
THEOREM AdministratorAlways == Spec => []AdministratorExists
<1>1. Init => AdminInv
  BY DEF Init, DatabaseInit, EmptyStore, AdminInv
<1>2. IInv /\ AdminInv /\ [Next]_vars => AdminInv'
  <2> SUFFICES ASSUME IInv, AdminInv, [Next]_vars PROVE AdminInv'
    OBVIOUS
  <2>1. CASE UNCHANGED vars \/ \E t \in Threads : Auth(t) \/ RejectToken(t) \/ AcceptToken(t)
                                               \/ FindUser(t) \/ GetDefaultRole(t) \/ Done(t)
    <3>1. UNCHANGED <<db, phase, config, used>>
      BY <2>1 DEF vars, authVars, dbVars, Auth, RejectToken, AcceptToken, FindUser, GetDefaultRole,
         Done, Leave, Rollback, Begin, Select
    <3> QED
      BY <3>1 DEF AdminInv, HasUser, OneAdminRole
  <2> QED
    BY <2>1, BootstrapAdminInv, BootstrapDefaultInv, StartInv DEF Next
<1>3. IInv /\ AdminInv => AdministratorExists
  BY DEF IInv, UsersNamed, RolesExist, AdminInv, AdministratorExists, OneAdminRole, HasUser, HasRole,
     FlattenRoles
<1> QED
  BY <1>1, <1>2, <1>3, Invariance, PTL DEF Spec
=============================================================================
