---------------------------- MODULE ServerProofs ----------------------------
(***************************************************************************)
(* The safety properties of the whole service, for any number of handler   *)
(* threads, any requests and any configurations.  The invariants of the    *)
(* endpoints are those of modules EndpointsProofs and LinearizableProofs,  *)
(* which every step of the other components has to preserve, too; so the   *)
(* service as a whole implements the task board.  That the calls it makes  *)
(* are requests of the endpoints is a matter of the routes: ListenerProofs.*)
(***************************************************************************)
EXTENDS Server, TLAPS

EP == INSTANCE LinearizableProofs WITH Ids <- NamedIds, InitialUsers <- {}, InitialRoles <- {}
AP == INSTANCE AuthenticatorProofs
\* Of the listener only the routes are of interest here, not the pool.
LP == INSTANCE ListenerProofs WITH path <- << >>, MaxPath <- 0, Requests <- {}, Size <- 1,
                                   method <- << >>, body <- << >>, jobs <- << >>

InGetPerms == {"begun", "absent"}
InCall == {"open", "found", "checked", "load", "commit"}

\* A thread has a transaction in the middle of get_perms() or of call() only.
Transactions == \A t \in Threads : t \in current => at[t] \in InGetPerms \/ pc[t] \in InCall

\* Requests are served after the bootstrap.
ServedWhenUp == phase # "up" => \A t \in Threads : stage[t] = "idle"

\* Only the bootstrap writes users and roles, so that nobody ever sees an
\* uncommitted change of them.
AccountsCommitted == image.users = db.users /\ image.roles = db.roles

\* auth() carries one subject, and the permissions that user has now.
AuthState(t) ==
    /\ at[t] # "done" => result[t] = A!NoResult
    /\ at[t] \in InGetPerms => \E u \in UserIDs : subject[t] = {u}
    /\ result[t].kind = "ok" =>
          \E u \in UserIDs : subject[t] = {u} /\ result[t].perms = A!FlattenRoles(db, u)

\* And so does the handler after it.
ActorState(t) ==
    /\ actor[t] # {} => stage[t] \in {"route", "endpoint"}
    /\ \A a \in actor[t] :
          \E u \in UserIDs : a = [id |-> {u}, perms |-> A!FlattenRoles(db, u)]

\* An endpoint runs because its requirements were met.
Admitted(t) ==
    stage[t] = "endpoint" => MetBy(RequirementsOf(req[t].op), {a.perms : a \in actor[t]})

\* A GET that names an endpoint that changes something gets no further than the
\* payload, which is missing.
StoppedByPayload(t) ==
    /\ pc[t] = "commit" => req[t].op \in E!Posts
    /\ stage[t] = "endpoint" /\ req[t].op \in E!Posts =>
          \A h \in http[t] : h.method = "GET" => pc[t] \in {"call", "done"}

HandlerInv(t) == AuthState(t) /\ ActorState(t) /\ Admitted(t) /\ StoppedByPayload(t)

\* Every thread has a request, an actor and a response (or none).
PerThread ==
    /\ http = [t \in Threads |-> http[t]] /\ actor = [t \in Threads |-> actor[t]]
    /\ rsp = [t \in Threads |-> rsp[t]]

ServerInv ==
    /\ EP!IInv /\ TypeOK /\ PerThread /\ Transactions /\ ServedWhenUp /\ AccountsCommitted
    /\ \A t \in Threads : HandlerInv(t)

-----------------------------------------------------------------------------
(* The components, seen from the service and from their own proofs *)

\* What their proofs assume of the constants
LEMMA Assumed ==
    /\ NamedIds \subseteq Int /\ MaxRows \in Nat
    /\ LeadingInt \in [Segments -> SUBSET Int] /\ IntMax \in Nat
BY ComponentsAssumption DEF NamedIds, P!Stoi

\* A step of an endpoint is the one that EndpointsProofs is about ...
LEMMA SameStep == ASSUME NEW t \in Threads, E!Step(t) PROVE EP!Step(t)
BY DEF E!Step, EP!Step, E!ParseError, EP!ParseError, E!Debug, EP!Debug, E!OpenTx,
       EP!OpenTx, E!PersistProject, EP!PersistProject, E!PersistWorker,
       EP!PersistWorker, E!PersistTask, EP!PersistTask, E!EraseProject, EP!EraseProject,
       E!AssignWorker, EP!AssignWorker, E!UnassignWorker, EP!UnassignWorker,
       E!FindProject, EP!FindProject, E!FindWorker, EP!FindWorker, E!FindTask,
       EP!FindTask, E!FindAssignee, EP!FindAssignee, E!LoadTask, EP!LoadTask,
       E!Serialized, EP!Serialized, E!QueryTask, EP!QueryTask, E!Collect, EP!Collect,
       E!CommitTx, EP!CommitTx, E!Deadlock, EP!Deadlock, E!Finish, EP!Finish, E!Op,
       EP!Op, E!At, EP!At, E!Begin, EP!Begin, E!Goto, EP!Goto, E!Return, EP!Return,
       E!Rollback, EP!Rollback, E!Release, EP!Release, E!Throw, EP!Throw, E!Out, EP!Out,
       E!Posts, EP!Posts, E!Gets, EP!Gets, E!Persist, EP!Persist, E!Modify, EP!Modify,
       E!Blockers, EP!Blockers, E!Writes, EP!Writes, E!Reads, EP!Reads, E!FindReads,
       EP!FindReads, E!LoadReads, EP!LoadReads, E!NextTask, EP!NextTask, E!Named,
       EP!Named, E!Ready, EP!Ready, E!WaitsFor, EP!WaitsFor, E!OnCycle, EP!OnCycle,
       E!SetWorker, EP!SetWorker, E!HasTask, EP!HasTask, E!UpdateTask, EP!UpdateTask,
       E!InsertProject, EP!InsertProject, E!InsertWorker, EP!InsertWorker, E!InsertTask,
       EP!InsertTask, E!DeleteProject, EP!DeleteProject, E!Select, EP!Select,
       E!TasksOfProject, EP!TasksOfProject, E!TasksOfWorker, EP!TasksOfWorker,
       E!TaskWithId, EP!TaskWithId, E!ForeignKeysHold, EP!ForeignKeysHold, E!Commit,
       EP!Commit, E!NoOut, EP!NoOut, E!NoRequest, EP!NoRequest, E!NULL, EP!NULL,
       E!dbVars, EP!dbVars

\* ... and so are the call and the return ...
LEMMA SameCall ==
    ASSUME NEW t \in Threads
    PROVE  /\ \A r : E!CallWith(t, r) => EP!CallWith(t, r)
           /\ E!Finish(t) => EP!Finish(t)
           /\ EP!Op(t) = req[t].op /\ E!Posts = EP!Posts
BY DEF E!CallWith, EP!CallWith, E!Goto, EP!Goto, E!Finish, EP!Finish, E!NoRequest,
       EP!NoRequest, E!NoOut, EP!NoOut, E!NULL, EP!NULL, E!dbVars, EP!dbVars, EP!Op, E!Posts,
       EP!Posts

\* ... the loss of the cache ...
LEMMA SameLoss ==
    ASSUME A!LoseCache, E!NoCalls PROVE EP!LoseCache /\ EP!NoCalls
BY DEF A!LoseCache, EP!LoseCache, E!NoCalls, EP!NoCalls, E!NoRequest, EP!NoRequest, E!NoOut,
       EP!NoOut, E!NULL, EP!NULL

\* ... and the statements of the authenticator.
LEMMA SameTransaction ==
    ASSUME NEW t \in Threads
    PROVE  /\ A!Begin(t) => EP!Begin(t)
           /\ A!Rollback(t) => EP!Rollback(t)
           /\ \A R : A!Select(t, R) => EP!Select(t, R)
BY DEF A!Begin, EP!Begin, A!Rollback, EP!Rollback, A!Release, EP!Release, A!Select, EP!Select,
       A!Blockers, EP!Blockers

\* The tables, as the endpoints' invariant describes them
LEMMA TablesTyped ==
    ASSUME EP!IInv
    PROVE  /\ db \in A!StoreType /\ image \in A!StoreType
           /\ rlock \in [Threads -> SUBSET A!Tables] /\ wlock \in [Threads -> SUBSET A!Tables]
           /\ current \subseteq Threads
           /\ pc = [t \in Threads |-> pc[t]] /\ req = [t \in Threads |-> req[t]]
BY DEF EP!IInv, EP!CallsTyped, A!StoreType, EP!StoreType, A!TaskRow, EP!TaskRow, A!UserRow,
       EP!UserRow, A!RoleRow, EP!RoleRow, A!Perm, EP!Perm, A!Tables, EP!Tables

\* The same after a step
LEMMA TablesTypedNext ==
    ASSUME EP!IInv'
    PROVE  /\ (db \in A!StoreType /\ image \in A!StoreType)'
           /\ (rlock \in [Threads -> SUBSET A!Tables] /\ wlock \in [Threads -> SUBSET A!Tables])'
           /\ (current \subseteq Threads)'
           /\ (pc = [t \in Threads |-> pc[t]] /\ req = [t \in Threads |-> req[t]])'
BY DEF EP!IInv, EP!CallsTyped, A!StoreType, EP!StoreType, A!TaskRow, EP!TaskRow, A!UserRow,
       EP!UserRow, A!RoleRow, EP!RoleRow, A!Perm, EP!Perm, A!Tables, EP!Tables

\* Steps that touch neither the database nor a call
LEMMA CallsUntouched ==
    ASSUME EP!IInv, UNCHANGED <<dbVars, callVars>> PROVE EP!IInv'
BY EP!NextInv, Assumed DEF dbVars, callVars, EP!vars, EP!dbVars, EP!callVars

-----------------------------------------------------------------------------
(* The invariant of one thread *)

\* Requests of other threads go on as if nothing had happened.
LEMMA HandlerFrame ==
    ASSUME NEW u \in Threads, HandlerInv(u),
           stage'[u] = stage[u], http'[u] = http[u], actor'[u] = actor[u], req'[u] = req[u],
           pc'[u] = pc[u], at'[u] = at[u], subject'[u] = subject[u], result'[u] = result[u],
           db'.users = db.users, db'.roles = db.roles
    PROVE  HandlerInv(u)'
<1>1. \A v : A!FlattenRoles(db, v)' = A!FlattenRoles(db, v)
  BY DEF A!FlattenRoles
<1>2. AuthState(u)' /\ ActorState(u)'
  BY <1>1 DEF HandlerInv, AuthState, ActorState
<1>3. Admitted(u)' /\ StoppedByPayload(u)'
  BY DEF HandlerInv, Admitted, StoppedByPayload, MetBy
<1> QED
  BY <1>2, <1>3 DEF HandlerInv

\* What a user may do is a set of permissions.
LEMMA FlattenTyped ==
    ASSUME EP!IInv, NEW u PROVE A!FlattenRoles(db, u) \in SUBSET Perm
<1>1. db.roles \subseteq A!RoleRow
  BY TablesTyped DEF A!StoreType
<1> QED
  BY <1>1 DEF A!FlattenRoles, A!RoleRow, A!Perm, Perm

-----------------------------------------------------------------------------
(* A step of one thread *)

Actors == [id : SUBSET UserIDs, perms : SUBSET Perm]
Rsps == [status : {0, 200, 400, 500}, tag : {"none", "empty", "Ok", "Err"}]
Ats == {"idle", "verify", "begun", "absent", "done"}
Results == [kind : A!ResultKinds, perms : SUBSET A!Perm]

\* What TypeOK and Transactions say of one thread
ThreadOK(t) ==
    /\ stage[t] \in Stages /\ http[t] \subseteq HttpRequests
    /\ actor[t] \subseteq Actors /\ rsp[t] \in Rsps
    /\ at[t] \in Ats /\ subject[t] \subseteq UserIDs /\ result[t] \in Results
    /\ at[t] # "idle" <=> stage[t] = "auth"
    /\ pc[t] # "idle" <=> stage[t] = "endpoint"
    /\ t \in current => at[t] \in InGetPerms \/ pc[t] \in InCall

\* The step changes the state of t and of no other thread.
OnlyThread(t) ==
    /\ stage' = [stage EXCEPT ![t] = stage'[t]] /\ http' = [http EXCEPT ![t] = http'[t]]
    /\ actor' = [actor EXCEPT ![t] = actor'[t]] /\ rsp' = [rsp EXCEPT ![t] = rsp'[t]]
    /\ at' = [at EXCEPT ![t] = at'[t]] /\ subject' = [subject EXCEPT ![t] = subject'[t]]
    /\ result' = [result EXCEPT ![t] = result'[t]]
    /\ \A u \in Threads \ {t} :
          req'[u] = req[u] /\ pc'[u] = pc[u] /\ (u \in current' => u \in current)

AccountsKept ==
    /\ db'.users = db.users /\ db'.roles = db.roles
    /\ image'.users = db.users /\ image'.roles = db.roles

\* The invariant, as one thread sees it
LEMMA ThreadIsOK == ASSUME ServerInv, NEW t \in Threads PROVE ThreadOK(t)
<1>1. at[t] \in Ats /\ subject[t] \subseteq UserIDs /\ result[t] \in Results
  BY DEF ServerInv, TypeOK, A!TypeOK, Ats, Results
<1>2. /\ stage[t] \in Stages /\ http[t] \subseteq HttpRequests
      /\ actor[t] \subseteq Actors /\ rsp[t] \in Rsps
      /\ at[t] # "idle" <=> stage[t] = "auth"
      /\ pc[t] # "idle" <=> stage[t] = "endpoint"
  BY DEF ServerInv, TypeOK, Actors, Rsps
<1> QED
  BY <1>1, <1>2 DEF ServerInv, Transactions, ThreadOK

StateIsFunctions ==
    /\ stage = [u \in Threads |-> stage[u]] /\ http = [u \in Threads |-> http[u]]
    /\ actor = [u \in Threads |-> actor[u]] /\ rsp = [u \in Threads |-> rsp[u]]
    /\ at = [u \in Threads |-> at[u]] /\ subject = [u \in Threads |-> subject[u]]
    /\ result = [u \in Threads |-> result[u]]

\* The variables of the handlers are functions.
LEMMA StateOfThreads == ServerInv => StateIsFunctions
BY DEF ServerInv, TypeOK, PerThread, A!TypeOK, StateIsFunctions

\* A step of one thread that keeps the accounts has to restore only what the
\* invariant says of that thread.
LEMMA ThreadStep ==
    ASSUME ServerInv, NEW t \in Threads, EP!IInv', AccountsKept, OnlyThread(t),
           UNCHANGED <<phase, config, used>>, phase = "up", ThreadOK(t)', HandlerInv(t)'
    PROVE  ServerInv'
<1>1. /\ stage \in [Threads -> Stages] /\ http = [u \in Threads |-> http[u]]
      /\ actor = [u \in Threads |-> actor[u]] /\ rsp = [u \in Threads |-> rsp[u]]
      /\ at \in [Threads -> Ats] /\ subject \in [Threads -> SUBSET UserIDs]
      /\ result \in [Threads -> Results]
      /\ config \subseteq Configs /\ used \subseteq Configs
  BY DEF ServerInv, TypeOK, PerThread, A!TypeOK, Ats, Results
<1>2. \A u \in Threads \ {t} :
        /\ stage'[u] = stage[u] /\ http'[u] = http[u] /\ actor'[u] = actor[u]
        /\ rsp'[u] = rsp[u] /\ at'[u] = at[u] /\ subject'[u] = subject[u]
        /\ result'[u] = result[u] /\ req'[u] = req[u] /\ pc'[u] = pc[u]
        /\ u \in current' => u \in current
  BY <1>1 DEF OnlyThread
<1>3. PerThread'
  BY <1>1 DEF OnlyThread, PerThread
<1>4. ASSUME NEW u \in Threads PROVE ThreadOK(u)'
  <2>1. ThreadOK(u)
    BY ThreadIsOK
  <2> QED
    BY <1>2, <2>1 DEF ThreadOK
<1>5. /\ (stage \in [Threads -> Stages])' /\ (at \in [Threads -> Ats])'
      /\ (subject \in [Threads -> SUBSET UserIDs])' /\ (result \in [Threads -> Results])'
  <2>1. /\ stage'[t] \in Stages /\ at'[t] \in Ats /\ subject'[t] \in SUBSET UserIDs
        /\ result'[t] \in Results
    BY DEF ThreadOK
  <2> QED
    BY <1>1, <2>1 DEF OnlyThread
<1>6. A!TypeOK'
  <2>1. config' \subseteq Configs /\ used' \subseteq Configs /\ phase' = "up"
    BY <1>1
  <2>2. /\ (db \in A!StoreType /\ image \in A!StoreType)'
        /\ (rlock \in [Threads -> SUBSET A!Tables] /\ wlock \in [Threads -> SUBSET A!Tables])'
        /\ (current \subseteq Threads)'
    BY TablesTypedNext
  <2> QED
    BY <1>5, <2>1, <2>2 DEF A!TypeOK, Ats, Results
<1>7. Transactions'
  BY <1>4 DEF Transactions, ThreadOK
<1>10. TypeOK'
  BY <1>4, <1>5, <1>6 DEF TypeOK, ThreadOK, Actors, Rsps
<1>8. AccountsCommitted' /\ ServedWhenUp'
  BY DEF AccountsKept, AccountsCommitted, ServedWhenUp
<1>9. \A u \in Threads \ {t} : HandlerInv(u)'
  BY <1>2, HandlerFrame DEF ServerInv, AccountsKept
<1> QED
  BY <1>3, <1>7, <1>8, <1>9, <1>10 DEF ServerInv

-----------------------------------------------------------------------------
(* Steps of the handler that neither call auth() nor an endpoint *)

\* Other threads' requests are not concerned, and neither are the tables.
LEMMA HandlerStep ==
    ASSUME ServerInv, NEW t \in Threads,
           Receive(t) \/ Preflight(t) \/ Anonymous(t) \/ ExtractFails(t) \/ Refuse(t) \/ Sent(t)
    PROVE  ServerInv'
<1>1. /\ UNCHANGED <<dbVars, authVars, callVars>>
      /\ stage[t] \notin {"auth", "endpoint"} /\ ThreadOK(t) /\ HandlerInv(t) /\ EP!IInv
      /\ actor[t] # {} => stage[t] = "route"
  <2>1. UNCHANGED <<dbVars, authVars, callVars>> /\ stage[t] \notin {"auth", "endpoint"}
    BY DEF Receive, Preflight, Anonymous, ExtractFails, Refuse, Sent
  <2> QED
    BY <2>1, ThreadIsOK DEF ServerInv, HandlerInv, ActorState
<1>2. StateIsFunctions
  BY StateOfThreads
<1> USE DEF StateIsFunctions
<1>3. EP!IInv' /\ AccountsKept
  BY <1>1, CallsUntouched DEF dbVars, AccountsKept, ServerInv, AccountsCommitted
<1>4. phase = "up"
  <2>1. stage[t] # "idle" \/ phase = "up"
    BY DEF Receive, Preflight, Anonymous, ExtractFails, Refuse, Sent
  <2> QED
    BY <2>1 DEF ServerInv, ServedWhenUp
<1>5. /\ stage' = [stage EXCEPT ![t] = stage'[t]] /\ stage'[t] \in Stages \ {"auth", "endpoint"}
      /\ http' = [http EXCEPT ![t] = http'[t]] /\ http'[t] \subseteq HttpRequests
      /\ actor' = [actor EXCEPT ![t] = actor'[t]]
      /\ actor'[t] # {} => stage'[t] = "route" /\ actor'[t] = actor[t]
      /\ rsp' = [rsp EXCEPT ![t] = rsp'[t]] /\ rsp'[t] \in Rsps
  <2>1. CASE Receive(t)
    <3>1. PICK h \in HttpRequests :
            /\ http' = [http EXCEPT ![t] = {h}]
            /\ stage' = [stage EXCEPT ![t] = IF h.method = "OPTIONS" THEN "preflight" ELSE "verify_auth"]
      BY <2>1 DEF Receive
    <3>2. actor' = actor /\ rsp' = rsp /\ stage[t] = "idle"
      BY <2>1 DEF Receive
    <3> QED
      BY <1>1, <1>2, <3>1, <3>2 DEF ThreadOK, Stages
  <2>2. CASE Anonymous(t)
    BY <1>1, <1>2, <2>2 DEF Anonymous, Continue, ThreadOK, Stages
  <2>3. CASE Sent(t)
    <3>1. NoRsp \in Rsps
      BY DEF NoRsp, Rsps
    <3>2. /\ stage' = [stage EXCEPT ![t] = "idle"] /\ rsp' = [rsp EXCEPT ![t] = NoRsp]
          /\ http' = http /\ actor' = actor /\ stage[t] = "reply"
      BY <2>3 DEF Sent
    <3> QED
      BY <1>1, <1>2, <3>1, <3>2 DEF ThreadOK, Stages
  <2>4. CASE Preflight(t) \/ ExtractFails(t) \/ Refuse(t)
    <3>1. PICK status \in {200, 400, 500}, tag \in {"empty", "Err"} : Respond(t, status, tag)
      BY <2>4 DEF Preflight, ExtractFails, Refuse
    <3> QED
      BY <1>1, <1>2, <3>1 DEF Respond, Rsp, Stages, Rsps
  <2> QED
    BY <2>1, <2>2, <2>3, <2>4
<1>6. OnlyThread(t)
  BY <1>1, <1>2, <1>5 DEF OnlyThread, authVars, callVars, dbVars
<1>7. ThreadOK(t)'
  BY <1>1, <1>5 DEF ThreadOK, authVars, callVars, dbVars
<1>8. HandlerInv(t)'
  <2>1. \A v : A!FlattenRoles(db, v)' = A!FlattenRoles(db, v)
    BY <1>1 DEF A!FlattenRoles, dbVars
  <2>2. AuthState(t)' /\ ActorState(t)'
    BY <1>1, <1>5, <2>1 DEF HandlerInv, AuthState, ActorState, authVars
  <2>3. Admitted(t)' /\ StoppedByPayload(t)'
    BY <1>1, <1>5 DEF ThreadOK, HandlerInv, Admitted, StoppedByPayload, callVars
  <2> QED
    BY <2>2, <2>3 DEF HandlerInv
<1> QED
  BY <1>1, <1>3, <1>4, <1>6, <1>7, <1>8, ThreadStep DEF authVars

-----------------------------------------------------------------------------
(* Into auth() and out of it *)

\* auth() starts without an actor and ends with the permissions of its subject,
\* or with an error.
LEMMA AuthBoundary ==
    ASSUME ServerInv, NEW t \in Threads, StartAuth(t) \/ Authenticated(t) \/ AuthFailed(t)
    PROVE  ServerInv'
<1>1. /\ UNCHANGED <<dbVars, phase, config, used, callVars>>
      /\ stage[t] \in {"verify_auth", "auth"}
  BY DEF StartAuth, Authenticated, AuthFailed, A!Auth, A!Done, dbVars, A!dbVars
<1>2. ThreadOK(t) /\ HandlerInv(t) /\ EP!IInv /\ phase = "up" /\ actor[t] = {} /\ http[t] \subseteq HttpRequests
  BY <1>1, ThreadIsOK DEF ServerInv, HandlerInv, ActorState, ServedWhenUp, ThreadOK
<1>3. StateIsFunctions
  BY StateOfThreads
<1>4. EP!IInv' /\ AccountsKept
  BY <1>1, <1>2, CallsUntouched DEF dbVars, AccountsKept, ServerInv, AccountsCommitted
<1>5. /\ stage' = [stage EXCEPT ![t] = stage'[t]] /\ http' = [http EXCEPT ![t] = http'[t]]
      /\ http'[t] \subseteq HttpRequests
      /\ actor' = [actor EXCEPT ![t] = actor'[t]] /\ rsp' = [rsp EXCEPT ![t] = rsp'[t]]
      /\ rsp'[t] \in Rsps
      /\ at' = [at EXCEPT ![t] = at'[t]] /\ subject' = [subject EXCEPT ![t] = subject'[t]]
      /\ result' = [result EXCEPT ![t] = result'[t]]
      /\ \/ stage'[t] = "auth" /\ at'[t] = "verify" /\ actor'[t] = {} /\ at[t] = "idle"
            /\ subject'[t] = subject[t] /\ result'[t] = result[t]
         \/ /\ stage'[t] \in {"route", "reply"} /\ at'[t] = "idle" /\ at[t] = "done"
            /\ subject'[t] = {} /\ result'[t] = A!NoResult
            /\ \/ actor'[t] = {}
               \/ /\ stage'[t] = "route" /\ result[t].kind = "ok"
                  /\ actor'[t] = {[id |-> subject[t], perms |-> result[t].perms]}
  <2> USE DEF StateIsFunctions
  <2>1. CASE StartAuth(t)
    BY <1>2, <1>3, <2>1 DEF StartAuth, Continue, A!Auth, ThreadOK
  <2>2. CASE Authenticated(t)
    BY <1>2, <1>3, <2>2 DEF Authenticated, Continue, A!Done, ThreadOK
  <2>3. CASE AuthFailed(t)
    <3>1. PICK status \in {400, 500} : Respond(t, status, "Err")
      BY <2>3 DEF AuthFailed
    <3>2. Rsp(status, "Err") \in Rsps
      BY DEF Rsp, Rsps
    <3> QED
      BY <1>2, <1>3, <2>3, <3>1, <3>2 DEF AuthFailed, Respond, A!Done, ThreadOK
  <2> QED
    BY <2>1, <2>2, <2>3
<1>6. OnlyThread(t)
  BY <1>1, <1>5 DEF OnlyThread, callVars, dbVars
<1>7. \A v : A!FlattenRoles(db, v)' = A!FlattenRoles(db, v)
  BY <1>1 DEF A!FlattenRoles, dbVars
<1>8. ActorState(t)'
  <2>1. result[t].kind = "ok" =>
          \E u \in UserIDs : subject[t] = {u} /\ result[t].perms = A!FlattenRoles(db, u)
    BY <1>2 DEF HandlerInv, AuthState
  <2>2. ASSUME actor'[t] # {} PROVE stage'[t] = "route" /\ result[t].kind = "ok"
            /\ actor'[t] = {[id |-> subject[t], perms |-> result[t].perms]}
    BY <1>5, <2>2
  <2> QED
    BY <1>7, <2>1, <2>2 DEF ActorState
<1>9. ThreadOK(t)'
  <2>1. actor'[t] \subseteq Actors
    BY <1>2, <1>5 DEF ThreadOK, Actors, Results, A!Perm, Perm
  <2>2. A!NoResult \in Results
    BY DEF A!NoResult, Results, A!ResultKinds
  <2>3. pc[t] = "idle" /\ pc'[t] = "idle"
    BY <1>1, <1>2 DEF ThreadOK, callVars
  <2>4. t \notin current' \/ at'[t] \in InGetPerms
    BY <1>1, <1>2, <1>5, <2>3 DEF ThreadOK, dbVars, InGetPerms, InCall
  <2> QED
    BY <1>2, <1>5, <2>1, <2>2, <2>3, <2>4 DEF ThreadOK, Stages, Ats
<1>10. AuthState(t)'
  BY <1>2, <1>5, <1>7 DEF HandlerInv, AuthState, InGetPerms, A!NoResult
<1>11. Admitted(t)' /\ StoppedByPayload(t)'
  BY <1>2, <1>5, <1>9 DEF ThreadOK, Admitted, StoppedByPayload
<1> QED
  BY <1>1, <1>2, <1>4, <1>6, <1>8, <1>9, <1>10, <1>11, ThreadStep DEF HandlerInv

\* The steps of auth() itself: the thread, which serves no call meanwhile, begins
\* a transaction, reads, and ends it, whatever the outcome.
LEMMA AuthStepInv == ASSUME ServerInv, NEW t \in Threads, AuthStep(t) PROVE ServerInv'
<1>1. /\ UNCHANGED <<callVars, serverVars, phase, config, used>> /\ stage[t] = "auth"
      /\ at[t] \in {"verify", "begun", "absent"}
  BY DEF AuthStep, A!RejectToken, A!AcceptToken, A!FindUser, A!GetDefaultRole, A!Leave
<1>2. /\ ThreadOK(t) /\ HandlerInv(t) /\ EP!IInv /\ phase = "up" /\ pc[t] = "idle"
      /\ result[t] = A!NoResult /\ StateIsFunctions
  BY <1>1, ThreadIsOK, StateOfThreads
     DEF ServerInv, HandlerInv, AuthState, ServedWhenUp, ThreadOK
<1>3. /\ EP!Begin(t) \/ EP!Rollback(t) \/ \E R \in SUBSET A!Tables : EP!Select(t, R)
      /\ at' = [at EXCEPT ![t] = at'[t]] /\ subject' = [subject EXCEPT ![t] = subject'[t]]
      /\ result' = [result EXCEPT ![t] = result'[t]]
      /\ \/ /\ at'[t] \in InGetPerms /\ result'[t] = A!NoResult
            /\ \E u \in UserIDs : subject'[t] = {u}
         \/ /\ at'[t] = "done" /\ subject'[t] = subject[t] /\ result'[t] \in Results
            /\ t \notin current'
            /\ result'[t].kind = "ok" =>
                 \E u \in UserIDs : subject[t] = {u} /\ result'[t].perms = A!FlattenRoles(db, u)
  <2>1. CASE \E r \in Results : /\ A!Leave(t, r)
                                /\ r.kind = "ok" => \E u \in UserIDs :
                                     subject[t] = {u} /\ r.perms = A!FlattenRoles(db, u)
    <3>1. PICK r \in Results : /\ A!Leave(t, r)
                               /\ r.kind = "ok" => \E u \in UserIDs :
                                    subject[t] = {u} /\ r.perms = A!FlattenRoles(db, u)
      BY <2>1
    <3>2. A!Rollback(t) /\ t \notin current'
      BY <3>1 DEF A!Leave, A!Rollback, A!Release
    <3> QED
      BY <1>2, <3>1, <3>2, SameTransaction DEF A!Leave, StateIsFunctions
  <2>2. CASE A!AcceptToken(t)
    BY <1>2, <2>2, SameTransaction DEF A!AcceptToken, InGetPerms, StateIsFunctions
  <2>3. CASE /\ at[t] = "begun" /\ A!Select(t, {"User"}) /\ at' = [at EXCEPT ![t] = "absent"]
             /\ UNCHANGED <<subject, result>>
    <3>1. \E u \in UserIDs : subject[t] = {u}
      BY <1>2, <2>3 DEF HandlerInv, AuthState, InGetPerms
    <3>2. {"User"} \in SUBSET A!Tables
      BY DEF A!Tables
    <3> QED
      BY <1>2, <2>3, <3>1, <3>2, SameTransaction DEF InGetPerms, StateIsFunctions
  <2>4. CASE A!RejectToken(t) \/ A!GetDefaultRole(t)
    <3>1. A!Leave(t, A!Result("auth_error", {})) \/ A!Leave(t, A!Result("already_in_transaction", {}))
      BY <2>4 DEF A!RejectToken, A!GetDefaultRole
    <3>2. /\ A!Result("auth_error", {}) \in Results
          /\ A!Result("already_in_transaction", {}) \in Results
          /\ A!Result("auth_error", {}).kind # "ok"
          /\ A!Result("already_in_transaction", {}).kind # "ok"
      BY DEF A!Result, Results, A!ResultKinds
    <3> QED
      BY <2>1, <3>1, <3>2
  <2>5. CASE A!FindUser(t)
    <3>1. PICK u \in UserIDs : subject[t] = {u}
      BY <1>2, <2>5 DEF HandlerInv, AuthState, A!FindUser, InGetPerms
    <3>2. CASE A!HasUser(db, u)
      <4>1. A!Leave(t, A!Result("ok", A!FlattenRoles(db, u)))
        BY <2>5, <3>1, <3>2 DEF A!FindUser
      <4>2. A!Result("ok", A!FlattenRoles(db, u)) \in Results
        BY <1>2, FlattenTyped DEF A!Result, Results, A!ResultKinds, A!Perm, Perm
      <4>3. A!Result("ok", A!FlattenRoles(db, u)).perms = A!FlattenRoles(db, u)
        BY DEF A!Result
      <4> QED
        BY <2>1, <3>1, <4>1, <4>2, <4>3
    <3>3. CASE ~ A!HasUser(db, u)
      BY <2>3, <2>5, <3>1, <3>3 DEF A!FindUser
    <3> QED
      BY <3>2, <3>3
  <2> QED
    BY <2>2, <2>4, <2>5 DEF AuthStep
<1>4. EP!IInv' /\ UNCHANGED <<db, image>>
  BY <1>1, <1>2, <1>3, EP!OutsideInv, Assumed
     DEF callVars, EP!callVars, A!Tables, EP!Tables
<1>5. AccountsKept
  BY <1>4 DEF AccountsKept, ServerInv, AccountsCommitted
<1>6. OnlyThread(t)
  <2>1. \A u \in Threads \ {t} : u \in current' => u \in current
    BY <1>3 DEF EP!Begin, EP!Rollback, EP!Release, EP!Select
  <2> QED
    BY <1>1, <1>2, <1>3, <2>1 DEF OnlyThread, StateIsFunctions, callVars, serverVars
<1>7. ThreadOK(t)'
  <2>1. A!NoResult \in Results
    BY DEF A!NoResult, Results, A!ResultKinds
  <2> QED
    BY <1>1, <1>2, <1>3, <2>1 DEF ThreadOK, InGetPerms, Ats, callVars, serverVars
<1>8. \A v : A!FlattenRoles(db, v)' = A!FlattenRoles(db, v)
  BY <1>4 DEF A!FlattenRoles
<1>9. HandlerInv(t)'
  <2>1. AuthState(t)'
    BY <1>2, <1>3, <1>8 DEF HandlerInv, AuthState, InGetPerms, A!NoResult
  <2>2. ActorState(t)' /\ Admitted(t)' /\ StoppedByPayload(t)'
    BY <1>1, <1>2, <1>8 DEF HandlerInv, ActorState, Admitted, StoppedByPayload, callVars,
       serverVars
  <2> QED
    BY <2>1, <2>2 DEF HandlerInv
<1> QED
  BY <1>1, <1>2, <1>4, <1>5, <1>6, <1>7, <1>9, ThreadStep

-----------------------------------------------------------------------------
(* Into an endpoint, through it and out of it *)

\* The call begins because the requirements of its operation are met.
LEMMA DispatchInv == ASSUME ServerInv, NEW t \in Threads, Dispatch(t) PROVE ServerInv'
<1>1. PICK h \in http[t] : \E e \in RouteOf[h.path] :
         /\ MetBy(RequirementsOf(e.type), {a.perms : a \in actor[t]})
         /\ E!CallWith(t, EndpointCall(h, e))
  BY DEF Dispatch
<1>2. PICK r :
         /\ MetBy(RequirementsOf(r.op), {a.perms : a \in actor[t]})
         /\ E!CallWith(t, r)
  BY <1>1 DEF EndpointCall
<1>3. /\ stage[t] = "route" /\ stage' = [stage EXCEPT ![t] = "endpoint"]
      /\ UNCHANGED <<dbVars, authVars, http, rsp, actor>>
      /\ pc' = [pc EXCEPT ![t] = "call"] /\ req' = [req EXCEPT ![t] = r]
  BY <1>2 DEF Dispatch, Continue, E!CallWith, E!Goto, E!dbVars, dbVars
<1>4. /\ ThreadOK(t) /\ HandlerInv(t) /\ EP!IInv /\ phase = "up" /\ StateIsFunctions
      /\ pc[t] = "idle" /\ at[t] = "idle"
  BY <1>3, ThreadIsOK, StateOfThreads DEF ServerInv, ServedWhenUp, ThreadOK
<1>5. EP!IInv'
  BY <1>2, <1>4, SameCall, EP!ControlInv, Assumed
<1>6. AccountsKept
  BY <1>3 DEF AccountsKept, ServerInv, AccountsCommitted, dbVars
<1>7. /\ pc'[t] = "call" /\ req'[t] = r /\ stage'[t] = "endpoint"
      /\ \A u \in Threads \ {t} : pc'[u] = pc[u] /\ req'[u] = req[u]
  BY <1>3, <1>4, TablesTyped DEF StateIsFunctions
<1>8. OnlyThread(t)
  BY <1>3, <1>4, <1>7 DEF OnlyThread, StateIsFunctions, authVars, dbVars
<1>9. ThreadOK(t)'
  BY <1>3, <1>4, <1>7 DEF ThreadOK, Stages, InGetPerms, InCall, authVars, dbVars
<1>10. HandlerInv(t)'
  <2>1. \A v : A!FlattenRoles(db, v)' = A!FlattenRoles(db, v)
    BY <1>3 DEF A!FlattenRoles, dbVars
  <2>2. AuthState(t)' /\ ActorState(t)'
    BY <1>3, <1>4, <1>7, <2>1 DEF HandlerInv, AuthState, ActorState, authVars
  <2>3. Admitted(t)'
    BY <1>2, <1>3, <1>7 DEF Admitted, MetBy
  <2>4. StoppedByPayload(t)'
    BY <1>7 DEF StoppedByPayload
  <2> QED
    BY <2>2, <2>3, <2>4 DEF HandlerInv
<1> QED
  BY <1>3, <1>4, <1>5, <1>6, <1>8, <1>9, <1>10, ThreadStep DEF authVars

\* The answer is sent when the call is over.
LEMMA ReplyInv == ASSUME ServerInv, NEW t \in Threads, Reply(t) PROVE ServerInv'
<1>1. PICK status \in {200, 500}, tag \in {"Ok", "Err"} : Respond(t, status, tag)
  BY DEF Reply
<1>2. /\ stage[t] = "endpoint" /\ stage' = [stage EXCEPT ![t] = "reply"]
      /\ UNCHANGED <<dbVars, authVars>>
      /\ rsp' = [rsp EXCEPT ![t] = Rsp(status, tag)]
      /\ http' = [http EXCEPT ![t] = {}] /\ actor' = [actor EXCEPT ![t] = {}]
      /\ pc[t] = "done" /\ pc' = [pc EXCEPT ![t] = "idle"]
      /\ req' = [req EXCEPT ![t] = E!NoRequest] /\ E!Finish(t)
  BY <1>1 DEF Reply, Respond, E!Finish, E!Goto, E!dbVars, dbVars
<1>3. /\ ThreadOK(t) /\ HandlerInv(t) /\ EP!IInv /\ phase = "up" /\ StateIsFunctions
      /\ at[t] = "idle" /\ t \notin current
  BY <1>2, ThreadIsOK, StateOfThreads
     DEF ServerInv, ServedWhenUp, ThreadOK, InGetPerms, InCall
<1>4. EP!IInv'
  BY <1>2, <1>3, SameCall, EP!ControlInv, Assumed
<1>5. AccountsKept
  BY <1>2 DEF AccountsKept, ServerInv, AccountsCommitted, dbVars
<1>6. /\ pc'[t] = "idle" /\ stage'[t] = "reply" /\ actor'[t] = {} /\ http'[t] = {}
      /\ rsp'[t] = Rsp(status, tag)
      /\ \A u \in Threads \ {t} : pc'[u] = pc[u] /\ req'[u] = req[u]
  BY <1>2, <1>3, TablesTyped DEF StateIsFunctions
<1>7. OnlyThread(t)
  BY <1>2, <1>3, <1>6 DEF OnlyThread, StateIsFunctions, authVars, dbVars
<1>8. ThreadOK(t)'
  <2>1. Rsp(status, tag) \in Rsps
    BY DEF Rsp, Rsps
  <2> QED
    BY <1>2, <1>3, <1>6, <2>1 DEF ThreadOK, Stages, authVars, dbVars
<1>9. HandlerInv(t)'
  <2>1. \A v : A!FlattenRoles(db, v)' = A!FlattenRoles(db, v)
    BY <1>2 DEF A!FlattenRoles, dbVars
  <2>2. AuthState(t)'
    BY <1>2, <1>3, <2>1 DEF HandlerInv, AuthState, authVars
  <2>3. ActorState(t)' /\ Admitted(t)' /\ StoppedByPayload(t)'
    BY <1>6 DEF ActorState, Admitted, StoppedByPayload
  <2> QED
    BY <2>2, <2>3 DEF HandlerInv
<1> QED
  BY <1>2, <1>3, <1>4, <1>5, <1>7, <1>8, <1>9, ThreadStep DEF authVars

\* call() first parses the payload, or opens its transaction.
LEMMA FirstStep ==
    ASSUME NEW t \in Threads, EP!Step(t), pc[t] = "call", pc = [u \in Threads |-> pc[u]]
    PROVE  pc'[t] \in {"done", "open"}
BY DEF EP!Step, EP!ParseError, EP!Debug, EP!OpenTx, EP!PersistProject, EP!PersistWorker,
   EP!PersistTask, EP!EraseProject, EP!AssignWorker, EP!UnassignWorker, EP!FindProject,
   EP!FindWorker, EP!FindTask, EP!FindAssignee, EP!LoadTask, EP!Serialized, EP!QueryTask,
   EP!Collect, EP!CommitTx, EP!Deadlock, EP!Finish, EP!At, EP!Throw, EP!Return, EP!Goto

\* The steps of call(): the permissions that let it in are still those of the
\* tables, which it does not change, and a GET ends where the payload is missing.
LEMMA EndpointStepInv == ASSUME ServerInv, NEW t \in Threads, EndpointStep(t) PROVE ServerInv'
<1>1. /\ stage[t] = "endpoint" /\ pc[t] # "done" /\ E!Step(t)
      /\ UNCHANGED <<authVars, serverVars>>
  BY DEF EndpointStep
<1>2. /\ ThreadOK(t) /\ HandlerInv(t) /\ EP!IInv /\ phase = "up" /\ StateIsFunctions
      /\ at[t] = "idle" /\ pc[t] # "idle"
      /\ t \in current => pc[t] \in {"open", "found", "checked", "load", "commit"}
  BY <1>1, ThreadIsOK, StateOfThreads
     DEF ServerInv, ServedWhenUp, ThreadOK, InGetPerms, InCall
<1>3. EP!Step(t) /\ ~ EP!Finish(t)
  BY <1>1, SameStep DEF EP!Finish
<1>4. EP!IInv'
  BY <1>2, <1>3, EP!StepInv, Assumed
<1>5. req' = req
  BY <1>3, EP!StepKeepsRequest, Assumed
<1>6. AccountsKept
  BY <1>2, <1>3, EP!StepKeepsAccounts, Assumed
     DEF AccountsKept, ServerInv, AccountsCommitted
<1>7. /\ \A u \in Threads \ {t} : pc'[u] = pc[u] /\ (u \in current' => u \in current)
      /\ pc'[t] # "idle"
      /\ t \in current' => pc'[t] \in {"open", "found", "checked", "load", "commit"}
      /\ pc'[t] = "commit" => EP!Op(t) \in EP!Posts
      /\ pc'[t] \in {"done", "load"} \/ out'[t].kind = "none"
  BY <1>1, <1>2, <1>3, EP!StepMoves, Assumed
<1>8. OnlyThread(t)
  BY <1>1, <1>2, <1>5, <1>7 DEF OnlyThread, StateIsFunctions, authVars, serverVars
<1>9. ThreadOK(t)'
  BY <1>1, <1>2, <1>7 DEF ThreadOK, InCall, authVars, serverVars
<1>10. StoppedByPayload(t)'
  <2>1. pc'[t] = "commit" => req'[t].op \in E!Posts
    BY <1>5, <1>7, SameCall
  <2>2. ASSUME req[t].op \in E!Posts, NEW h \in http[t], h.method = "GET"
        PROVE  pc'[t] = "done"
    <3>1. pc[t] = "call"
      BY <1>1, <1>2, <2>2 DEF HandlerInv, StoppedByPayload
    <3>2. pc'[t] \in {"done", "open"}
      BY <1>2, <1>3, <3>1, FirstStep, TablesTyped
    <3>3. Payload(h) = "complete" <=> out'[t].kind # "json"
      BY <2>2, <3>1 DEF EndpointStep, E!At, E!Op
    <3>4. out'[t].kind = "json"
      BY <2>2, <3>3 DEF Payload
    <3> QED
      BY <1>7, <3>2, <3>4
  <2> QED
    BY <1>1, <1>5, <2>1, <2>2 DEF StoppedByPayload, serverVars
<1>11. HandlerInv(t)'
  <2>1. \A v : A!FlattenRoles(db, v)' = A!FlattenRoles(db, v)
    BY <1>6 DEF A!FlattenRoles, AccountsKept
  <2>2. AuthState(t)' /\ ActorState(t)'
    BY <1>1, <1>2, <2>1 DEF HandlerInv, AuthState, ActorState, authVars, serverVars
  <2>3. Admitted(t)'
    BY <1>1, <1>2, <1>5 DEF HandlerInv, Admitted, MetBy, serverVars
  <2> QED
    BY <1>10, <2>2, <2>3 DEF HandlerInv
<1> QED
  BY <1>1, <1>2, <1>4, <1>6, <1>8, <1>9, <1>11, ThreadStep DEF authVars

-----------------------------------------------------------------------------
(* The process *)

\* Nobody is served.
Quiet ==
    /\ stage = [t \in Threads |-> "idle"] /\ at = [t \in Threads |-> "idle"]
    /\ pc = [t \in Threads |-> "idle"] /\ result = [t \in Threads |-> A!NoResult]
    /\ subject \in [Threads -> SUBSET UserIDs]
    /\ http = [t \in Threads |-> http[t]] /\ \A t \in Threads : http[t] \subseteq HttpRequests
    /\ actor = [t \in Threads |-> {}]
    /\ rsp = [t \in Threads |-> rsp[t]] /\ \A t \in Threads : rsp[t] \in Rsps
    /\ current = {} /\ AccountsCommitted
    /\ phase \in {"down", "admin", "default", "up"}
    /\ config \subseteq Configs /\ used \subseteq Configs

\* A service without requests has nothing to prove but the endpoints' invariant.
LEMMA QuietServer == EP!IInv /\ Quiet => ServerInv
<1> SUFFICES ASSUME EP!IInv, Quiet PROVE ServerInv
  OBVIOUS
<1>1. TypeOK
  <2>1. result \in [Threads -> [kind : A!ResultKinds, perms : SUBSET A!Perm]]
    BY DEF Quiet, A!NoResult, A!ResultKinds
  <2>2. A!TypeOK
    BY <2>1, TablesTyped DEF Quiet, A!TypeOK
  <2> QED
    BY <2>2 DEF Quiet, TypeOK, Stages, Rsps
<1>2. PerThread /\ Transactions /\ ServedWhenUp /\ AccountsCommitted
  BY DEF Quiet, PerThread, Transactions, ServedWhenUp
<1>3. ASSUME NEW t \in Threads PROVE HandlerInv(t)
  BY DEF Quiet, HandlerInv, AuthState, ActorState, Admitted, StoppedByPayload, A!NoResult,
     InGetPerms
<1> QED
  BY <1>1, <1>2, <1>3 DEF ServerInv

\* The same after a step
LEMMA QuietServerNext == EP!IInv' /\ Quiet' => ServerInv'
BY QuietServer, PTL

\* The service starts with an empty database, as the endpoints do.
LEMMA InitOfEndpoints == Init => EP!Init
<1>1. /\ A!EmptyStore = EP!EmptyStore
      /\ EP!EmptyStore = [EP!EmptyStore EXCEPT !.users = {}]
      /\ EP!EmptyStore = [EP!EmptyStore EXCEPT !.roles = {}]
  BY DEF EP!EmptyStore, A!EmptyStore
<1>2. EP!InitialStore = A!EmptyStore
  BY <1>1, Zenon DEF EP!InitialStore
<1>3. E!NoRequest = EP!NoRequest /\ E!NoOut = EP!NoOut
  BY DEF E!NoRequest, EP!NoRequest, E!NoOut, EP!NoOut, E!NULL, EP!NULL
<1> QED
  BY <1>2, <1>3 DEF Init, A!Init, EP!Init, A!DatabaseInit, EP!DatabaseInit

\* Nothing is going on yet.
LEMMA ServerInit == Init => ServerInv
<1> SUFFICES ASSUME Init PROVE ServerInv
  OBVIOUS
<1>1. EP!Init
  BY InitOfEndpoints
<1>2. EP!IInv
  BY <1>1, EP!InitInv, Assumed
<1>3. Quiet
  BY DEF Init, A!Init, A!DatabaseInit, Quiet, NoRsp, Rsps, AccountsCommitted
<1> QED
  BY <1>2, <1>3, QuietServer

\* A crash ends every request and loses what was not committed.
LEMMA ServerCrash == ASSUME ServerInv, Crash PROVE ServerInv'
<1>1. EP!IInv'
  BY SameLoss, EP!CrashInv, Assumed DEF ServerInv, Crash, A!Crash
<1>2. Quiet'
  BY DEF Crash, A!Crash, A!LoseCache, A!Idle, E!NoCalls, NoRequests, Quiet, NoRsp, Rsps,
     ServerInv, TypeOK, A!TypeOK, AccountsCommitted
<1> QED
  BY <1>1, <1>2, QuietServerNext

\* Before the service is up nobody has begun anything.
LEMMA QuietBefore ==
    ASSUME ServerInv, phase # "up" PROVE Quiet
<1>1. \A t \in Threads : stage[t] = "idle" /\ ThreadOK(t) /\ HandlerInv(t)
  BY ThreadIsOK DEF ServerInv, ServedWhenUp
<1>2. StateIsFunctions
  BY StateOfThreads
<1>3. \A t \in Threads : /\ at[t] = "idle" /\ pc[t] = "idle" /\ t \notin current
                         /\ result[t] = A!NoResult /\ actor[t] = {}
                         /\ http[t] \subseteq HttpRequests /\ rsp[t] \in Rsps
  BY <1>1 DEF ThreadOK, HandlerInv, AuthState, ActorState, InGetPerms, InCall
<1>4. /\ current \subseteq Threads /\ pc = [t \in Threads |-> pc[t]]
      /\ subject \in [Threads -> SUBSET UserIDs] /\ config \subseteq Configs /\ used \subseteq Configs
      /\ phase \in {"down", "admin", "default", "up"}
  BY TablesTyped DEF ServerInv, TypeOK, A!TypeOK
<1>5. AccountsCommitted
  BY DEF ServerInv
<1> QED
  BY <1>1, <1>2, <1>3, <1>4, <1>5 DEF Quiet, StateIsFunctions

\* The bootstrap of the roles and of the first user keeps the tables sound.
LEMMA EnsuredRole ==
    ASSUME NEW d \in EP!StoreType, EP!ForeignKeysHold(d), NEW n \in RoleIDs,
           NEW perms \in SUBSET Perm
    PROVE  LET e == A!EnsureRole(d, n, perms) IN
           /\ e \in EP!StoreType /\ EP!ForeignKeysHold(e) /\ A!HasRole(e, n)
           /\ e.users = d.users /\ A!PermsKept(d, e, {})
<1> DEFINE e == A!EnsureRole(d, n, perms)
<1>1. /\ d \in AP!StoreType /\ perms \in SUBSET AP!Perm
      /\ \A x \in d.users : \A m \in x.roles : AP!HasRole(d, m)
  BY DEF EP!StoreType, AP!StoreType, EP!TaskRow, AP!TaskRow, EP!UserRow, AP!UserRow, EP!RoleRow,
     AP!RoleRow, EP!Perm, AP!Perm, Perm, EP!ForeignKeysHold, AP!HasRole
<1>2. e = AP!EnsureRole(d, n, perms)
  BY DEF A!EnsureRole, AP!EnsureRole, A!HasRole, AP!HasRole
<1>3. /\ e \in AP!StoreType /\ AP!HasRole(e, n) /\ e.users = d.users /\ AP!PermsKept(d, e, {})
      /\ \A x \in e.users : \A m \in x.roles : AP!HasRole(e, m)
  <2>1. AP!ConfigsAssumption
    BY ComponentsAssumption DEF A!ConfigType, AP!ConfigType
  <2> QED
    BY <1>1, <1>2, <2>1, AP!EnsureRoleKeeps
<1>4. e.projects = d.projects /\ e.workers = d.workers /\ e.tasks = d.tasks
  BY DEF A!EnsureRole, EP!StoreType
<1>5. A!PermsKept(d, e, {})
  BY <1>3 DEF A!PermsKept, AP!PermsKept, A!HasUser, AP!HasUser, A!FlattenRoles, AP!FlattenRoles
<1> QED
  BY <1>3, <1>4, <1>5 DEF EP!StoreType, AP!StoreType, EP!TaskRow, AP!TaskRow, EP!UserRow, AP!UserRow,
     EP!RoleRow, AP!RoleRow, EP!Perm, AP!Perm, EP!ForeignKeysHold, AP!HasRole, A!HasRole

\* The bootstrap creates a user and gives nobody else anything.
LEMMA EnsuredUser ==
    ASSUME NEW d \in EP!StoreType, EP!ForeignKeysHold(d), NEW u \in UserIDs, NEW n \in RoleIDs,
           A!HasRole(d, n)
    PROVE  LET e == A!EnsureUser(d, u, n) IN
           /\ e \in EP!StoreType /\ EP!ForeignKeysHold(e) /\ A!PermsKept(d, e, {})
           /\ \A x \in e.users : x \in d.users \/ x.id = u
<1> DEFINE e == A!EnsureUser(d, u, n)
<1>1. /\ d \in AP!StoreType /\ AP!HasRole(d, n)
      /\ \A x \in d.users : \A m \in x.roles : AP!HasRole(d, m)
  BY DEF EP!StoreType, AP!StoreType, EP!TaskRow, AP!TaskRow, EP!UserRow, AP!UserRow, EP!RoleRow,
     AP!RoleRow, EP!Perm, AP!Perm, EP!ForeignKeysHold, A!HasRole, AP!HasRole
<1>2. e = AP!EnsureUser(d, u, n)
  BY DEF A!EnsureUser, AP!EnsureUser, A!HasUser, AP!HasUser
<1>3. /\ e \in AP!StoreType /\ AP!PermsKept(d, e, {})
      /\ \A x \in e.users : x \in d.users \/ x = [id |-> u, roles |-> {n}]
      /\ \A x \in e.users : \A m \in x.roles : AP!HasRole(e, m)
  <2>1. AP!ConfigsAssumption
    BY ComponentsAssumption DEF A!ConfigType, AP!ConfigType
  <2> QED
    BY <1>1, <1>2, <2>1, AP!EnsureUserKeeps
<1>4. e.projects = d.projects /\ e.workers = d.workers /\ e.tasks = d.tasks
  BY DEF A!EnsureUser, EP!StoreType
<1>5. A!PermsKept(d, e, {})
  BY <1>3 DEF A!PermsKept, AP!PermsKept, A!HasUser, AP!HasUser, A!FlattenRoles, AP!FlattenRoles
<1> QED
  BY <1>3, <1>4, <1>5 DEF EP!StoreType, AP!StoreType, EP!TaskRow, AP!TaskRow, EP!UserRow, AP!UserRow,
     EP!RoleRow, AP!RoleRow, EP!Perm, AP!Perm, EP!ForeignKeysHold, AP!HasRole

\* The start-up: it is alone with the database.
LEMMA StartInv == ASSUME ServerInv, Start PROVE ServerInv'
<1>1. Quiet /\ EP!IInv
  BY QuietBefore DEF ServerInv, Start, A!Start, A!BootstrapAdmin, A!BootstrapDefault
<1>2. /\ UNCHANGED <<rlock, wlock, current, at, subject, result, callVars, serverVars>>
      /\ phase' \in {"down", "admin", "default", "up"}
      /\ config' \subseteq Configs /\ used' \subseteq Configs
      /\ (db' = db /\ image' = image) \/ image' = db'
  BY <1>1 DEF Start, A!Start, A!BootstrapAdmin, A!BootstrapDefault, Quiet, dbVars, A!dbVars
<1>3. Quiet'
  BY <1>1, <1>2 DEF Quiet, AccountsCommitted, callVars, serverVars
<1>4. CASE A!Start
  BY <1>1, <1>2, <1>3, <1>4, CallsUntouched, QuietServerNext DEF A!Start, dbVars, A!dbVars
<1>5. CASE A!BootstrapAdmin \/ A!BootstrapDefault
  <2>1. db \in EP!StoreType /\ EP!ForeignKeysHold(db)
    BY <1>1 DEF EP!IInv, EP!CallsTyped, EP!Consistent
  <2>2. \A c \in config : /\ c.adminRole \in RoleIDs /\ c.defaultRole \in RoleIDs
                          /\ c.bootstrapUser \in UserIDs
    BY <1>1, ComponentsAssumption DEF Quiet, A!ConfigType
  <2>3. {"administrate"} \in SUBSET Perm /\ {} \in SUBSET Perm
    BY DEF Perm
  <2>4. db' \in EP!StoreType /\ EP!ForeignKeysHold(db')
    <3>1. CASE A!BootstrapAdmin
      <4>1. PICK c \in config :
              db' = A!EnsureUser(A!EnsureRole(db, c.adminRole, {"administrate"}),
                                 c.bootstrapUser, c.adminRole)
        BY <3>1 DEF A!BootstrapAdmin
      <4>2. LET e == A!EnsureRole(db, c.adminRole, {"administrate"}) IN
            e \in EP!StoreType /\ EP!ForeignKeysHold(e) /\ A!HasRole(e, c.adminRole)
        BY <2>1, <2>2, <2>3, EnsuredRole
      <4> QED
        BY <2>2, <4>1, <4>2, EnsuredUser
    <3>2. CASE A!BootstrapDefault
      BY <2>1, <2>2, <2>3, <3>2, EnsuredRole DEF A!BootstrapDefault
    <3> QED
      BY <1>5, <3>1, <3>2
  <2>5. image' = db' /\ \A t \in Threads : pc[t] = "idle" /\ t \notin current
    BY <1>1, <1>5 DEF A!BootstrapAdmin, A!BootstrapDefault, Quiet
  <2>6. EP!IInv'
    BY <1>1, <1>2, <2>4, <2>5, EP!QuietInv, Assumed DEF callVars, EP!callVars
  <2> QED
    BY <1>3, <2>6, QuietServerNext
<1> QED
  BY <1>4, <1>5 DEF Start

-----------------------------------------------------------------------------
(* The inductive invariant of the service *)

\* Every step of the service keeps the invariant.
LEMMA ServerNext == ServerInv /\ [Next]_vars => ServerInv'
<1> SUFFICES ASSUME ServerInv, [Next]_vars PROVE ServerInv'
  OBVIOUS
<1>1. ASSUME NEW t \in Threads, Receive(t) \/ Handle(t) PROVE ServerInv'
  BY <1>1, HandlerStep, AuthBoundary, AuthStepInv, DispatchInv, ReplyInv, EndpointStepInv
     DEF Handle, Local
<1>2. CASE UNCHANGED vars
  <2>1. EP!IInv'
    BY <1>2, CallsUntouched DEF ServerInv, vars
  <2>2. A!TypeOK'
    BY <1>2 DEF ServerInv, TypeOK, A!TypeOK, vars, dbVars, authVars
  <2>3. TypeOK' /\ PerThread' /\ Transactions' /\ ServedWhenUp' /\ AccountsCommitted'
    BY <1>2, <2>2 DEF ServerInv, TypeOK, PerThread, Transactions, ServedWhenUp, AccountsCommitted,
       vars, dbVars, authVars, callVars, serverVars
  <2>4. \A t \in Threads : HandlerInv(t)'
    BY <1>2, HandlerFrame DEF ServerInv, vars, dbVars, authVars, callVars, serverVars
  <2> QED
    BY <2>1, <2>3, <2>4 DEF ServerInv
<1> QED
  BY <1>1, <1>2, StartInv, ServerCrash DEF Next

\* In every reachable state of the service, each thread's stage of handle() says
\* what its transaction, its locks, its credentials and its payload are.
THEOREM Invariance == Spec => []ServerInv
<1>1. Init => ServerInv
  BY ServerInit
<1>2. ServerInv /\ [Next]_vars => ServerInv'
  BY ServerNext
<1> QED
  BY <1>1, <1>2, PTL DEF Spec

-----------------------------------------------------------------------------
(* What the invariant is for *)

\* The handler's state stays well formed, and a thread is in the authenticator or
\* in an endpoint exactly at the stage of handle() that calls them.
THEOREM TypeCorrect == Spec => []TypeOK
<1>1. ServerInv => TypeOK
  BY DEF ServerInv
<1> QED
  BY <1>1, Invariance, PTL

\* Whoever is in an endpoint may do, by the tables of this moment, what it does,
\* though its permissions were read in an earlier transaction.
THEOREM AuthorizationHolds == Spec => []AuthorizedNow
<1>1. ServerInv => AuthorizedNow
  <2> SUFFICES ASSUME ServerInv, NEW t \in Threads, stage[t] = "endpoint"
               PROVE  MetBy(RequirementsOf(req[t].op),
                            {UNION {A!FlattenRoles(db, u) : u \in a.id} : a \in actor[t]})
    BY DEF AuthorizedNow
  <2>1. ASSUME NEW a \in actor[t] PROVE UNION {A!FlattenRoles(db, u) : u \in a.id} = a.perms
    <3>1. PICK u \in UserIDs : a = [id |-> {u}, perms |-> A!FlattenRoles(db, u)]
      BY <2>1 DEF ServerInv, HandlerInv, ActorState
    <3> HIDE DEF A!FlattenRoles
    <3> QED
      BY <3>1
  <2>2. {UNION {A!FlattenRoles(db, u) : u \in a.id} : a \in actor[t]} = {a.perms : a \in actor[t]}
    BY <2>1
  <2> QED
    BY <2>2 DEF ServerInv, HandlerInv, Admitted
<1> QED
  BY <1>1, Invariance, PTL

\* No thread carries a transaction or a lock from one component into another.
THEOREM TransactionsDoNotOverlap == Spec => []OneTransactionAtATime
<1>1. ServerInv => OneTransactionAtATime
  <2> SUFFICES ASSUME ServerInv, NEW t \in Threads,
                      \/ stage[t] \notin {"auth", "endpoint"} \/ pc[t] \in {"call", "done"}
                      \/ at[t] \in {"verify", "done"}
               PROVE  t \notin current /\ rlock[t] = {} /\ wlock[t] = {}
    BY DEF OneTransactionAtATime
  <2>1. t \notin current
    BY ThreadIsOK DEF ThreadOK, InGetPerms, InCall
  <2>2. EP!LocksHeld
    BY DEF ServerInv, EP!IInv, EP!DatabaseInv
  <2> QED
    BY <2>1, <2>2 DEF EP!LocksHeld
<1> QED
  BY <1>1, Invariance, PTL

\* A GET never holds a write lock, whatever path it names.
THEOREM GetIsSafe == Spec => []GetNeverWrites
<1>1. ServerInv => GetNeverWrites
  <2> SUFFICES ASSUME ServerInv, NEW t \in Threads, NEW h \in http[t], h.method = "GET"
               PROVE  wlock[t] = {}
    BY DEF GetNeverWrites
  <2>1. pc[t] # "commit"
    BY ThreadIsOK DEF ServerInv, HandlerInv, StoppedByPayload, ThreadOK
  <2>2. EP!Changing(t)
    BY DEF ServerInv, EP!IInv, EP!ThreadInv
  <2> QED
    BY <2>1, <2>2 DEF EP!Changing
<1> QED
  BY <1>1, Invariance, PTL

-----------------------------------------------------------------------------
(* What the endpoints promise by themselves, in the service *)

\* The bootstrap touches no project, worker or task, and everything but a commit of
\* an endpoint leaves the tables alone.
LEMMA IdsKeptByAll == ServerInv /\ [Next]_vars => E!IdsKept(db, db')
<1> SUFFICES ASSUME ServerInv, [Next]_vars PROVE E!IdsKept(db, db')
  OBVIOUS
<1>1. db \in EP!StoreType
  BY DEF ServerInv, EP!IInv, EP!CallsTyped
<1>2. ASSUME db'.projects = db.projects, db'.workers = db.workers, db'.tasks = db.tasks
      PROVE  E!IdsKept(db, db')
  BY <1>2 DEF E!IdsKept
<1>3. ASSUME NEW t \in Threads, EndpointStep(t) PROVE E!IdsKept(db, db')
  <2>1. EP!Step(t)
    BY <1>3, SameStep DEF EndpointStep
  <2>2. EP!IdsKept(db, db')
    BY <2>1, EP!StepInv, Assumed DEF ServerInv
  <2> QED
    BY <2>2 DEF E!IdsKept, EP!IdsKept
<1>4. ASSUME NEW t \in Threads, Receive(t) \/ Local(t) \/ AuthStep(t) PROVE E!IdsKept(db, db')
  <2>1. db' = db
    BY <1>4 DEF Receive, Local, AuthStep, Preflight, Anonymous, StartAuth, Authenticated, AuthFailed,
       ExtractFails, Refuse, Dispatch, Reply, Sent, A!Auth, A!Done, A!RejectToken, A!AcceptToken,
       A!FindUser, A!GetDefaultRole, A!Leave, A!Rollback, A!Begin, A!Select, E!CallWith, E!Finish,
       dbVars, A!dbVars, E!dbVars
  <2> QED
    BY <1>2, <2>1
<1>5. CASE Start
  <2>1. \/ db' = db
        \/ \E n, perms, u : \/ db' = A!EnsureRole(db, n, perms)
                            \/ db' = A!EnsureUser(A!EnsureRole(db, n, perms), u, n)
    BY <1>5 DEF Start, A!Start, A!BootstrapAdmin, A!BootstrapDefault, A!dbVars
  <2>2. \A n, perms, u :
           LET e == A!EnsureRole(db, n, perms)
               f == A!EnsureUser(e, u, n)
           IN  /\ e.projects = db.projects /\ e.workers = db.workers /\ e.tasks = db.tasks
               /\ f.projects = db.projects /\ f.workers = db.workers /\ f.tasks = db.tasks
    BY <1>1 DEF A!EnsureRole, A!EnsureUser, EP!StoreType
  <2> QED
    BY <1>2, <2>1, <2>2
<1>6. CASE Crash \/ UNCHANGED vars
  BY <1>2, <1>6 DEF Crash, A!Crash, A!LoseCache, vars, dbVars
<1> QED
  BY <1>3, <1>4, <1>5, <1>6 DEF Next, Handle

\* Authentication, the bootstrap and the router take nothing from the endpoints'
\* guarantees: what call() read stays true, it fails for no reason of its own, and
\* no id changes its meaning.
THEOREM EndpointsKeepTheirPromises ==
    Spec => [](E!ReadsStayTrue /\ E!NoSurpriseFailures) /\ E!IdsStable
<1>1. ServerInv => E!ReadsStayTrue /\ E!NoSurpriseFailures
  <2> SUFFICES ASSUME ServerInv PROVE E!ReadsStayTrue /\ E!NoSurpriseFailures
    OBVIOUS
  <2>1. EP!ReadsStayTrue /\ EP!NoSurpriseFailures
    BY EP!WhatTheInvariantSays, Assumed DEF ServerInv
  <2>2. E!ReadsStayTrue
    BY <2>1 DEF E!ReadsStayTrue, EP!ReadsStayTrue, E!At, EP!At, E!Op, EP!Op, E!TasksOfProject,
       EP!TasksOfProject, E!TasksOfWorker, EP!TasksOfWorker
  <2>3. E!NoSurpriseFailures
    BY <2>1 DEF E!NoSurpriseFailures, EP!NoSurpriseFailures, E!Op, EP!Op
  <2> QED
    BY <2>2, <2>3
<1> QED
  BY <1>1, IdsKeptByAll, Invariance, PTL DEF Spec, E!IdsStable

-----------------------------------------------------------------------------
(* What the authenticator promises by itself, in the service *)

\* Nothing but the bootstrap changes users, roles or the configuration.
LEMMA OnlyStartChangesAccounts ==
    ASSUME ServerInv, [Next]_vars
    PROVE  Start \/ (db'.users = db.users /\ db'.roles = db.roles /\ UNCHANGED <<config, used>>)
<1>1. ASSUME NEW t \in Threads, EndpointStep(t)
      PROVE  db'.users = db.users /\ db'.roles = db.roles /\ UNCHANGED <<config, used>>
  <2>1. EP!Step(t)
    BY <1>1, SameStep DEF EndpointStep
  <2> QED
    BY <1>1, <2>1, EP!StepKeepsAccounts, Assumed
       DEF ServerInv, AccountsCommitted, EndpointStep, authVars
<1>2. ASSUME NEW t \in Threads, Receive(t) \/ Local(t) \/ AuthStep(t)
      PROVE  UNCHANGED <<db, config, used>>
  BY <1>2 DEF Receive, Local, AuthStep, Preflight, Anonymous, StartAuth, Authenticated, AuthFailed,
     ExtractFails, Refuse, Dispatch, Reply, Sent, A!Auth, A!Done, A!RejectToken, A!AcceptToken,
     A!FindUser, A!GetDefaultRole, A!Leave, A!Rollback, A!Begin, A!Select, E!CallWith, E!Finish,
     dbVars, authVars, A!dbVars, E!dbVars
<1>3. CASE Crash \/ UNCHANGED vars
  BY <1>3 DEF Crash, A!Crash, A!LoseCache, vars, dbVars, authVars
<1> QED
  BY <1>1, <1>2, <1>3 DEF Next, Handle

\* What the bootstrap does to them
LEMMA StartChangesAccounts ==
    ASSUME ServerInv, Start
    PROVE  /\ A!PermsKept(db, db', {})
           /\ \A x \in db'.users : x \in db.users \/ \E c \in config : x.id = c.bootstrapUser
<1>1. /\ db \in EP!StoreType /\ EP!ForeignKeysHold(db)
      /\ {"administrate"} \in SUBSET Perm /\ {} \in SUBSET Perm
  BY DEF ServerInv, EP!IInv, EP!CallsTyped, EP!Consistent, Perm
<1>2. \A c \in config : /\ c.adminRole \in RoleIDs /\ c.defaultRole \in RoleIDs
                        /\ c.bootstrapUser \in UserIDs
  BY ComponentsAssumption DEF ServerInv, TypeOK, A!TypeOK, A!ConfigType
<1>3. CASE A!Start
  BY <1>3 DEF A!Start, A!dbVars, A!PermsKept, A!HasUser
<1>4. CASE A!BootstrapDefault
  BY <1>1, <1>2, <1>4, EnsuredRole DEF A!BootstrapDefault
<1>5. CASE A!BootstrapAdmin
  <2>1. PICK c \in config :
          db' = A!EnsureUser(A!EnsureRole(db, c.adminRole, {"administrate"}),
                             c.bootstrapUser, c.adminRole)
    BY <1>5 DEF A!BootstrapAdmin
  <2> DEFINE e == A!EnsureRole(db, c.adminRole, {"administrate"})
  <2>2. /\ e \in EP!StoreType /\ EP!ForeignKeysHold(e) /\ A!HasRole(e, c.adminRole)
        /\ e.users = db.users /\ A!PermsKept(db, e, {})
    BY <1>1, <1>2, EnsuredRole
  <2> HIDE DEF e
  <2>3. /\ A!PermsKept(e, db', {})
        /\ \A x \in db'.users : x \in e.users \/ x.id = c.bootstrapUser
    BY <1>2, <2>1, <2>2, EnsuredUser DEF e
  <2>4. A!PermsKept(db, db', {})
    BY <2>2, <2>3 DEF A!PermsKept, A!HasUser
  <2> QED
    BY <2>2, <2>3, <2>4
<1> QED
  BY <1>3, <1>4, <1>5 DEF Start

\* Whatever the endpoints do to the other tables, no request, no restart and no edited
\* configuration takes a permission from a user, and nobody but the configured bootstrap
\* user can gain one.
THEOREM UsersAreUndisturbed == Spec => A!OthersUndisturbed
<1>1. ServerInv /\ [Next]_vars => A!PermsKept(db, db', {})
  <2> SUFFICES ASSUME ServerInv, [Next]_vars PROVE A!PermsKept(db, db', {})
    OBVIOUS
  <2>1. CASE db'.users = db.users /\ db'.roles = db.roles
    BY <2>1 DEF A!PermsKept, A!HasUser, A!FlattenRoles
  <2> QED
    BY <2>1, OnlyStartChangesAccounts, StartChangesAccounts
<1>2. A!PermsKept(db, db', {}) => A!PermsKept(db, db', {c.bootstrapUser : c \in config})
  BY DEF A!PermsKept
<1> QED
  BY <1>1, <1>2, Invariance, PTL DEF Spec, A!OthersUndisturbed

\* Everybody the tables name was the bootstrap user at some start.
UsersNamed ==
    /\ config \subseteq used
    /\ \A x \in db.users : x.id \in A!Named

PrivilegedActorsNamed ==
    A!KeptApart(used) => \A t \in Threads : \A a \in actor[t] : a.perms # {} => a.id \subseteq A!Named

\* Unless one name ever stood for both roles, whoever an endpoint runs for with any
\* permission was at some start of the service the configured bootstrap user: no
\* request makes anybody privileged.
THEOREM NobodyEscalates == Spec => []PrivilegedActorsNamed
<1>1. Init => UsersNamed
  BY DEF Init, A!Init, A!DatabaseInit, A!EmptyStore, UsersNamed
<1>2. ServerInv /\ UsersNamed /\ [Next]_vars => UsersNamed'
  <2> SUFFICES ASSUME ServerInv, UsersNamed, [Next]_vars PROVE UsersNamed'
    OBVIOUS
  <2>1. CASE Start
    <3>1. (config' = config /\ used' = used) \/ \E c : config' = {c} /\ used' = used \cup {c}
      BY <2>1 DEF Start, A!Start, A!BootstrapAdmin, A!BootstrapDefault
    <3>2. \A x \in db'.users : x.id \in A!Named
      BY <2>1, StartChangesAccounts DEF UsersNamed, A!Named
    <3> QED
      BY <3>1, <3>2 DEF UsersNamed, A!Named
  <2>2. CASE db'.users = db.users /\ UNCHANGED <<config, used>>
    BY <2>2 DEF UsersNamed, A!Named
  <2> QED
    BY <2>1, <2>2, OnlyStartChangesAccounts
<1>3. ServerInv /\ UsersNamed => PrivilegedActorsNamed
  <2> SUFFICES ASSUME ServerInv, UsersNamed, NEW t \in Threads, NEW a \in actor[t], a.perms # {}
               PROVE  a.id \subseteq A!Named
    BY DEF PrivilegedActorsNamed
  <2>1. PICK u \in UserIDs : a = [id |-> {u}, perms |-> A!FlattenRoles(db, u)]
    BY DEF ServerInv, HandlerInv, ActorState
  <2>2. \E x \in db.users : x.id = u
    BY <2>1 DEF A!FlattenRoles
  <2> QED
    BY <2>1, <2>2 DEF UsersNamed
<1> QED
  BY <1>1, <1>2, <1>3, Invariance, PTL DEF Spec

-----------------------------------------------------------------------------
(* The calls that come through the router *)

\* The routes are those that ListenerProofs is about.
LEMMA SameRoute == ASSUME NEW p PROVE P!Route(p) = LP!Api(p, LP!RouteTable)
BY Zenon DEF P!Route, P!Api, LP!Api, P!RouteTable, LP!RouteTable, P!Root, LP!Root, P!Then, LP!Then, P!Lit, LP!Lit,
   P!Routes, LP!Routes, P!Done, LP!Done, P!Dyn, LP!Dyn, P!Endpoint, LP!Endpoint, P!Make, LP!Make,
   P!Object, LP!Object, P!Choice, LP!Choice, P!Join, LP!Join, P!Flatten, LP!Flatten, P!IntSegment,
   LP!IntSegment, P!Stoi, LP!Stoi, P!Result, LP!Result, P!Nullopt, LP!Nullopt, P!Positions,
   LP!Positions, P!AtEnd, LP!AtEnd

\* What the router calls an endpoint with is a request of that endpoint.
LEMMA CallIsRequest ==
    ASSUME NEW h \in HttpRequests, NEW e \in RouteOf[h.path]
    PROVE  EndpointCall(h, e) \in EP!Requests
<1>1. h \in HttpType
  BY HttpAssumption
<1>2. h.path \in Seq(Segments) /\ h.body.id \in Ids /\ h.body.worker \in Ids
  BY <1>1 DEF HttpType
<1>3. RouteOf[h.path] = P!Route(h.path)
  BY DEF RouteOf
<1>4. \/ /\ e.type \in {"get_project", "get_worker", "get_task"}
         /\ \E s \in Segments : \E n \in LP!Stoi(s) : e.args = <<n>>
      \/ /\ e.type \in {"get_projects", "add_project", "del_project", "get_users", "add_task",
                        "assign_task", "unassign_task", "add_worker", "get_workers", "debug"}
         /\ e.args = << >>
  <2>1. e \in LP!Api(h.path, LP!RouteTable)
    BY <1>3, SameRoute
  <2> QED
    BY <1>2, <2>1, LP!RouteGivesIds, Assumed
<1>5. Ids \subseteq NamedIds /\ \A s \in Segments : LP!Stoi(s) \subseteq NamedIds
  BY DEF NamedIds, P!Stoi, LP!Stoi
<1> DEFINE c == EndpointCall(h, e)
<1>6. c = [op |-> c.op, id |-> c.id, worker |-> c.worker] /\ c.op = e.type
  BY DEF EndpointCall
<1>7. CASE e.type \in {"get_project", "get_worker", "get_task"} /\ e.args # << >>
  <2>1. e.args[1] \in NamedIds
    BY <1>4, <1>5, <1>7
  <2>2. c.id \in NamedIds /\ c.worker = NULL
    BY <1>7, <2>1 DEF EndpointCall
  <2> HIDE DEF c
  <2>3. [op |-> e.type, id |-> c.id, worker |-> c.worker] \in EP!Requests
    BY <1>7, <2>2 DEF EP!Requests, EP!NULL, NULL
  <2> QED
    BY <1>6, <2>3 DEF c
<1>8. CASE e.args = << >>
  <2>1. e.type \in {"get_projects", "add_project", "del_project", "get_users", "add_task",
                    "assign_task", "unassign_task", "add_worker", "get_workers", "debug"}
    BY <1>4, <1>8
  <2>2. /\ c.id = IF e.type \in {"del_project", "add_task", "assign_task", "unassign_task"}
                  THEN h.body.id ELSE NULL
        /\ c.worker = IF e.type = "assign_task" THEN h.body.worker ELSE NULL
    BY <1>8 DEF EndpointCall
  <2> HIDE DEF c
  <2>3. [op |-> e.type, id |-> c.id, worker |-> c.worker] \in EP!Requests
    BY <1>2, <1>5, <2>1, <2>2 DEF EP!Requests, EP!NULL, NULL
  <2> QED
    BY <1>6, <2>3 DEF c
<1> QED
  BY <1>4, <1>7, <1>8

-----------------------------------------------------------------------------
(* The service on the task board *)

\* The board takes the service's own steps, and the invariant of the proof that the
\* endpoints implement it survives them.
OnBoard == EP!BoardInv' /\ [EP!Board!Next]_EP!Board!boardVars

\* The handler's own work, and every wait for the network, is not seen.
LEMMA HandlerOnBoard ==
    ASSUME EP!BoardInv, UNCHANGED <<dbVars, callVars>>
    PROVE  OnBoard
BY EP!UntouchedBoard, Assumed DEF OnBoard, dbVars, callVars, EP!dbVars, EP!callVars

\* Authentication is not seen either: the thread has no call yet.
LEMMA AuthOnBoard ==
    ASSUME ServerInv, EP!BoardInv, NEW t \in Threads, AuthStep(t)
    PROVE  OnBoard
<1>1. pc[t] = "idle" /\ UNCHANGED EP!callVars
  BY ThreadIsOK DEF AuthStep, ThreadOK, callVars, EP!callVars
<1>2. A!Begin(t) \/ A!Rollback(t) \/ A!Select(t, {"User"})
  BY DEF AuthStep, A!RejectToken, A!AcceptToken, A!FindUser, A!GetDefaultRole, A!Leave
<1>3. EP!Begin(t) \/ EP!Rollback(t) \/ \E R \in SUBSET EP!Tables : EP!Select(t, R)
  BY <1>2, SameTransaction DEF EP!Tables
<1> QED
  BY <1>1, <1>3, EP!OutsideBoard, Assumed DEF OnBoard

\* The router's call, the steps of call() and the reply are what the board knows.
LEMMA CallOnBoard ==
    ASSUME ServerInv, ServerInv', EP!BoardInv, NEW t \in Threads, Dispatch(t) \/ EndpointStep(t) \/ Reply(t)
    PROVE  OnBoard
<1>1. (\E r \in EP!Requests : EP!CallWith(t, r)) \/ EP!Step(t)
  <2>1. CASE Dispatch(t)
    <3>1. PICK h \in http[t] : \E e \in RouteOf[h.path] : E!CallWith(t, EndpointCall(h, e))
      BY <2>1 DEF Dispatch
    <3>2. h \in HttpRequests
      BY DEF ServerInv, TypeOK
    <3> QED
      BY <3>1, <3>2, CallIsRequest, SameCall
  <2>2. CASE EndpointStep(t)
    BY <2>2, SameStep DEF EndpointStep
  <2>3. CASE Reply(t)
    BY <2>3, SameCall DEF Reply, EP!Step
  <2> QED
    BY <2>1, <2>2, <2>3
<1>2. EP!IInv'
  BY DEF ServerInv
<1> QED
  BY <1>1, <1>2, EP!BoardStep, EP!StepOnBoard, Assumed DEF OnBoard

\* The start-up adds accounts while there are no calls.
LEMMA StartOnBoard ==
    ASSUME ServerInv, ServerInv', EP!BoardInv, Start
    PROVE  OnBoard
<1>1. \A t \in Threads : pc[t] = "idle"
  BY QuietBefore DEF Quiet, Start, A!Start, A!BootstrapAdmin, A!BootstrapDefault
<1>2. UNCHANGED EP!callVars /\ EP!IInv' /\ db \in EP!StoreType
  BY DEF Start, callVars, EP!callVars, ServerInv, EP!IInv, EP!CallsTyped
<1>3. /\ db'.projects = db.projects /\ db'.workers = db.workers /\ db'.tasks = db.tasks
      /\ db'.lastProject = db.lastProject /\ db'.lastWorker = db.lastWorker
      /\ db'.lastTask = db.lastTask /\ db.users \subseteq db'.users
  <2>1. \/ db' = db
        \/ \E n, perms, u : \/ db' = A!EnsureRole(db, n, perms)
                            \/ db' = A!EnsureUser(A!EnsureRole(db, n, perms), u, n)
    BY DEF Start, A!Start, A!BootstrapAdmin, A!BootstrapDefault, A!dbVars
  <2>2. \A n, perms, u :
           LET e == A!EnsureRole(db, n, perms)
               f == A!EnsureUser(e, u, n)
           IN  /\ e.projects = db.projects /\ e.workers = db.workers /\ e.tasks = db.tasks
               /\ e.lastProject = db.lastProject /\ e.lastWorker = db.lastWorker
               /\ e.lastTask = db.lastTask /\ db.users \subseteq e.users
               /\ f.projects = db.projects /\ f.workers = db.workers /\ f.tasks = db.tasks
               /\ f.lastProject = db.lastProject /\ f.lastWorker = db.lastWorker
               /\ f.lastTask = db.lastTask /\ db.users \subseteq f.users
    BY <1>2 DEF A!EnsureRole, A!EnsureUser, EP!StoreType
  <2> QED
    BY <2>1, <2>2
<1>4. EP!BoardInv' /\ EP!Board!Enroll
  BY <1>1, <1>2, <1>3, EP!QuietBoard, Assumed
<1> QED
  BY <1>4 DEF OnBoard, EP!Board!Next

\* A crash is a restart of the board, whatever the start-up had got to.
LEMMA CrashOnBoard ==
    ASSUME ServerInv', EP!BoardInv, Crash
    PROVE  OnBoard
<1>1. EP!LoseCache /\ EP!NoCalls /\ EP!IInv'
  BY SameLoss DEF Crash, A!Crash, ServerInv
<1>2. EP!BoardInv' /\ EP!Board!Restart
  BY <1>1, EP!CrashCall, EP!CrashRestarts, Assumed
<1> QED
  BY <1>2 DEF OnBoard, EP!Board!Next

\* Every step of the service is a step of the board or changes nothing on it.
LEMMA ServerOnBoard ==
    ASSUME ServerInv, ServerInv', EP!BoardInv, [Next]_vars
    PROVE  OnBoard
<1>1. ASSUME NEW t \in Threads,
             \/ Receive(t) \/ Preflight(t) \/ Anonymous(t) \/ StartAuth(t) \/ Authenticated(t)
             \/ AuthFailed(t) \/ ExtractFails(t) \/ Refuse(t) \/ Sent(t)
      PROVE  UNCHANGED <<dbVars, callVars>>
  BY <1>1 DEF Receive, Preflight, Anonymous, StartAuth, Authenticated, AuthFailed, ExtractFails,
     Refuse, Sent, A!Auth, A!Done, dbVars, A!dbVars
<1>2. ASSUME NEW t \in Threads, Receive(t) \/ Handle(t) PROVE OnBoard
  BY <1>1, <1>2, HandlerOnBoard, AuthOnBoard, CallOnBoard DEF Handle, Local
<1>3. CASE UNCHANGED vars
  BY <1>3, HandlerOnBoard DEF vars
<1> QED
  BY <1>2, <1>3, StartOnBoard, CrashOnBoard DEF Next

\* The board in these lemmas is the one of the property.
LEMMA SameBoard ==
    [EP!Board!Next]_EP!Board!boardVars => [E!Board!Next]_E!Board!boardVars
BY Zenon DEF E!Board!Next, EP!Board!Next, E!Board!boardVars, EP!Board!boardVars, E!Board!board,
   EP!Board!board, E!Board!Ask, EP!Board!Ask, E!Board!Return, EP!Board!Return, E!Board!Fail,
   EP!Board!Fail, E!Board!Get, EP!Board!Get, E!Board!NotThere, EP!Board!NotThere,
   E!Board!DelNothing, EP!Board!DelNothing, E!Board!AddProject, EP!Board!AddProject,
   E!Board!AddWorker, EP!Board!AddWorker, E!Board!AddTask, EP!Board!AddTask, E!Board!DelProject,
   EP!Board!DelProject, E!Board!AssignTask, EP!Board!AssignTask, E!Board!UnassignTask,
   EP!Board!UnassignTask, E!Board!Restart, EP!Board!Restart, E!Board!Enroll, EP!Board!Enroll,
   E!Board!Live, EP!Board!Live, E!Board!Named, EP!Board!Named, E!Board!TaskView,
   EP!Board!TaskView, E!Board!Pending, EP!Board!Pending, E!Board!Reply, EP!Board!Reply,
   E!Board!Calls, EP!Board!Calls, E!Board!Changes, EP!Board!Changes, E!Board!Questions,
   EP!Board!Questions, E!Board!NoCall, EP!Board!NoCall, E!Board!NoAnswer, EP!Board!NoAnswer,
   E!Board!Restrict, EP!Board!Restrict, E!ProjectOf, EP!ProjectOf, E!WorkerOf, EP!WorkerOf,
   E!Issued, EP!Issued, E!Answers, EP!Answers, E!NoOut, EP!NoOut, E!TaskWithId, EP!TaskWithId,
   E!NULL, EP!NULL

\* So is the one it starts with.
LEMMA SameInit == EP!Board!Init => E!Board!Init
BY Zenon DEF E!Board!Init, EP!Board!Init, E!Board!NoCall, EP!Board!NoCall, E!Board!NoAnswer,
   EP!Board!NoAnswer, E!ProjectOf, EP!ProjectOf, E!WorkerOf, EP!WorkerOf, E!Issued, EP!Issued,
   E!Answers, EP!Answers, E!NoOut, EP!NoOut, E!TaskWithId, EP!TaskWithId, E!NULL, EP!NULL

\* The whole service serves the task board: whatever the requests, the accounts and
\* the crashes, every call that comes through the router takes effect at one instant
\* or not at all, and nothing else happens to projects, workers and tasks.
THEOREM ServiceImplementsTaskBoard == Spec => ServesTaskBoard
<1>1. Init => EP!BoardInv /\ E!Board!Init
  BY InitOfEndpoints, EP!BoardInit, EP!InitBoard, SameInit, Assumed
<1>2. ServerInv /\ ServerInv' /\ EP!BoardInv /\ [Next]_vars =>
          EP!BoardInv' /\ [E!Board!Next]_E!Board!boardVars
  BY ServerOnBoard, SameBoard DEF OnBoard
<1> QED
  BY <1>1, <1>2, Invariance, PTL
     DEF Spec, ServesTaskBoard, E!LinearizesTaskBoard, E!Board!Spec
=============================================================================
