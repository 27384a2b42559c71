-------------------------------- MODULE Server --------------------------------
(***************************************************************************)
(* The whole service: HttpHandler::handle on several handler threads.  A   *)
(* request is authenticated (Authenticator), its body extracted, its path  *)
(* routed and its endpoint's requirements compared with the permissions    *)
(* that were read before (ApiRouter), and then the endpoint runs           *)
(* (Endpoints).  All of them share one database and the threads'           *)
(* current transactions.                                                   *)
(***************************************************************************)
EXTENDS Database, Sequences

CONSTANTS
    Configs, Ops, Ids, MaxRows,      \* of Authenticator and Endpoints
    Segments, LeadingInt, IntMax,    \* of ApiParse
    HttpRequests                     \* the requests that clients send

VARIABLES
    phase, config, at, subject, result, used,   \* of Authenticator
    pc, req, task, tasks, out,                   \* of Endpoints
    stage,    \* where the thread is in handle()
    http,     \* the HTTP request it handles
    actor,    \* its Option<Actor>
    rsp       \* the response it sends

A == INSTANCE Authenticator
P == INSTANCE ApiParse

\* The ids that requests name: in the payload, or in the path
NamedIds == Ids \cup UNION {P!Stoi(s) : s \in Segments}

E == INSTANCE Linearizable WITH Ids <- NamedIds, InitialUsers <- {}, InitialRoles <- {}

\* What the components assume of their constants
ASSUME ComponentsAssumption ==
    /\ Configs \subseteq A!ConfigType
    /\ Ids \subseteq Int /\ MaxRows \in Nat
    /\ LeadingInt \in [Segments -> SUBSET Int] /\ IntMax \in Nat

authVars == <<phase, config, at, subject, result, used>>
callVars == <<pc, req, task, tasks, out>>
serverVars == <<stage, http, actor, rsp>>
vars == <<dbVars, authVars, callVars, serverVars>>

-----------------------------------------------------------------------------
(* HTTP requests *)

\* token: {} when it is missing or does not verify, else its subject.
\* decodes: uri::decode takes the path.
\* body: whether it comes through as JSON and has the members the endpoint expects, and the
\* ids in it.
HttpType ==
    [method : {"GET", "POST", "OPTIONS"},
     scheme : {"none", "basic", "bearer"},
     token  : {{}} \cup {{u} : u \in UserIDs},
     path   : Seq(Segments),
     decodes : BOOLEAN,
     body   : [kind : {"unreadable", "invalid", "incomplete", "complete"}, id : Ids, worker : Ids]]

ASSUME HttpAssumption == HttpRequests \subseteq HttpType

\* api.parse of every path that is asked for
RouteOf == [path \in {h.path : h \in HttpRequests} |-> P!Route(path)]

GetJwt(h) == IF h.scheme = "bearer" THEN {h.token} ELSE {}

PayloadOfAnyMethod(h) == h.body.kind

\* EndpointInput::payload: for other methods it stays null.
Payload(h) == IF h.method = "POST" THEN h.body.kind ELSE "null"

\* ApiPath of the request, or extract_json, throws what handle() answers with 500.
Unreadable(h) == ~ h.decodes \/ Payload(h) = "unreadable"

\* The endpoint's call with the ids it takes from the path or from the payload
EndpointCall(h, endpoint) ==
    [op     |-> endpoint.type,
     id     |-> CASE endpoint.args # << >> -> endpoint.args[1]
                  [] endpoint.type \in {"del_project", "add_task", "assign_task", "unassign_task"} ->
                        h.body.id
                  [] OTHER -> NULL,
     worker |-> IF endpoint.type = "assign_task" THEN h.body.worker ELSE NULL]

\* requirements() of the endpoints
RequirementsOf(op) ==
    CASE op \in {"get_projects", "get_project"} -> {"view_project"}
      [] op \in {"get_workers", "get_worker"} -> {"view_worker"}
      [] op = "get_task" -> {"view_task"}
      [] op = "get_users" -> {}
      [] op = "add_project" -> {"create_project"}
      [] op = "del_project" -> {"delete_project"}
      [] op = "add_task" -> {"create_task"}
      [] op \in {"assign_task", "unassign_task"} -> {"assign_task"}
      [] op = "add_worker" -> {"create_worker"}
      [] op = "debug" -> {"administrate"}

\* Requirements::met_by; perms: {}, or {the permissions of the actor}
MetBy(requirements, perms) ==
    IF perms = {} THEN requirements = {}
    ELSE \E granted \in perms : "administrate" \in granted \/ requirements \subseteq granted

-----------------------------------------------------------------------------
NoRsp == [status |-> 0, tag |-> "none"]
Rsp(status, tag) == [status |-> status, tag |-> tag]

\* No thread handles a request.
NoRequests ==
    /\ stage' = [t \in Threads |-> "idle"]
    /\ http' = [t \in Threads |-> {}]
    /\ actor' = [t \in Threads |-> {}]
    /\ rsp' = [t \in Threads |-> NoRsp]

Init ==
    /\ A!Init
    /\ pc = [t \in Threads |-> "idle"] /\ req = [t \in Threads |-> E!NoRequest]
    /\ task = [t \in Threads |-> {}] /\ tasks = [t \in Threads |-> {}]
    /\ out = [t \in Threads |-> E!NoOut]
    /\ stage = [t \in Threads |-> "idle"]
    /\ http = [t \in Threads |-> {}]
    /\ actor = [t \in Threads |-> {}]
    /\ rsp = [t \in Threads |-> NoRsp]

\* handle() returns: its locals are gone, the response is sent.
Respond(t, status, tag) ==
    /\ stage' = [stage EXCEPT ![t] = "reply"]
    /\ rsp' = [rsp EXCEPT ![t] = Rsp(status, tag)]
    /\ http' = [http EXCEPT ![t] = {}]
    /\ actor' = [actor EXCEPT ![t] = {}]

Continue(t, s) ==
    /\ stage' = [stage EXCEPT ![t] = s]
    /\ UNCHANGED <<http, rsp>>

-----------------------------------------------------------------------------
(* The process *)

Start ==
    /\ A!Start \/ A!BootstrapAdmin \/ A!BootstrapDefault
    /\ UNCHANGED <<callVars, serverVars>>

Crash ==
    /\ A!Crash
    /\ E!NoCalls
    /\ NoRequests

-----------------------------------------------------------------------------
(* A request *)

\* Bound: no add request arrives for a table that is full.
RoomFor(h) == \A e \in RouteOf[h.path] : E!RoomFor(EndpointCall(h, e))

\* The listener hands a request to a free thread.
Receive(t) ==
    /\ phase = "up" /\ stage[t] = "idle"
    /\ \E h \in HttpRequests :
          /\ RoomFor(h)
          /\ http' = [http EXCEPT ![t] = {h}]
          /\ stage' = [stage EXCEPT ![t] = IF h.method = "OPTIONS" THEN "preflight" ELSE "verify_auth"]
    /\ UNCHANGED <<dbVars, authVars, callVars, actor, rsp>>

Preflight(t) ==
    /\ stage[t] = "preflight"
    /\ Respond(t, 200, "empty")   \* no body
    /\ UNCHANGED <<dbVars, authVars, callVars>>

\* verify_auth without a bearer token: there is no actor.
Anonymous(t) ==
    /\ stage[t] = "verify_auth"
    /\ \A h \in http[t] : GetJwt(h) = {}
    /\ Continue(t, "route")
    /\ UNCHANGED <<dbVars, authVars, callVars, actor>>

StartAuth(t) ==
    /\ stage[t] = "verify_auth"
    /\ \A h \in http[t] : GetJwt(h) # {}
    /\ A!Auth(t)
    /\ Continue(t, "auth")
    /\ UNCHANGED <<callVars, actor>>

\* The steps of Authenticator::auth, for the token of the request
AuthStep(t) ==
    /\ stage[t] = "auth"
    /\ \/ A!RejectToken(t) /\ \A h \in http[t] : h.token = {}
       \/ A!AcceptToken(t) /\ \A h \in http[t] : subject'[t] = h.token
       \/ A!FindUser(t)
       \/ A!GetDefaultRole(t)
    /\ UNCHANGED <<callVars, serverVars>>

Authenticated(t) ==
    /\ stage[t] = "auth" /\ result[t].kind = "ok"
    /\ A!Done(t)
    /\ actor' = [actor EXCEPT ![t] = {[id |-> subject[t], perms |-> result[t].perms]}]
    /\ Continue(t, "route")
    /\ UNCHANGED callVars

AuthFailedForgotten(t) ==
    /\ stage[t] = "auth" /\ result[t].kind \in {"auth_error", "already_in_transaction"}
    /\ Respond(t, 500, "Err")
    /\ UNCHANGED <<dbVars, authVars, callVars>>

AuthFailed(t) ==
    /\ stage[t] = "auth" /\ result[t].kind \in {"auth_error", "already_in_transaction"}
    /\ A!Done(t)
    /\ Respond(t, IF result[t].kind = "auth_error" THEN 400 ELSE 500, "Err")
    /\ UNCHANGED callVars

\* The path does not decode, or extract_json throws what extract_req_json does not catch.
ExtractFails(t) ==
    /\ stage[t] = "route"
    /\ \E h \in http[t] : Unreadable(h)
    /\ Respond(t, 500, "Err")
    /\ UNCHANGED <<dbVars, authVars, callVars>>

\* The body is not JSON, or the path leads nowhere, or the actor may not.
Refuse(t) ==
    /\ stage[t] = "route"
    /\ \E h \in http[t] :
          /\ ~ Unreadable(h)
          /\ \/ Payload(h) = "invalid"
             \/ RouteOf[h.path] = {}
             \/ \E e \in RouteOf[h.path] :
                    ~ MetBy(RequirementsOf(e.type), {a.perms : a \in actor[t]})
    /\ Respond(t, 400, "Err")
    /\ UNCHANGED <<dbVars, authVars, callVars>>

DispatchUnchecked(t) ==
    /\ stage[t] = "route"
    /\ \E h \in http[t] : \E e \in RouteOf[h.path] :
          /\ ~ Unreadable(h) /\ Payload(h) # "invalid"
          /\ E!CallWith(t, EndpointCall(h, e))
    /\ Continue(t, "endpoint")
    /\ UNCHANGED <<authVars, actor>>

Dispatch(t) ==
    /\ stage[t] = "route"
    /\ \E h \in http[t] : \E e \in RouteOf[h.path] :
          /\ ~ Unreadable(h) /\ Payload(h) # "invalid"
          /\ MetBy(RequirementsOf(e.type), {a.perms : a \in actor[t]})
          /\ E!CallWith(t, EndpointCall(h, e))
    /\ Continue(t, "endpoint")
    /\ UNCHANGED <<authVars, actor>>

\* The steps of IEndpoint::call; it parses the payload that was extracted.
EndpointStep(t) ==
    /\ stage[t] = "endpoint"
    /\ pc[t] # "done" /\ E!Step(t)
    /\ E!At(t, "call", E!Posts) =>
          \A h \in http[t] : Payload(h) = "complete" <=> out'[t].kind # "json"
    /\ UNCHANGED <<authVars, serverVars>>

Reply(t) ==
    /\ stage[t] = "endpoint"
    /\ E!Finish(t)
    /\ CASE out[t].kind = "ok" -> Respond(t, 200, "Ok")
         [] out[t].kind = "nullopt" -> Respond(t, 200, "Err")
         [] OTHER -> Respond(t, 500, "Err")
    /\ UNCHANGED authVars

\* The thread goes back to the pool.
Sent(t) ==
    /\ stage[t] = "reply"
    /\ stage' = [stage EXCEPT ![t] = "idle"]
    /\ rsp' = [rsp EXCEPT ![t] = NoRsp]
    /\ UNCHANGED <<dbVars, authVars, callVars, http, actor>>

\* What needs no lock of the database
Local(t) ==
    \/ Preflight(t) \/ Anonymous(t) \/ StartAuth(t) \/ Authenticated(t) \/ AuthFailed(t)
    \/ ExtractFails(t) \/ Refuse(t) \/ Dispatch(t) \/ Reply(t) \/ Sent(t)

Handle(t) == Local(t) \/ AuthStep(t) \/ EndpointStep(t)

Next == Start \/ Crash \/ \E t \in Threads : Receive(t) \/ Handle(t)

Spec == Init /\ [][Next]_vars

\* A thread that is not blocked goes on (the body of a POST is assumed to come: for the
\* body.wait() in extract_json see module Pool), and one that waits for a lock is notified
\* when it is released and is not overtaken for ever.
Fairness == \A t \in Threads : WF_vars(Local(t)) /\ SF_vars(AuthStep(t)) /\ SF_vars(EndpointStep(t))

FairSpec == Spec /\ Fairness

-----------------------------------------------------------------------------
(* Properties *)

Stages == {"idle", "preflight", "verify_auth", "auth", "route", "endpoint", "reply"}

\* Type correctness of the handler's state; a thread's part in the authenticator
\* and in an endpoint is idle outside the stage it belongs to.
TypeOK ==
    /\ A!TypeOK
    /\ stage \in [Threads -> Stages]
    /\ \A t \in Threads :
          /\ http[t] \subseteq HttpRequests
          /\ actor[t] \subseteq [id : SUBSET UserIDs, perms : SUBSET Perm]
          /\ rsp[t] \in [status : {0, 200, 400, 500}, tag : {"none", "empty", "Ok", "Err"}]
          /\ at[t] # "idle" <=> stage[t] = "auth"
          /\ pc[t] # "idle" <=> stage[t] = "endpoint"

\* The permissions that let a request in were read in an earlier transaction and
\* are still what the tables say while its endpoint runs.
AuthorizedNow ==
    \A t \in Threads : stage[t] = "endpoint" =>
        MetBy(RequirementsOf(req[t].op), {UNION {A!FlattenRoles(db, u) : u \in a.id} : a \in actor[t]})

\* A thread never carries a transaction or a lock from authentication into the
\* endpoint or from one request into the next, so no begin outside get_perms ever
\* finds the thread already in a transaction.
OneTransactionAtATime ==
    \A t \in Threads :
        stage[t] \notin {"auth", "endpoint"} \/ pc[t] \in {"call", "done"} \/ at[t] \in {"verify", "done"} =>
            t \notin current /\ rlock[t] = {} /\ wlock[t] = {}

\* A GET is safe: whatever path it names, it never comes to hold the write lock
\* that a change of the database needs.
\* (The router does not look at the method; it is the missing payload that stops
\* the endpoints that change something.)
GetNeverWrites ==
    \A t \in Threads : \A h \in http[t] : h.method = "GET" => wlock[t] = {}

\* The service as a whole is the task board that the endpoints promise, although
\* it gets its accounts from a bootstrap that may be killed half-way, its calls
\* come through the router, and authentication shares the database with them.
ServesTaskBoard == E!LinearizesTaskBoard

\* Every request gets its response, though authentication and endpoints compete
\* for the locks of one database.
EveryRequestAnswered == \A t \in Threads : stage[t] # "idle" ~> stage[t] = "idle"
=============================================================================
