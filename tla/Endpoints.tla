------------------------------ MODULE Endpoints ------------------------------
(***************************************************************************)
(* IEndpoint::call of every endpoint, run by several handler threads at    *)
(* once.  A thread takes a request that was already routed and authorised, *)
(* runs the statements of the endpoint one by one in a transaction of its  *)
(* own, and ends with an answer: a payload, nullopt, or an exception.      *)
(***************************************************************************)
EXTENDS Database

CONSTANTS
    Ops,            \* the operations that clients call
    Ids,            \* the ids that requests name
    InitialUsers,   \* what the authenticator's start-up left in the tables
    InitialRoles,
    MaxRows         \* bound: no add request arrives for a table to which this
                    \* many rows were ever added

ASSUME IdsAssumption == Ids \subseteq Int
ASSUME MaxRowsAssumption == MaxRows \in Nat
ASSUME AccountsAssumption ==
    /\ InitialUsers \subseteq UserRow
    /\ InitialRoles \subseteq RoleRow
    /\ \A u \in InitialUsers : \A n \in u.roles : \E r \in InitialRoles : r.name = n

VARIABLES
    pc,      \* where the thread is in call()
    req,     \* the request it serves
    task,    \* the Task object in memory: {} or the loaded row
    tasks,   \* ids of the LazyWeak<Task> pointers not yet loaded
    out      \* what call() returned or threw, and the payload built so far

callVars == <<pc, req, task, tasks, out>>
vars == <<dbVars, callVars>>

-----------------------------------------------------------------------------
(* Requests and answers *)

Posts == {"add_project", "del_project", "add_task", "assign_task",
          "unassign_task", "add_worker"}
Gets  == {"get_projects", "get_project", "get_worker", "get_task", "get_users",
          "get_workers", "debug"}

\* id: the project, worker or task that the request names, if it names one
Requests ==
    [op : {"add_project", "add_worker", "get_projects", "get_users", "get_workers", "debug"},
     id : {NULL}, worker : {NULL}]
    \cup
    [op : {"del_project", "add_task", "unassign_task", "get_project", "get_worker", "get_task"},
     id : Ids, worker : {NULL}]
    \cup
    [op : {"assign_task"}, id : Ids, worker : Ids]

NoRequest == [op |-> "none", id |-> NULL, worker |-> NULL]

NoOut == [kind |-> "none", val |-> {}]
Out(kind, val) == [kind |-> kind, val |-> val]

\* What a payload says of projects or workers: their ids (and names)
Named(ids) == {[id |-> i] : i \in ids}

Op(t) == req[t].op

InitialStore == [EmptyStore EXCEPT !.users = InitialUsers, !.roles = InitialRoles]

Init ==
    /\ DatabaseInit(InitialStore)
    /\ pc = [t \in Threads |-> "idle"]
    /\ req = [t \in Threads |-> NoRequest]
    /\ task = [t \in Threads |-> {}]
    /\ tasks = [t \in Threads |-> {}]
    /\ out = [t \in Threads |-> NoOut]

-----------------------------------------------------------------------------
(* The next statement of a thread *)

\* find<Project> and find<Worker> select the object and, when there is one, the
\* ids in its inverse container.
FindReads(table, found) == {table} \cup (IF found THEN {"Task"} ELSE {})

\* Serialising a task loads it, its project and its worker.
LoadReads(i) ==
    {"Task", "Project"} \cup
        (IF \E r \in db.tasks : r.id = i /\ r.worker # NULL THEN {"Worker"} ELSE {})

\* The container has an order, which does not matter.
NextTask(t) == CHOOSE i \in tasks[t] : TRUE

Reads(t) ==
    CASE pc[t] = "open" /\ Op(t) \in {"add_task", "get_project"} ->
            FindReads("Project", req[t].id \in db.projects)
      [] pc[t] = "open" /\ Op(t) = "get_worker" ->
            FindReads("Worker", req[t].id \in db.workers)
      [] pc[t] = "open" /\ Op(t) \in {"assign_task", "unassign_task"} -> {"Task"}
      [] pc[t] = "open" /\ Op(t) = "get_task" -> {"Task", "Project", "Worker"}
      [] pc[t] = "open" /\ Op(t) = "get_projects" -> {"Project"}
      [] pc[t] = "open" /\ Op(t) = "get_workers" -> {"Worker"}
      [] pc[t] = "open" /\ Op(t) = "get_users" -> {"User", "Role"}
      [] pc[t] = "found" /\ Op(t) = "assign_task" ->
            FindReads("Worker", req[t].worker \in db.workers)
      [] pc[t] = "load" /\ tasks[t] # {} -> LoadReads(NextTask(t))
      [] OTHER -> {}

Writes(t) ==
    CASE pc[t] = "open" /\ Op(t) = "add_project" -> {"Project"}
      [] pc[t] = "open" /\ Op(t) = "add_worker" -> {"Worker"}
      [] pc[t] = "open" /\ Op(t) = "del_project" -> {"Project", "Task"}
      [] pc[t] = "found" /\ Op(t) \in {"add_task", "unassign_task"} -> {"Task"}
      [] pc[t] = "checked" -> {"Task"}
      [] OTHER -> {}

WaitsFor == [t \in Threads |-> Blockers(t, Reads(t), Writes(t))]

\* The statement is not blocked by a lock.
Ready(t) == WaitsFor[t] = {}

-----------------------------------------------------------------------------
(* Ways to leave call() *)

\* The transaction object goes out of scope without a commit.
Return(t, o) ==
    /\ Rollback(t)
    /\ pc' = [pc EXCEPT ![t] = "done"]
    /\ out' = [out EXCEPT ![t] = o]
    /\ task' = [task EXCEPT ![t] = {}]
    /\ tasks' = [tasks EXCEPT ![t] = {}]
    /\ UNCHANGED req

Throw(t, exception) == Return(t, Out(exception, {}))

Goto(t, label) == pc' = [pc EXCEPT ![t] = label]

-----------------------------------------------------------------------------
(* The beginning of call() *)

At(t, label, ops) == pc[t] = label /\ Op(t) \in ops

RoomFor(r) ==
    /\ r.op = "add_project" => db.lastProject < MaxRows
    /\ r.op = "add_worker" => db.lastWorker < MaxRows
    /\ r.op = "add_task" => db.lastTask < MaxRows

\* The router calls call() on a free handler thread.
CallWith(t, r) ==
    /\ pc[t] = "idle"
    /\ req' = [req EXCEPT ![t] = r]
    /\ Goto(t, "call")
    /\ UNCHANGED <<dbVars, task, tasks, out>>

Call(t) == \E r \in Requests : r.op \in Ops /\ RoomFor(r) /\ CallWith(t, r)

\* A member that payload.at() or get_to() expects is missing or of another type.
ParseError(t) ==
    /\ At(t, "call", Posts)
    /\ Throw(t, "json")

Debug(t) ==
    /\ At(t, "call", {"debug"})
    /\ Return(t, Out("ok", {}))

OpenTx(t) ==
    /\ At(t, "call", (Posts \cup Gets) \ {"debug"})
    /\ Begin(t)
    /\ Goto(t, "open")
    /\ UNCHANGED <<req, task, tasks, out>>

-----------------------------------------------------------------------------
(* Statements that change a table *)

\* The id that persist() hands back is the payload to be returned.
Persist(t, store, id) ==
    /\ Modify(t, Writes(t), store)
    /\ out' = [out EXCEPT ![t].val = Named({id})]
    /\ Goto(t, "commit")
    /\ UNCHANGED <<req, task, tasks>>

PersistProject(t) ==
    /\ At(t, "open", {"add_project"})
    /\ Persist(t, InsertProject(image), image.lastProject + 1)

PersistWorker(t) ==
    /\ At(t, "open", {"add_worker"})
    /\ Persist(t, InsertWorker(image), image.lastWorker + 1)

PersistTask(t) ==
    /\ At(t, "found", {"add_task"})
    /\ Persist(t, InsertTask(image, req[t].id), image.lastTask + 1)

\* erase() throws when it deleted no row.
EraseProject(t) ==
    /\ At(t, "open", {"del_project"})
    /\ Ready(t)
    /\ IF req[t].id \in image.projects
       THEN /\ Modify(t, Writes(t), DeleteProject(image, req[t].id))
            /\ Goto(t, "commit")
            /\ UNCHANGED <<req, task, tasks, out>>
       ELSE Throw(t, "not_persistent")

\* task->worker = w; tx.update(task), which throws when it changed no row.
SetWorker(t, w) ==
    /\ Ready(t)
    /\ IF HasTask(image, req[t].id)
       THEN /\ \E row \in task[t] :
                    Modify(t, Writes(t), UpdateTask(image, [row EXCEPT !.worker = w]))
            /\ Goto(t, "commit")
            /\ UNCHANGED <<req, task, tasks, out>>
       ELSE Throw(t, "not_persistent")

AssignWorker(t)   == At(t, "checked", {"assign_task"}) /\ SetWorker(t, req[t].worker)
UnassignWorker(t) == At(t, "found", {"unassign_task"}) /\ SetWorker(t, NULL)

-----------------------------------------------------------------------------
(* Statements that read *)

FindProjectInOwnTransaction(t) ==
    /\ At(t, "open", {"add_task", "get_project"})
    /\ Ready(t)
    /\ IF req[t].id \in db.projects
       THEN /\ UNCHANGED dbVars
            /\ tasks' = [tasks EXCEPT ![t] = {r.id : r \in TasksOfProject(db, req[t].id)}]
            /\ Goto(t, IF Op(t) = "add_task" THEN "found" ELSE "load")
            /\ UNCHANGED <<req, task, out>>
       ELSE Return(t, Out("nullopt", {}))

FindProject(t) ==
    /\ At(t, "open", {"add_task", "get_project"})
    /\ Ready(t)
    /\ IF req[t].id \in db.projects
       THEN /\ Select(t, Reads(t))
            /\ tasks' = [tasks EXCEPT ![t] = {r.id : r \in TasksOfProject(db, req[t].id)}]
            /\ Goto(t, IF Op(t) = "add_task" THEN "found" ELSE "load")
            /\ UNCHANGED <<req, task, out>>
       ELSE Return(t, Out("nullopt", {}))

FindWorker(t) ==
    /\ At(t, "open", {"get_worker"})
    /\ Ready(t)
    /\ IF req[t].id \in db.workers
       THEN /\ Select(t, Reads(t))
            /\ tasks' = [tasks EXCEPT ![t] = {r.id : r \in TasksOfWorker(db, req[t].id)}]
            /\ Goto(t, "load")
            /\ UNCHANGED <<req, task, out>>
       ELSE Return(t, Out("nullopt", {}))

\* assign_task looks the worker up even when there is no such task.
FindTask(t) ==
    /\ At(t, "open", {"assign_task", "unassign_task"})
    /\ Ready(t)
    /\ IF Op(t) = "assign_task" \/ HasTask(db, req[t].id)
       THEN /\ Select(t, Reads(t))
            /\ task' = [task EXCEPT ![t] = {r \in db.tasks : r.id = req[t].id}]
            /\ Goto(t, "found")
            /\ UNCHANGED <<req, tasks, out>>
       ELSE Return(t, Out("nullopt", {}))

FindAssignee(t) ==
    /\ At(t, "found", {"assign_task"})
    /\ Ready(t)
    /\ IF task[t] # {} /\ req[t].worker \in db.workers
       THEN /\ Select(t, Reads(t))
            /\ Goto(t, "checked")
            /\ UNCHANGED <<req, task, tasks, out>>
       ELSE Return(t, Out("nullopt", {}))

\* realize(): one LazyWeak pointer is loaded and serialised; load() throws when
\* its row is gone.
LoadTask(t) ==
    /\ At(t, "load", {"get_project", "get_worker"})
    /\ tasks[t] # {}
    /\ Ready(t)
    /\ IF HasTask(db, NextTask(t))
       THEN /\ Select(t, Reads(t))
            /\ out' = [out EXCEPT ![t].val = @ \cup {TaskWithId(db, NextTask(t))}]
            /\ tasks' = [tasks EXCEPT ![t] = @ \ {NextTask(t)}]
            /\ UNCHANGED <<pc, req, task>>
       ELSE Throw(t, "not_persistent")

Serialized(t) ==
    /\ At(t, "load", {"get_project", "get_worker"})
    /\ tasks[t] = {}
    /\ Return(t, Out("ok", out[t].val))

QueryTask(t) ==
    /\ At(t, "open", {"get_task"})
    /\ Ready(t)
    /\ Return(t, IF HasTask(db, req[t].id)
                 THEN Out("ok", {TaskWithId(db, req[t].id)})
                 ELSE Out("nullopt", {}))

Collect(t) ==
    /\ At(t, "open", {"get_projects", "get_workers", "get_users"})
    /\ Ready(t)
    /\ Return(t, Out("ok", CASE Op(t) = "get_projects" -> Named(db.projects)
                            [] Op(t) = "get_workers" -> Named(db.workers)
                            [] Op(t) = "get_users" -> db.users))

-----------------------------------------------------------------------------
(* The end of call(), and failures *)

CommitForgotten(t) ==
    /\ pc[t] = "commit"
    /\ Return(t, Out("ok", out[t].val))

CommitTx(t) ==
    /\ pc[t] = "commit"
    /\ IF ForeignKeysHold(image)
       THEN /\ Commit(t)
            /\ Goto(t, "done")
            /\ out' = [out EXCEPT ![t].kind = "ok"]
            /\ task' = [task EXCEPT ![t] = {}]
            /\ tasks' = [tasks EXCEPT ![t] = {}]
            /\ UNCHANGED req
       ELSE Throw(t, "constraint")

\* unlock-notify refuses to wait: odb::deadlock leaves call().
Deadlock(t) ==
    /\ OnCycle(t, WaitsFor)
    /\ Throw(t, "deadlock")

\* The handler has sent the response.
Finish(t) ==
    /\ pc[t] = "done"
    /\ Goto(t, "idle")
    /\ req' = [req EXCEPT ![t] = NoRequest]
    /\ out' = [out EXCEPT ![t] = NoOut]
    /\ UNCHANGED <<dbVars, task, tasks>>

NoCalls ==
    /\ pc' = [t \in Threads |-> "idle"]
    /\ req' = [t \in Threads |-> NoRequest]
    /\ task' = [t \in Threads |-> {}]
    /\ tasks' = [t \in Threads |-> {}]
    /\ out' = [t \in Threads |-> NoOut]

\* The process dies and the service manager starts it again.
Crash ==
    /\ \E t \in Threads : pc[t] # "idle"
    /\ LoseCache
    /\ NoCalls

-----------------------------------------------------------------------------
\* What a thread does by itself once it has a request.
Step(t) ==
    \/ ParseError(t) \/ Debug(t) \/ OpenTx(t)
    \/ PersistProject(t) \/ PersistWorker(t) \/ PersistTask(t)
    \/ EraseProject(t) \/ AssignWorker(t) \/ UnassignWorker(t)
    \/ FindProject(t) \/ FindWorker(t) \/ FindTask(t) \/ FindAssignee(t)
    \/ LoadTask(t) \/ Serialized(t) \/ QueryTask(t) \/ Collect(t)
    \/ CommitTx(t) \/ Deadlock(t) \/ Finish(t)

Next == (\E t \in Threads : Call(t) \/ Step(t)) \/ Crash

Spec == Init /\ [][Next]_vars

-----------------------------------------------------------------------------
(* Properties *)

Kinds == {"none", "ok", "nullopt", "json", "not_persistent", "constraint", "deadlock"}
Labels == {"idle", "call", "open", "found", "checked", "load", "commit", "done"}

\* The tables, the locks and the state of every call(), whatever is requested
CallsTyped ==
    /\ db \in StoreType /\ image \in StoreType
    /\ rlock \in [Threads -> SUBSET Tables] /\ wlock \in [Threads -> SUBSET Tables]
    /\ current \subseteq Threads
    /\ pc \in [Threads -> Labels]
    /\ req = [t \in Threads |-> req[t]]
    /\ task \in [Threads -> SUBSET TaskRow]
    /\ tasks \in [Threads -> SUBSET Nat]
    /\ out = [t \in Threads |-> Out(out[t].kind, out[t].val)]
    /\ \A t \in Threads : out[t].kind \in Kinds

\* Type correctness of the tables, the locks and every thread's call().
TypeOK == CallsTyped /\ req \in [Threads -> Requests \cup {NoRequest}]

\* What call() read stays true until it is done with it: the project that
\* add_task found and the task and worker that assign_task found are still in
\* the tables, unchanged, when the statement that relies on them runs, and a
\* get_project or get_worker answer in the making lists exactly the tasks the
\* tables hold, whatever other threads commit meanwhile.
ReadsStayTrue ==
    \A t \in Threads :
        /\ At(t, "found", {"add_task"}) => req[t].id \in db.projects
        /\ task[t] \subseteq db.tasks
        /\ At(t, "checked", {"assign_task"}) => req[t].worker \in db.workers
        /\ At(t, "load", {"get_project", "get_worker"}) =>
              /\ out[t].val \subseteq db.tasks
              /\ {r.id : r \in out[t].val} \cup tasks[t] =
                    {r.id : r \in IF Op(t) = "get_project"
                                  THEN TasksOfProject(db, req[t].id)
                                  ELSE TasksOfWorker(db, req[t].id)}

\* The 500s a client can meet through no fault of the request: no commit fails
\* on a foreign key, and an object that call() loaded is never missing when it
\* is updated or serialised; only del_project reports a missing object.
NoSurpriseFailures ==
    \A t \in Threads :
        /\ out[t].kind # "constraint"
        /\ out[t].kind = "not_persistent" => Op(t) = "del_project"

IdsKept(d, e) ==
    /\ \A p \in e.projects : p \in d.projects \/ p > d.lastProject
    /\ \A w \in e.workers : w \in d.workers \/ w > d.lastWorker
    /\ \A r \in e.tasks :
          r.id > d.lastTask \/ \E q \in d.tasks : q.id = r.id /\ q.project = r.project

\* An id means the same thing for ever: one that was handed out and whose object
\* is gone is never given to another object, and a task never moves to another
\* project.
IdsStable == [][IdsKept(db, db')]_vars

=============================================================================
