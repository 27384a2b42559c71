------------------------- MODULE LinearizableProofs -------------------------
(***************************************************************************)
(* The endpoints implement the task board, for any number of threads, ids  *)
(* and rows.  The refinement rests on the invariant of EndpointsProofs and *)
(* on what every thread knows at each point of its call: which answer it   *)
(* would give, and which change of the committed tables it has prepared.   *)
(***************************************************************************)
EXTENDS Linearizable, EndpointsProofs

\* An id names one task, and only an id that was handed out; 0 is no worker.
Numbered(d) ==
    /\ \A r \in d.tasks : r.id <= d.lastTask
    /\ \A q, r \in d.tasks : q.id = r.id => q = r
    /\ NULL \notin d.workers

InTransaction == {"open", "found", "checked", "load", "commit"}

\* A thread has a request, a transaction and an answer exactly when it should.
Serving(t) ==
    /\ req[t] = NoRequest <=> pc[t] = "idle"
    /\ pc[t] = "done" => out[t].kind # "none"
    /\ pc[t] \in {"found", "checked"} => out[t].val = {}

\* assign_task knows that there is no such task, too.
TaskLookedUp(t) ==
    At(t, "found", {"assign_task"}) =>
        "Task" \in rlock[t] /\ task[t] = {r \in db.tasks : r.id = req[t].id}

\* What a listing hangs on was found and is still there.
OwnerRead(t) ==
    /\ At(t, "load", {"get_project"}) => "Project" \in rlock[t] /\ req[t].id \in db.projects
    /\ At(t, "load", {"get_worker"}) => "Worker" \in rlock[t] /\ req[t].id \in db.workers

\* The change that waits for its commit, and the payload that goes with it
Prepared(t) ==
    \/ /\ Op(t) = "add_project"
       /\ image = InsertProject(db) /\ out[t].val = Named({db.lastProject + 1})
    \/ /\ Op(t) = "add_worker"
       /\ image = InsertWorker(db) /\ out[t].val = Named({db.lastWorker + 1})
    \/ /\ Op(t) = "add_task" /\ req[t].id \in db.projects
       /\ image = InsertTask(db, req[t].id) /\ out[t].val = Named({db.lastTask + 1})
    \/ /\ Op(t) = "del_project" /\ req[t].id \in db.projects
       /\ image = DeleteProject(db, req[t].id) /\ out[t].val = {}
    \/ /\ Op(t) = "assign_task" /\ req[t].worker \in db.workers
       /\ \E row \in db.tasks :
            /\ row.id = req[t].id
            /\ image = UpdateTask(db, [row EXCEPT !.worker = req[t].worker])
       /\ out[t].val = {}
    \/ /\ Op(t) = "unassign_task"
       /\ \E row \in db.tasks :
            /\ row.id = req[t].id
            /\ image = UpdateTask(db, [row EXCEPT !.worker = NULL])
       /\ out[t].val = {}

CallInv(t) ==
    /\ Serving(t) /\ TaskLookedUp(t) /\ OwnerRead(t)
    /\ pc[t] = "commit" => Prepared(t)

BoardInv ==
    /\ IInv /\ Numbered(db)
    /\ \A t \in Threads : CallInv(t)

-----------------------------------------------------------------------------
(* The invariant, step by step *)

\* What a thread knows of its call survives the steps of the others.
LEMMA CallFrame ==
    ASSUME NEW u \in Threads, CallInv(u), LocalUnchanged(u), Agree(db, db', rlock[u]),
           pc[u] = "commit" => db' = db /\ image' = image
    PROVE  CallInv(u)'
<1>1. Serving(u)'
  BY DEF LocalUnchanged, CallInv, Serving
<1>2. TaskLookedUp(u)' /\ OwnerRead(u)'
  BY DEF LocalUnchanged, CallInv, TaskLookedUp, OwnerRead, Agree, At, Op
<1>3. pc'[u] = "commit" => Prepared(u)'
  BY DEF LocalUnchanged, CallInv, Prepared, Op
<1> QED
  BY <1>1, <1>2, <1>3 DEF CallInv

\* A step that does not commit, of a thread that leaves the cache alone or is
\* the only one that may write
LEMMA CallFrameAll ==
    ASSUME BoardInv, NEW t \in Threads, db' = db, IInv',
           \A u \in Threads \ {t} : LocalUnchanged(u),
           image' = image \/ \A u \in Threads \ {t} : wlock[u] = {},
           CallInv(t)'
    PROVE  BoardInv'
<1>1. ASSUME NEW u \in Threads, u # t PROVE CallInv(u)'
  <2>1. CallInv(u) /\ LocalUnchanged(u) /\ Agree(db, db', rlock[u])
    BY <1>1 DEF BoardInv, Agree
  <2>2. pc[u] = "commit" => image' = image
    BY <1>1 DEF BoardInv, IInv, ThreadInv, Changing
  <2> QED BY <2>1, <2>2, <1>1, CallFrame
<1> QED
  BY <1>1 DEF BoardInv, Numbered

\* Every way of leaving call() without a commit
LEMMA ReturnCall ==
    ASSUME BoardInv, IInv', NEW t \in Threads, NEW kind \in Kinds \ {"none"}, NEW val,
           pc[t] # "idle", Return(t, Out(kind, val))
    PROVE  BoardInv'
<1> USE DEF Return, Rollback, Release
<1>1. \A u \in Threads \ {t} : LocalUnchanged(u)
  BY DEF BoardInv, IInv, CallsTyped, LocalUnchanged
<1>2. image' = image \/ \A u \in Threads \ {t} : wlock[u] = {}
  BY DEF BoardInv, IInv, DatabaseInv, LocksExclude
<1>3. pc'[t] = "done" /\ req'[t] # NoRequest /\ out'[t].kind = kind
  BY DEF BoardInv, IInv, CallsTyped, CallInv, Serving, Out
<1>4. CallInv(t)'
  BY <1>3 DEF CallInv, Serving, TaskLookedUp, OwnerRead, At, Kinds
<1> QED
  BY <1>1, <1>2, <1>4, CallFrameAll

\* A request arrives, a transaction begins, a response is sent.
LEMMA ControlCall ==
    ASSUME BoardInv, IInv', NEW t \in Threads,
           (\E r \in Requests : CallWith(t, r)) \/ OpenTx(t) \/ Finish(t)
    PROVE  BoardInv'
<1> USE DEF CallWith, OpenTx, Finish, Goto, At
<1>1. db' = db /\ image' = image
  BY DEF dbVars, Begin
<1>2. \A u \in Threads \ {t} : LocalUnchanged(u)
  BY DEF BoardInv, IInv, CallsTyped, LocalUnchanged, dbVars, Begin
<1>3. Serving(t)'
  <2>1. CASE \E r \in Requests : CallWith(t, r)
    BY <2>1 DEF BoardInv, IInv, CallsTyped, CallInv, Serving, Requests, NoRequest, dbVars,
                InTransaction
  <2>2. CASE OpenTx(t)
    BY <2>2 DEF BoardInv, IInv, CallsTyped, CallInv, Serving, InTransaction
  <2>3. CASE Finish(t)
    BY <2>3 DEF BoardInv, IInv, CallsTyped, CallInv, Serving, InTransaction, dbVars
  <2> QED BY <2>1, <2>2, <2>3
<1>4. CallInv(t)'
  <2>1. pc'[t] \in {"call", "open", "idle"}
    BY DEF BoardInv, IInv, CallsTyped
  <2> QED BY <1>3, <2>1 DEF CallInv, TaskLookedUp, OwnerRead
<1> QED
  BY <1>1, <1>2, <1>4, CallFrameAll

\* What the statements that read have in common
LEMMA SelectCall ==
    ASSUME BoardInv, IInv', NEW t \in Threads, Select(t, Reads(t)), req' = req,
           \A u \in Threads \ {t} : LocalUnchanged(u),
           pc'[t] \in {"found", "checked", "load"},
           pc'[t] # "load" => out'[t].val = {},
           TaskLookedUp(t)', OwnerRead(t)', pc[t] # "idle"
    PROVE  BoardInv'
<1> USE DEF Select
<1>1. CallInv(t)'
  BY DEF BoardInv, IInv, CallsTyped, CallInv, Serving, InTransaction
<1> QED
  BY <1>1, CallFrameAll

\* find<Project>, find<Worker>, find<Task> and load<Task>
LEMMA FindCall ==
    ASSUME BoardInv, IInv', NEW t \in Threads, FindProject(t) \/ FindWorker(t)
    PROVE  BoardInv'
<1> DEFINE found == IF FindProject(t) THEN req[t].id \in db.projects
                                      ELSE req[t].id \in db.workers
<1>1. pc[t] = "open" /\ out[t].val = {}
  BY DEF FindProject, FindWorker, At, BoardInv, IInv, ThreadInv, Outcome
<1>2. CASE Return(t, Out("nullopt", {}))
  BY <1>1, <1>2, ReturnCall DEF Kinds
<1>3. CASE ~ Return(t, Out("nullopt", {}))
  <2>1. /\ Select(t, Reads(t)) /\ req' = req /\ task' = task /\ out' = out /\ db' = db
        /\ pc'[t] \in {"found", "load"} /\ (pc'[t] = "found" => Op(t) = "add_task")
        /\ \A u \in Threads \ {t} : LocalUnchanged(u)
    BY <1>3 DEF FindProject, FindWorker, Select, Goto, At, BoardInv, IInv, CallsTyped,
                LocalUnchanged
  <2>2. TaskLookedUp(t)'
    BY <2>1 DEF TaskLookedUp, At, Op
  <2>3. OwnerRead(t)'
    <3>1. CASE FindProject(t)
      BY <1>3, <2>1, <3>1 DEF FindProject, OwnerRead, At, Op, Select, Reads, FindReads,
                              BoardInv, IInv, CallsTyped
    <3>2. CASE FindWorker(t)
      BY <1>3, <2>1, <3>2 DEF FindWorker, OwnerRead, At, Op, Select, Reads, FindReads,
                              BoardInv, IInv, CallsTyped
    <3> QED BY <3>1, <3>2
  <2> QED
    BY <1>1, <2>1, <2>2, <2>3, SelectCall
<1> QED BY <1>2, <1>3

\* A task is looked up: it is found, or the answer is nullopt.
LEMMA FindTaskCall ==
    ASSUME BoardInv, IInv', NEW t \in Threads, FindTask(t)
    PROVE  BoardInv'
<1> USE DEF FindTask
<1>1. pc[t] = "open" /\ out[t].val = {}
  BY DEF At, BoardInv, IInv, ThreadInv, Outcome
<1>2. CASE ~ (Op(t) = "assign_task" \/ HasTask(db, req[t].id))
  BY <1>1, <1>2, ReturnCall DEF Kinds
<1>3. CASE Op(t) = "assign_task" \/ HasTask(db, req[t].id)
  <2>1. /\ Select(t, Reads(t)) /\ req' = req /\ out' = out /\ db' = db
        /\ pc'[t] = "found" /\ task'[t] = {r \in db.tasks : r.id = req[t].id}
        /\ \A u \in Threads \ {t} : LocalUnchanged(u)
    BY <1>3 DEF Select, Goto, BoardInv, IInv, CallsTyped, LocalUnchanged
  <2>2. "Task" \in rlock'[t]
    BY <1>3 DEF Select, Reads, At, BoardInv, IInv, CallsTyped
  <2>3. TaskLookedUp(t)' /\ OwnerRead(t)'
    BY <2>1, <2>2 DEF TaskLookedUp, OwnerRead, At
  <2> QED
    BY <1>1, <2>1, <2>3, SelectCall
<1> QED BY <1>2, <1>3

\* assign_task looks for its worker, too.
LEMMA FindAssigneeCall ==
    ASSUME BoardInv, IInv', NEW t \in Threads, FindAssignee(t)
    PROVE  BoardInv'
<1> USE DEF FindAssignee
<1>1. pc[t] = "found" /\ out[t].val = {}
  BY DEF At, BoardInv, CallInv, Serving
<1>2. CASE ~ (task[t] # {} /\ req[t].worker \in db.workers)
  BY <1>1, <1>2, ReturnCall DEF Kinds
<1>3. CASE task[t] # {} /\ req[t].worker \in db.workers
  <2>1. /\ Select(t, Reads(t)) /\ req' = req /\ out' = out /\ pc'[t] = "checked"
        /\ \A u \in Threads \ {t} : LocalUnchanged(u)
    BY <1>3 DEF Select, Goto, BoardInv, IInv, CallsTyped, LocalUnchanged
  <2>2. TaskLookedUp(t)' /\ OwnerRead(t)'
    BY <2>1 DEF TaskLookedUp, OwnerRead, At
  <2> QED
    BY <1>1, <2>1, <2>2, SelectCall
<1> QED BY <1>2, <1>3

\* A task of the list is loaded, or has gone.
LEMMA LoadTaskCall ==
    ASSUME BoardInv, IInv', NEW t \in Threads, LoadTask(t)
    PROVE  BoardInv'
<1> USE DEF LoadTask
<1>1. pc[t] = "load"
  BY DEF At
<1>2. CASE ~ HasTask(db, NextTask(t))
  BY <1>1, <1>2, ReturnCall DEF Throw, Kinds
<1>3. CASE HasTask(db, NextTask(t))
  <2>1. /\ Select(t, Reads(t)) /\ req' = req /\ pc' = pc /\ db' = db
        /\ \A u \in Threads \ {t} : LocalUnchanged(u)
    BY <1>3 DEF Select, BoardInv, IInv, CallsTyped, LocalUnchanged
  <2>2. rlock[t] \subseteq rlock'[t]
    BY <1>3 DEF Select, BoardInv, IInv, CallsTyped
  <2>3. TaskLookedUp(t)' /\ OwnerRead(t)'
    BY <1>1, <2>1, <2>2 DEF TaskLookedUp, OwnerRead, BoardInv, CallInv, At, Op
  <2> QED
    BY <1>1, <2>1, <2>3, SelectCall
<1> QED BY <1>2, <1>3

\* The statements that write find the cache at the committed tables, so that what
\* they prepare is one change of these tables.
LEMMA ModifyCall ==
    ASSUME BoardInv, IInv', NEW t \in Threads, NEW W \in SUBSET Tables, W # {}, NEW d,
           Modify(t, W, d), req' = req, Goto(t, "commit"), pc[t] # "idle",
           \A u \in Threads \ {t} : LocalUnchanged(u), Prepared(t)'
    PROVE  BoardInv'
<1>1. CallInv(t)'
  BY DEF Goto, Modify, BoardInv, IInv, CallsTyped, CallInv, Serving, TaskLookedUp, OwnerRead, At,
         InTransaction
<1>2. \A u \in Threads \ {t} : wlock[u] = {}
  BY ModifyBlocksNone DEF Modify, BoardInv, IInv
<1> QED
  BY <1>1, <1>2, CallFrameAll DEF Modify

\* persist() in AddProject, AddWorker and AddTask
LEMMA PersistCall ==
    ASSUME BoardInv, IInv', NEW t \in Threads,
           PersistProject(t) \/ PersistWorker(t) \/ PersistTask(t)
    PROVE  BoardInv'
<1> DEFINE W == Writes(t)
<1>1. W \in SUBSET Tables /\ W # {} /\ pc[t] \in {"open", "found"}
  BY DEF PersistProject, PersistWorker, PersistTask, Writes, At, Tables
<1>2. /\ Modify(t, W, image') /\ req' = req /\ Goto(t, "commit") /\ db' = db
      /\ \E val : out' = [out EXCEPT ![t].val = val]
      /\ \A u \in Threads \ {t} : LocalUnchanged(u)
  BY DEF PersistProject, PersistWorker, PersistTask, Persist, Modify, BoardInv, IInv, CallsTyped,
         LocalUnchanged, Goto, Out
<1>3. image = db
  BY <1>1, <1>2, AloneBeforeWriting DEF Modify, BoardInv
<1>4. Prepared(t)'
  <2>1. CASE PersistProject(t)
    <3>1. /\ Op(t)' = "add_project" /\ image' = InsertProject(db')
          /\ out'[t].val = Named({db'.lastProject + 1})
      BY <1>2, <1>3, <2>1 DEF PersistProject, Persist, Modify, At, Op, BoardInv, IInv, CallsTyped,
                              Out
    <3> QED BY <3>1 DEF Prepared
  <2>2. CASE PersistWorker(t)
    <3>1. /\ Op(t)' = "add_worker" /\ image' = InsertWorker(db')
          /\ out'[t].val = Named({db'.lastWorker + 1})
      BY <1>2, <1>3, <2>2 DEF PersistWorker, Persist, Modify, At, Op, BoardInv, IInv, CallsTyped,
                              Out
    <3> QED BY <3>1 DEF Prepared
  <2>3. CASE PersistTask(t)
    <3>1. /\ Op(t)' = "add_task" /\ image' = InsertTask(db', req'[t].id)
          /\ req'[t].id \in db'.projects
          /\ out'[t].val = Named({db'.lastTask + 1})
      BY <1>2, <1>3, <2>3 DEF PersistTask, Persist, Modify, At, Op, BoardInv, IInv, CallsTyped,
                              Out, ThreadInv, ProjectRead
    <3> QED BY <3>1 DEF Prepared
  <2> QED BY <2>1, <2>2, <2>3
<1> QED
  BY <1>1, <1>2, <1>4, ModifyCall

\* erase() in DelProject
LEMMA EraseCall ==
    ASSUME BoardInv, IInv', NEW t \in Threads, EraseProject(t)
    PROVE  BoardInv'
<1> USE DEF EraseProject
<1>1. pc[t] = "open" /\ Op(t) = "del_project" /\ out[t].val = {}
  BY DEF At, BoardInv, IInv, ThreadInv, Outcome
<1>2. CASE req[t].id \notin image.projects
  BY <1>1, <1>2, ReturnCall DEF Throw, Kinds
<1>3. CASE req[t].id \in image.projects
  <2> DEFINE W == Writes(t)
  <2>1. W \in SUBSET Tables /\ W # {}
    BY <1>1 DEF Writes, Tables
  <2>2. /\ Modify(t, W, image') /\ req' = req /\ out' = out /\ Goto(t, "commit") /\ db' = db
        /\ image' = DeleteProject(image, req[t].id)
        /\ \A u \in Threads \ {t} : LocalUnchanged(u)
    BY <1>3 DEF Modify, BoardInv, IInv, CallsTyped, LocalUnchanged, Goto
  <2>3. image = db
    BY <1>1, <2>1, <2>2, AloneBeforeWriting DEF Modify, BoardInv
  <2>4. Prepared(t)'
    BY <1>1, <1>3, <2>2, <2>3 DEF Prepared, Op
  <2> QED
    BY <1>1, <2>1, <2>2, <2>4, ModifyCall
<1> QED BY <1>2, <1>3

\* update() in AssignTask and UnassignTask finds the row that was loaded.
LEMMA SetWorkerWrites ==
    ASSUME BoardInv, NEW t \in Threads, NEW w, SetWorker(t, w), Writes(t) = {"Task"},
           task[t] # {}, pc[t] # "commit"
    PROVE  /\ Modify(t, {"Task"}, image') /\ Goto(t, "commit")
           /\ image = db /\ db' = db /\ UNCHANGED <<req, task, tasks, out>>
           /\ \E row \in db.tasks :
                 row.id = req[t].id /\ image' = UpdateTask(db, [row EXCEPT !.worker = w])
<1>1. {"Task"} \in SUBSET Tables /\ {"Task"} # {} /\ Blockers(t, {}, {"Task"}) = {}
  BY DEF SetWorker, Ready, WaitsFor, Blockers, Tables
<1>2. image = db
  BY <1>1, AloneBeforeWriting DEF BoardInv
<1>3. task[t] \subseteq db.tasks /\ \A row \in task[t] : row.id = req[t].id
  BY DEF BoardInv, IInv, ThreadInv, TaskRead
<1>4. HasTask(image, req[t].id)
  BY <1>2, <1>3 DEF HasTask
<1>5. PICK row \in task[t] :
        Modify(t, Writes(t), UpdateTask(image, [row EXCEPT !.worker = w]))
  BY <1>4 DEF SetWorker
<1> QED
  BY <1>2, <1>3, <1>4, <1>5 DEF SetWorker, Modify

\* assign_task and unassign_task prepare one row.
LEMMA SetWorkerCall ==
    ASSUME BoardInv, IInv', NEW t \in Threads, AssignWorker(t) \/ UnassignWorker(t)
    PROVE  BoardInv'
<1> DEFINE w == IF Op(t) = "assign_task" THEN req[t].worker ELSE NULL
<1>1. /\ SetWorker(t, w) /\ Writes(t) = {"Task"} /\ task[t] # {} /\ out[t].val = {}
      /\ pc[t] \in {"found", "checked"} /\ Op(t) \in {"assign_task", "unassign_task"}
      /\ Op(t) = "assign_task" => req[t].worker \in db.workers
  BY DEF AssignWorker, UnassignWorker, BoardInv, CallInv, Serving, IInv, ThreadInv,
         TaskPresent, WorkerRead, At, Writes
<1>2. /\ Modify(t, {"Task"}, image') /\ Goto(t, "commit")
      /\ db' = db /\ UNCHANGED <<req, task, tasks, out>>
      /\ \E row \in db.tasks :
            row.id = req[t].id /\ image' = UpdateTask(db, [row EXCEPT !.worker = w])
  BY <1>1, SetWorkerWrites
<1>3. \A u \in Threads \ {t} : LocalUnchanged(u)
  BY <1>2 DEF Modify, Goto, BoardInv, IInv, CallsTyped, LocalUnchanged
<1>4. Prepared(t)'
  BY <1>1, <1>2 DEF Prepared, Op
<1>5. {"Task"} \in SUBSET Tables /\ {"Task"} # {}
  BY DEF Tables
<1> QED
  BY <1>1, <1>2, <1>3, <1>4, <1>5, ModifyCall

-----------------------------------------------------------------------------
(* The changes and the board *)

\* persist() hands out an id that no task has or had; erase() and update() hand
\* out none.
LEMMA ChangesNumbered ==
    ASSUME NEW d \in StoreType, Numbered(d)
    PROVE  /\ Numbered(InsertProject(d)) /\ Numbered(InsertWorker(d))
           /\ \A p \in d.projects : Numbered(InsertTask(d, p))
           /\ \A p : Numbered(DeleteProject(d, p))
           /\ \A row \in d.tasks : \A new : new.id = row.id => Numbered(UpdateTask(d, new))
<1>1. d.lastWorker + 1 \in Nat \ {0} /\ \A r \in d.tasks : r.id \in Nat
  BY DEF StoreType, TaskRow
<1>2. Numbered(InsertProject(d)) /\ Numbered(InsertWorker(d))
  BY <1>1 DEF Numbered, StoreType, NULL, InsertProject, InsertWorker
<1>3. ASSUME NEW p \in d.projects PROVE Numbered(InsertTask(d, p))
  <2> DEFINE new == [id |-> d.lastTask + 1, project |-> p, worker |-> NULL]
  <2>1. /\ InsertTask(d, p).tasks = d.tasks \cup {new}
        /\ InsertTask(d, p).lastTask = d.lastTask + 1
        /\ InsertTask(d, p).workers = d.workers
    BY DEF InsertTask, StoreType
  <2>2. new.id = d.lastTask + 1 /\ d.lastTask \in Nat
    BY DEF StoreType
  <2> HIDE DEF new
  <2> QED
    BY <1>1, <2>1, <2>2 DEF Numbered
<1>4. ASSUME NEW p PROVE Numbered(DeleteProject(d, p))
  BY DEF Numbered, StoreType, DeleteProject
<1>5. ASSUME NEW row \in d.tasks, NEW new, new.id = row.id
      PROVE  Numbered(UpdateTask(d, new))
  <2>1. /\ UpdateTask(d, new).tasks = {r \in d.tasks : r.id # new.id} \cup {new}
        /\ UpdateTask(d, new).lastTask = d.lastTask
        /\ UpdateTask(d, new).workers = d.workers
    BY DEF UpdateTask, StoreType
  <2> QED
    BY <1>5, <2>1 DEF Numbered
<1> QED
  BY <1>2, <1>3, <1>4, <1>5

\* No row operation of an endpoint changes a user.
LEMMA ChangesKeepAccounts ==
    ASSUME NEW d \in StoreType
    PROVE  /\ InsertProject(d).users = d.users /\ InsertWorker(d).users = d.users
           /\ \A p : InsertTask(d, p).users = d.users /\ DeleteProject(d, p).users = d.users
           /\ \A row : UpdateTask(d, row).users = d.users
BY DEF StoreType, InsertProject, InsertWorker, InsertTask, DeleteProject, UpdateTask

\* A commit replaces the tables by what the transaction has prepared, and nothing
\* another thread relies on.
LEMMA CommitCall ==
    ASSUME BoardInv, IInv', NEW t \in Threads, CommitTx(t)
    PROVE  BoardInv' /\ Commit(t)
<1>1. /\ Commit(t) /\ Goto(t, "done") /\ req' = req /\ out' = [out EXCEPT ![t].kind = "ok"]
      /\ task' = [task EXCEPT ![t] = {}] /\ tasks' = [tasks EXCEPT ![t] = {}]
  BY DEF CommitTx, BoardInv, IInv, Consistent
<1>2. db' = image /\ image' = image /\ pc[t] = "commit" /\ Prepared(t) /\ wlock[t] # {}
  BY <1>1 DEF CommitTx, Commit, BoardInv, CallInv, IInv, ThreadInv, Changing
<1>3. Numbered(db')
  <2>1. db \in StoreType /\ Numbered(db)
    BY DEF BoardInv, IInv, CallsTyped
  <2>2. \/ image = InsertProject(db) \/ image = InsertWorker(db)
        \/ \E p \in db.projects : image = InsertTask(db, p)
        \/ \E p : image = DeleteProject(db, p)
        \/ \E row \in db.tasks : \E new : new.id = row.id /\ image = UpdateTask(db, new)
    <3>1. ASSUME NEW row \in db.tasks, NEW w PROVE [row EXCEPT !.worker = w].id = row.id
      BY DEF BoardInv, IInv, CallsTyped, StoreType, TaskRow
    <3>2. CASE \E row \in db.tasks : \E w : image = UpdateTask(db, [row EXCEPT !.worker = w])
      BY <3>1, <3>2
    <3>3. CASE ~ \E row \in db.tasks : \E w : image = UpdateTask(db, [row EXCEPT !.worker = w])
      BY <1>2, <3>3 DEF Prepared
    <3> QED BY <3>2, <3>3
  <2>3. Numbered(image)
    BY <2>1, <2>2, ChangesNumbered
  <2> QED
    BY <1>2, <2>3
<1>4. \A u \in Threads \ {t} : out'[u] = out[u]
  BY <1>1 DEF BoardInv, IInv, CallsTyped
<1>5. out'[t].kind = "ok"
  BY <1>1 DEF BoardInv, IInv, CallsTyped, Out
<1>6. CallInv(t)'
  <2>1. pc'[t] = "done" /\ req'[t] # NoRequest
    BY <1>1, <1>2 DEF Goto, BoardInv, IInv, CallsTyped, CallInv, Serving
  <2> QED
    BY <1>5, <2>1 DEF CallInv, Serving, TaskLookedUp, OwnerRead, At
<1>7. ASSUME NEW u \in Threads, u # t PROVE CallInv(u)'
  <2>1. LocalUnchanged(u)
    BY <1>1, <1>4, <1>7 DEF BoardInv, IInv, CallsTyped, LocalUnchanged, Goto, Commit, Release
  <2>2. Agree(db, db', rlock[u])
    BY <1>1, <1>2, <1>7, CommitKeepsReads DEF BoardInv, IInv
  <2>3. pc[u] # "commit"
    BY <1>2, <1>7 DEF BoardInv, IInv, ThreadInv, Changing, DatabaseInv, LocksExclude
  <2> QED
    BY <2>1, <2>2, <2>3, CallFrame DEF BoardInv
<1> QED
  BY <1>1, <1>3, <1>6, <1>7 DEF BoardInv, Numbered

\* A crash leaves the committed tables and no call.
LEMMA CrashCall ==
    ASSUME BoardInv, IInv', LoseCache, NoCalls
    PROVE  BoardInv'
<1> USE DEF NoCalls, LoseCache
<1>1. ASSUME NEW t \in Threads PROVE CallInv(t)'
  BY DEF CallInv, Serving, TaskLookedUp, OwnerRead, At
<1> QED
  BY <1>1 DEF BoardInv, Numbered

\* A thread on a cycle is in a transaction, and waits for one that waits itself.
LEMMA WaitingInTransaction ==
    ASSUME NEW t \in Threads, OnCycle(t, WaitsFor)
    PROVE  /\ pc[t] \in InTransaction \ {"commit"}
           /\ \E u \in Threads \ {t} : pc[u] \in InTransaction
<1>1. ASSUME NEW u \in Threads, WaitsFor[u] # {} PROVE pc[u] \in InTransaction \ {"commit"}
  <2>1. Reads(u) # {} \/ Writes(u) # {}
    BY <1>1 DEF WaitsFor, Blockers
  <2> QED
    BY <2>1 DEF Reads, Writes, InTransaction
<1>2. WaitsFor[t] \subseteq Threads \ {t}
  BY DEF WaitsFor, Blockers
<1>3. WaitsFor[t] # {}
  BY DEF OnCycle
<1>4. PICK u \in WaitsFor[t] : WaitsFor[u] # {}
  <2>1. (\A u \in WaitsFor[t] : WaitsFor[u] \subseteq WaitsFor[t]) => t \in WaitsFor[t]
    BY <1>2 DEF OnCycle
  <2> QED
    BY <1>2, <2>1
<1> QED
  BY <1>1, <1>2, <1>3, <1>4

\* The steps that only answer
LEMMA AnswerCall ==
    ASSUME BoardInv, IInv', NEW t \in Threads,
           ParseError(t) \/ Debug(t) \/ Serialized(t) \/ QueryTask(t) \/ Collect(t) \/ Deadlock(t)
    PROVE  BoardInv'
<1>1. pc[t] # "idle"
  BY WaitingInTransaction DEF ParseError, Debug, Serialized, QueryTask, Collect, Deadlock,
     At, InTransaction
<1>2. PICK kind, val : kind \in Kinds \ {"none"} /\ Return(t, Out(kind, val))
  BY DEF ParseError, Debug, Serialized, QueryTask, Collect, Deadlock, Throw, Kinds
<1> QED BY <1>1, <1>2, ReturnCall

\* At first nobody calls.
LEMMA BoardInit == Init => BoardInv
<1> SUFFICES ASSUME Init PROVE BoardInv
  OBVIOUS
<1>1. IInv
  BY InitInv
<1>2. db = InitialStore
  BY DEF Init, DatabaseInit
<1>3. Numbered(db)
  BY <1>2 DEF InitialStore, EmptyStore, Numbered
<1>4. ASSUME NEW t \in Threads PROVE CallInv(t)
  BY DEF Init, DatabaseInit, CallInv, Serving, TaskLookedUp, OwnerRead, At
<1> QED
  BY <1>1, <1>3, <1>4 DEF BoardInv

\* Every step of every thread keeps what the others know.
LEMMA BoardStep ==
    ASSUME BoardInv, IInv', NEW t \in Threads, (\E r \in Requests : CallWith(t, r)) \/ Step(t)
    PROVE  BoardInv'
BY ControlCall, AnswerCall, FindCall, FindTaskCall, FindAssigneeCall, LoadTaskCall, PersistCall,
   EraseCall, SetWorkerCall, CommitCall DEF Step

\* And so does everything that the endpoints do together.
LEMMA BoardNext == BoardInv /\ [Next]_vars => BoardInv'
<1> SUFFICES ASSUME BoardInv, [Next]_vars PROVE BoardInv'
  OBVIOUS
<1>1. IInv'
  BY NextInv DEF BoardInv
<1>2. CASE UNCHANGED vars
  <2> USE <1>2 DEF vars, dbVars, callVars
  <2>1. ASSUME NEW t \in Threads PROVE CallInv(t)'
    BY CallFrame DEF BoardInv, LocalUnchanged, Agree
  <2> QED BY <1>1, <2>1 DEF BoardInv, Numbered
<1>3. CASE Crash
  BY <1>1, <1>3, CrashCall DEF Crash
<1>4. ASSUME NEW t \in Threads, Call(t) \/ Step(t) PROVE BoardInv'
  BY <1>1, <1>4, BoardStep DEF Call
<1> QED
  BY <1>2, <1>3, <1>4 DEF Next

-----------------------------------------------------------------------------
(* The refinement *)

\* A call that is in progress has no answer yet.
LEMMA CallPending ==
    ASSUME NEW t \in Threads, pc[t] # "done"
    PROVE  Answers[t] = Board!NoAnswer /\ Board!Pending(t, Op(t))
BY DEF Answers, Board!NoAnswer, NoOut, Board!Pending, Op

\* call() ends, and the client learns what it returned or threw.
LEMMA EndReplies ==
    ASSUME BoardInv, NEW t \in Threads, NEW kind, NEW val, pc[t] # "done",
           pc' = [pc EXCEPT ![t] = "done"], req' = req, out'[t] = Out(kind, val),
           \A u \in Threads \ {t} : out'[u] = out[u]
    PROVE  Board!Reply(t, kind, val)
<1>1. pc'[t] = "done" /\ \A u \in Threads \ {t} : pc'[u] = pc[u]
  BY DEF BoardInv, IInv, CallsTyped
<1>2. Answers' = [Answers EXCEPT ![t] = Out(kind, val)]
  BY <1>1 DEF Answers
<1> QED
  BY <1>2 DEF Board!Reply, Out

\* Anything else that a thread does in its call, its client does not see.
LEMMA InvisibleStep ==
    ASSUME BoardInv, NEW t \in Threads, db' = db, req' = req, pc[t] # "done", pc'[t] # "done",
           \A u \in Threads \ {t} : pc'[u] = pc[u] /\ out'[u] = out[u]
    PROVE  UNCHANGED Board!boardVars
<1>1. Answers' = Answers
  BY DEF Answers
<1>2. ProjectOf(db)' = ProjectOf(db) /\ WorkerOf(db)' = WorkerOf(db) /\ Issued(db)' = Issued(db)
  BY DEF ProjectOf, WorkerOf, Issued
<1> QED
  BY <1>1, <1>2 DEF Board!boardVars, Board!board

\* An answer that changes nothing is a reply of the task board.
LEMMA ReturnReplies ==
    ASSUME BoardInv, NEW t \in Threads, NEW kind, NEW val, pc[t] # "done",
           Return(t, Out(kind, val))
    PROVE  /\ Board!Pending(t, Op(t)) /\ Board!Reply(t, kind, val)
           /\ UNCHANGED Board!board
<1>1. /\ pc' = [pc EXCEPT ![t] = "done"] /\ req' = req /\ db' = db
      /\ out'[t] = Out(kind, val) /\ \A u \in Threads \ {t} : out'[u] = out[u]
  BY DEF Return, Rollback, BoardInv, IInv, CallsTyped
<1>2. Board!Pending(t, Op(t))
  BY CallPending
<1>3. Board!Reply(t, kind, val)
  BY <1>1, EndReplies
<1>4. ProjectOf(db)' = ProjectOf(db) /\ WorkerOf(db)' = WorkerOf(db) /\ Issued(db)' = Issued(db)
  BY <1>1 DEF ProjectOf, WorkerOf, Issued
<1> QED
  BY <1>1, <1>2, <1>3, <1>4 DEF Board!board

\* The board has the tasks of the table, each in its project and with its worker.
LEMMA BoardRow ==
    ASSUME NEW d, Numbered(d), NEW row \in d.tasks
    PROVE  /\ TaskWithId(d, row.id) = row
           /\ row.id \in DOMAIN ProjectOf(d) /\ ProjectOf(d)[row.id] = row.project
           /\ row.worker # NULL =>
                row.id \in DOMAIN WorkerOf(d) /\ WorkerOf(d)[row.id] = row.worker
           /\ row.worker = NULL => row.id \notin DOMAIN WorkerOf(d)
<1>1. TaskWithId(d, row.id) = row
  <2>1. TaskWithId(d, row.id) \in d.tasks /\ TaskWithId(d, row.id).id = row.id
    BY DEF TaskWithId
  <2> QED BY <2>1 DEF Numbered
<1>2. DOMAIN WorkerOf(d) = {r.id : r \in {q \in d.tasks : q.worker # NULL}}
  BY DEF WorkerOf
<1>3. row.worker = NULL => row.id \notin DOMAIN WorkerOf(d)
  BY <1>2 DEF Numbered
<1> QED
  BY <1>1, <1>2, <1>3 DEF ProjectOf, WorkerOf

\* It has no other tasks.
LEMMA BoardDomains ==
    ASSUME NEW d, Numbered(d)
    PROVE  /\ ProjectOf(d) = [i \in DOMAIN ProjectOf(d) |-> ProjectOf(d)[i]]
           /\ WorkerOf(d) = [i \in DOMAIN WorkerOf(d) |-> WorkerOf(d)[i]]
           /\ \A i \in DOMAIN ProjectOf(d) : \E r \in d.tasks : r.id = i
           /\ \A i \in DOMAIN WorkerOf(d) : \E r \in d.tasks : r.id = i /\ r.worker # NULL
BY DEF ProjectOf, WorkerOf

\* The board looks at the tasks only.
LEMMA SameTasksSameBoard ==
    ASSUME NEW d, NEW e, d.tasks = e.tasks
    PROVE  ProjectOf(d) = ProjectOf(e) /\ WorkerOf(d) = WorkerOf(e)
BY DEF ProjectOf, WorkerOf, TaskWithId

\* What a client is told of a task is its row.
LEMMA ViewIsRow ==
    ASSUME BoardInv, NEW row \in db.tasks
    PROVE  Board!TaskView(row.id) = row
<1>1. Numbered(db) /\ row \in TaskRow
  BY DEF BoardInv, IInv, CallsTyped, StoreType
<1>2. row = [id |-> row.id, project |-> row.project, worker |-> row.worker]
  BY <1>1 DEF TaskRow
<1>3. /\ ProjectOf(db)[row.id] = row.project
      /\ (IF row.id \in DOMAIN WorkerOf(db) THEN WorkerOf(db)[row.id] ELSE 0) = row.worker
  BY <1>1, BoardRow DEF NULL
<1> QED
  BY <1>2, <1>3 DEF Board!TaskView

\* A new task is in its project and has no worker.
LEMMA InsertTaskBoard ==
    ASSUME NEW d \in StoreType, Numbered(d), NEW p \in d.projects
    PROVE  LET e == InsertTask(d, p)
               n == d.lastTask + 1
           IN  /\ ProjectOf(e) = [i \in DOMAIN ProjectOf(d) \cup {n} |->
                                    IF i \in DOMAIN ProjectOf(d) THEN ProjectOf(d)[i] ELSE p]
               /\ WorkerOf(e) = WorkerOf(d)
<1> DEFINE e == InsertTask(d, p)
           n == d.lastTask + 1
           new == [id |-> n, project |-> p, worker |-> NULL]
<1>1. e.tasks = d.tasks \cup {new} /\ new.id = n /\ new.project = p /\ new.worker = NULL
  BY DEF InsertTask, StoreType
<1>2. Numbered(e)
  BY ChangesNumbered
<1>3. \A r \in d.tasks : r.id # n
  BY DEF Numbered, StoreType, TaskRow
<1> HIDE DEF e, n, new
<1>4. DOMAIN ProjectOf(e) = DOMAIN ProjectOf(d) \cup {n} /\ DOMAIN WorkerOf(e) = DOMAIN WorkerOf(d)
  BY <1>1 DEF ProjectOf, WorkerOf
<1>5. ASSUME NEW i \in DOMAIN ProjectOf(e)
      PROVE  ProjectOf(e)[i] = IF i \in DOMAIN ProjectOf(d) THEN ProjectOf(d)[i] ELSE p
  <2>1. PICK r \in e.tasks : r.id = i
    BY <1>2, BoardDomains
  <2>2. ProjectOf(e)[i] = r.project
    BY <1>2, <2>1, BoardRow
  <2>3. CASE r \in d.tasks
    BY <2>1, <2>2, <2>3, BoardRow
  <2>4. CASE r = new
    BY <1>1, <1>3, <2>1, <2>2, <2>4, BoardDomains
  <2> QED BY <1>1, <2>3, <2>4
<1>6. ASSUME NEW i \in DOMAIN WorkerOf(e) PROVE WorkerOf(e)[i] = WorkerOf(d)[i]
  <2>1. PICK r \in e.tasks : r.id = i /\ r.worker # NULL
    BY <1>2, BoardDomains
  <2>2. r \in d.tasks
    BY <1>1, <2>1
  <2> QED BY <1>2, <2>1, <2>2, BoardRow
<1>7. ProjectOf(e) = [i \in DOMAIN ProjectOf(d) \cup {n} |->
                        IF i \in DOMAIN ProjectOf(d) THEN ProjectOf(d)[i] ELSE p]
  BY <1>2, <1>4, <1>5, BoardDomains
<1>8. WorkerOf(e) = WorkerOf(d)
  BY <1>2, <1>4, <1>6, BoardDomains
<1> QED
  BY <1>7, <1>8 DEF e, n

\* A project goes with its tasks.
LEMMA DeleteProjectBoard ==
    ASSUME NEW d \in StoreType, Numbered(d), NEW p
    PROVE  LET e == DeleteProject(d, p)
               kept == {i \in DOMAIN ProjectOf(d) : ProjectOf(d)[i] # p}
           IN  /\ ProjectOf(e) = [i \in kept |-> ProjectOf(d)[i]]
               /\ WorkerOf(e) = [i \in kept \cap DOMAIN WorkerOf(d) |-> WorkerOf(d)[i]]
<1> DEFINE e == DeleteProject(d, p)
           kept == {i \in DOMAIN ProjectOf(d) : ProjectOf(d)[i] # p}
<1>1. e.tasks = {r \in d.tasks : r.project # p}
  BY DEF DeleteProject, StoreType
<1>2. Numbered(e)
  BY ChangesNumbered
<1> HIDE DEF e
<1>3. DOMAIN ProjectOf(e) = kept
  <2>1. ASSUME NEW i \in DOMAIN ProjectOf(e) PROVE i \in kept
    <3>1. PICK r \in e.tasks : r.id = i
      BY <1>2, BoardDomains
    <3> QED BY <1>1, <3>1, BoardRow
  <2>2. ASSUME NEW i \in kept PROVE i \in DOMAIN ProjectOf(e)
    <3>1. PICK r \in d.tasks : r.id = i
      BY BoardDomains
    <3>2. r \in e.tasks
      BY <1>1, <3>1, BoardRow
    <3> QED BY <1>2, <3>1, <3>2, BoardRow
  <2> QED BY <2>1, <2>2
<1>4. DOMAIN WorkerOf(e) = kept \cap DOMAIN WorkerOf(d)
  <2>1. ASSUME NEW i \in DOMAIN WorkerOf(e) PROVE i \in kept \cap DOMAIN WorkerOf(d)
    <3>1. PICK r \in e.tasks : r.id = i /\ r.worker # NULL
      BY <1>2, BoardDomains
    <3> QED BY <1>1, <3>1, BoardRow
  <2>2. ASSUME NEW i \in kept \cap DOMAIN WorkerOf(d) PROVE i \in DOMAIN WorkerOf(e)
    <3>1. PICK r \in d.tasks : r.id = i /\ r.worker # NULL
      BY BoardDomains
    <3>2. r \in e.tasks
      BY <1>1, <3>1, BoardRow
    <3> QED BY <1>2, <3>1, <3>2, BoardRow
  <2> QED BY <2>1, <2>2
<1>5. ASSUME NEW r \in e.tasks
      PROVE  /\ ProjectOf(e)[r.id] = ProjectOf(d)[r.id]
             /\ r.worker # NULL => WorkerOf(e)[r.id] = WorkerOf(d)[r.id]
  BY <1>1, <1>2, BoardRow
<1>6. ProjectOf(e) = [i \in kept |-> ProjectOf(d)[i]]
  <2>1. ASSUME NEW i \in DOMAIN ProjectOf(e) PROVE ProjectOf(e)[i] = ProjectOf(d)[i]
    <3>1. PICK r \in e.tasks : r.id = i
      BY <1>2, BoardDomains
    <3> QED BY <1>5, <3>1
  <2> QED BY <1>2, <1>3, <2>1, BoardDomains
<1>7. WorkerOf(e) = [i \in kept \cap DOMAIN WorkerOf(d) |-> WorkerOf(d)[i]]
  <2>1. ASSUME NEW i \in DOMAIN WorkerOf(e) PROVE WorkerOf(e)[i] = WorkerOf(d)[i]
    <3>1. PICK r \in e.tasks : r.id = i /\ r.worker # NULL
      BY <1>2, BoardDomains
    <3> QED BY <1>5, <3>1
  <2> QED BY <1>2, <1>4, <2>1, BoardDomains
<1> QED
  BY <1>6, <1>7 DEF e

\* Writing a task back with another worker changes its worker and nothing else.
LEMMA UpdateTaskBoard ==
    ASSUME NEW d \in StoreType, Numbered(d), NEW row \in d.tasks, NEW w
    PROVE  LET e == UpdateTask(d, [row EXCEPT !.worker = w]) IN
           /\ ProjectOf(e) = ProjectOf(d)
           /\ w # NULL => WorkerOf(e) = [i \in DOMAIN WorkerOf(d) \cup {row.id} |->
                                            IF i = row.id THEN w ELSE WorkerOf(d)[i]]
           /\ w = NULL => WorkerOf(e) = [i \in DOMAIN WorkerOf(d) \ {row.id} |-> WorkerOf(d)[i]]
<1> DEFINE new == [row EXCEPT !.worker = w]
           e == UpdateTask(d, new)
<1>1. new.id = row.id /\ new.project = row.project /\ new.worker = w
  BY DEF StoreType, TaskRow
<1>2. e.tasks = {r \in d.tasks : r.id # new.id} \cup {new}
  BY DEF UpdateTask, StoreType
<1>3. Numbered(e)
  BY <1>1, ChangesNumbered
<1> SUFFICES /\ ProjectOf(e) = ProjectOf(d)
             /\ w # NULL => WorkerOf(e) = [i \in DOMAIN WorkerOf(d) \cup {row.id} |->
                                              IF i = row.id THEN w ELSE WorkerOf(d)[i]]
             /\ w = NULL => WorkerOf(e) = [i \in DOMAIN WorkerOf(d) \ {row.id} |-> WorkerOf(d)[i]]
  OBVIOUS
<1> HIDE DEF e, new
<1>4. \A r \in d.tasks : r.id = row.id => r = row
  BY DEF Numbered
<1>5. \A r \in e.tasks : r.id # row.id => r \in d.tasks
  BY <1>1, <1>2
<1>6. \A r \in e.tasks : r.id = row.id => r = new
  BY <1>1, <1>2
<1>7. new \in e.tasks /\ \A r \in d.tasks : r.id # row.id => r \in e.tasks
  BY <1>1, <1>2
<1>8. ProjectOf(e) = ProjectOf(d)
  <2>1. DOMAIN ProjectOf(e) = DOMAIN ProjectOf(d)
    BY <1>1, <1>2 DEF ProjectOf
  <2>2. ASSUME NEW i \in DOMAIN ProjectOf(e) PROVE ProjectOf(e)[i] = ProjectOf(d)[i]
    <3>1. PICK r \in e.tasks : r.id = i
      BY <1>3, BoardDomains
    <3>2. CASE i = row.id
      BY <1>1, <1>3, <1>6, <3>1, <3>2, BoardRow
    <3>3. CASE i # row.id
      BY <1>3, <1>5, <3>1, <3>3, BoardRow
    <3> QED BY <3>2, <3>3
  <2> QED BY <1>3, <2>1, <2>2, BoardDomains
<1>9. ASSUME NEW i, i # row.id
      PROVE  /\ i \in DOMAIN WorkerOf(e) <=> i \in DOMAIN WorkerOf(d)
             /\ i \in DOMAIN WorkerOf(e) => WorkerOf(e)[i] = WorkerOf(d)[i]
  <2>1. ASSUME i \in DOMAIN WorkerOf(e)
        PROVE  i \in DOMAIN WorkerOf(d) /\ WorkerOf(e)[i] = WorkerOf(d)[i]
    <3>1. PICK r \in e.tasks : r.id = i /\ r.worker # NULL
      BY <1>3, <2>1, BoardDomains
    <3> QED BY <1>3, <1>5, <1>9, <3>1, BoardRow
  <2>2. ASSUME i \in DOMAIN WorkerOf(d) PROVE i \in DOMAIN WorkerOf(e)
    <3>1. PICK r \in d.tasks : r.id = i /\ r.worker # NULL
      BY <2>2, BoardDomains
    <3> QED BY <1>3, <1>7, <1>9, <3>1, BoardRow
  <2> QED BY <2>1, <2>2
<1>10. /\ w # NULL => row.id \in DOMAIN WorkerOf(e) /\ WorkerOf(e)[row.id] = w
       /\ w = NULL => row.id \notin DOMAIN WorkerOf(e)
  BY <1>1, <1>3, <1>7, BoardRow
<1>11. ASSUME w # NULL
       PROVE  WorkerOf(e) = [i \in DOMAIN WorkerOf(d) \cup {row.id} |->
                                IF i = row.id THEN w ELSE WorkerOf(d)[i]]
  <2>1. DOMAIN WorkerOf(e) = DOMAIN WorkerOf(d) \cup {row.id}
    BY <1>9, <1>10, <1>11
  <2>2. \A i \in DOMAIN WorkerOf(e) :
            WorkerOf(e)[i] = IF i = row.id THEN w ELSE WorkerOf(d)[i]
    BY <1>9, <1>10, <1>11
  <2> QED BY <1>3, <2>1, <2>2, BoardDomains
<1>12. ASSUME w = NULL
       PROVE  WorkerOf(e) = [i \in DOMAIN WorkerOf(d) \ {row.id} |-> WorkerOf(d)[i]]
  <2>1. DOMAIN WorkerOf(e) = DOMAIN WorkerOf(d) \ {row.id}
    BY <1>9, <1>10, <1>12
  <2>2. \A i \in DOMAIN WorkerOf(e) : WorkerOf(e)[i] = WorkerOf(d)[i]
    BY <1>9, <2>1
  <2> QED BY <1>3, <2>1, <2>2, BoardDomains
<1> QED
  BY <1>8, <1>11, <1>12

\* A request that arrives, and a response that is sent
LEMMA CallAsks ==
    ASSUME BoardInv, NEW t \in Threads, NEW r \in Requests, CallWith(t, r)
    PROVE  Board!Ask(t)
<1>2. /\ db' = db /\ req' = [req EXCEPT ![t] = r] /\ pc[t] = "idle" /\ pc'[t] = "call"
      /\ \A u \in Threads \ {t} : pc'[u] = pc[u]
      /\ out' = out
  BY DEF CallWith, dbVars, Goto, BoardInv, IInv, CallsTyped
<1>3. r \in Board!Calls
  BY DEF Requests, Board!Calls, Board!Changes, Board!Questions, NULL
<1>4. req[t] = Board!NoCall
  BY <1>2 DEF BoardInv, CallInv, Serving, NoRequest, Board!NoCall, NULL
<1>5. Answers' = Answers
  BY <1>2 DEF Answers
<1>6. ProjectOf(db)' = ProjectOf(db) /\ WorkerOf(db)' = WorkerOf(db) /\ Issued(db)' = Issued(db)
  BY <1>2 DEF ProjectOf, WorkerOf, Issued
<1> QED
  BY <1>2, <1>3, <1>4, <1>5, <1>6 DEF Board!Ask, Board!board

\* The caller takes the answer.
LEMMA FinishReturns ==
    ASSUME BoardInv, NEW t \in Threads, Finish(t)
    PROVE  Board!Return(t)
<1>1. /\ db' = db /\ req' = [req EXCEPT ![t] = NoRequest] /\ pc[t] = "done" /\ pc'[t] = "idle"
      /\ \A u \in Threads \ {t} : pc'[u] = pc[u] /\ out'[u] = out[u]
  BY DEF Finish, dbVars, Goto, BoardInv, IInv, CallsTyped
<1>2. Answers[t] # NoOut
  <2>1. out[t].kind # NoOut.kind
    BY <1>1 DEF BoardInv, CallInv, Serving, NoOut
  <2> QED BY <1>1, <2>1 DEF Answers
<1>3. Answers' = [Answers EXCEPT ![t] = NoOut]
  BY <1>1 DEF Answers
<1>4. ProjectOf(db)' = ProjectOf(db) /\ WorkerOf(db)' = WorkerOf(db) /\ Issued(db)' = Issued(db)
  BY <1>1 DEF ProjectOf, WorkerOf, Issued
<1>5. NoOut = Board!NoAnswer /\ NoRequest = Board!NoCall
  BY DEF NoOut, NoRequest, NULL, Board!NoAnswer, Board!NoCall
<1> QED
  BY <1>1, <1>2, <1>3, <1>4, <1>5 DEF Board!Return, Board!board

\* A crash is a restart of the board: calls are lost, the board is not.
LEMMA CrashRestarts ==
    ASSUME BoardInv, LoseCache, NoCalls
    PROVE  Board!Restart
<1>1. /\ db' = db /\ req' = [t \in Threads |-> NoRequest] /\ Answers' = [t \in Threads |-> NoOut]
  BY DEF LoseCache, NoCalls, Answers
<1>2. ProjectOf(db)' = ProjectOf(db) /\ WorkerOf(db)' = WorkerOf(db) /\ Issued(db)' = Issued(db)
  BY <1>1 DEF ProjectOf, WorkerOf, Issued
<1>3. NoOut = Board!NoAnswer /\ NoRequest = Board!NoCall
  BY DEF NoOut, NoRequest, NULL, Board!NoAnswer, Board!NoCall
<1> QED
  BY <1>1, <1>2, <1>3 DEF Board!Restart, Board!board

\* The steps between the first statement and the commit
LEMMA WorkIsInvisible ==
    ASSUME BoardInv, NEW t \in Threads,
           \/ OpenTx(t) \/ PersistProject(t) \/ PersistWorker(t) \/ PersistTask(t)
           \/ (EraseProject(t) /\ req[t].id \in image.projects)
           \/ AssignWorker(t) \/ UnassignWorker(t)
           \/ (FindProject(t) /\ req[t].id \in db.projects)
           \/ (FindWorker(t) /\ req[t].id \in db.workers)
           \/ (FindTask(t) /\ (Op(t) = "assign_task" \/ HasTask(db, req[t].id)))
           \/ (FindAssignee(t) /\ task[t] # {} /\ req[t].worker \in db.workers)
           \/ LoadTask(t)
    PROVE  UNCHANGED Board!boardVars
<1>1. CASE OpenTx(t) \/ PersistProject(t) \/ PersistWorker(t) \/ PersistTask(t)
  BY <1>1, InvisibleStep
     DEF OpenTx, PersistProject, PersistWorker, PersistTask, Persist, Begin, Modify, Goto, At,
         BoardInv, IInv, CallsTyped
<1>2. CASE EraseProject(t) /\ req[t].id \in image.projects
  BY <1>2, InvisibleStep DEF EraseProject, Modify, Goto, At, BoardInv, IInv, CallsTyped
<1>3. CASE AssignWorker(t) \/ UnassignWorker(t)
  <2>1. PICK w : SetWorker(t, w) /\ Writes(t) = {"Task"} /\ task[t] # {}
                 /\ pc[t] \in {"found", "checked"}
    BY <1>3 DEF AssignWorker, UnassignWorker, BoardInv, IInv, ThreadInv, TaskPresent, At, Writes
  <2>2. db' = db /\ UNCHANGED <<req, out>> /\ Goto(t, "commit")
    BY <2>1, SetWorkerWrites
  <2> QED
    BY <2>1, <2>2, InvisibleStep DEF Goto, BoardInv, IInv, CallsTyped
<1>4. CASE \/ FindProject(t) /\ req[t].id \in db.projects
           \/ FindWorker(t) /\ req[t].id \in db.workers
           \/ FindTask(t) /\ (Op(t) = "assign_task" \/ HasTask(db, req[t].id))
           \/ FindAssignee(t) /\ task[t] # {} /\ req[t].worker \in db.workers
  BY <1>4, InvisibleStep DEF FindProject, FindWorker, FindTask, FindAssignee, Select, Goto, At,
                             BoardInv, IInv, CallsTyped
<1>5. CASE LoadTask(t)
  <2>1. NextTask(t) \in tasks[t]
    BY <1>5 DEF LoadTask, NextTask
  <2>2. HasTask(db, NextTask(t))
    BY <1>5, <2>1 DEF LoadTask, HasTask, BoardInv, IInv, ThreadInv, ListRead, Listed,
                      TasksOfProject, TasksOfWorker
  <2> QED
    BY <1>5, <2>2, InvisibleStep DEF LoadTask, Select, At, BoardInv, IInv, CallsTyped
<1> QED BY <1>1, <1>2, <1>3, <1>4, <1>5

\* The call ends without finding what the request names.
LEMMA NotThereAnswer ==
    ASSUME BoardInv, NEW t \in Threads,
           \/ (EraseProject(t) /\ req[t].id \notin image.projects)
           \/ (FindProject(t) /\ req[t].id \notin db.projects)
           \/ (FindWorker(t) /\ req[t].id \notin db.workers)
           \/ (FindTask(t) /\ ~ (Op(t) = "assign_task" \/ HasTask(db, req[t].id)))
           \/ (FindAssignee(t) /\ ~ (task[t] # {} /\ req[t].worker \in db.workers))
           \/ (QueryTask(t) /\ ~ HasTask(db, req[t].id))
    PROVE  Board!NotThere(t) \/ Board!DelNothing(t)
<1>1. Board!Live = {r.id : r \in db.tasks}
  BY DEF Board!Live, ProjectOf
<1>2. ~ HasTask(db, req[t].id) <=> req[t].id \notin Board!Live
  BY <1>1 DEF HasTask
<1>3. CASE EraseProject(t) /\ req[t].id \notin image.projects
  <2>1. /\ Op(t) = "del_project" /\ pc[t] = "open" /\ Return(t, Out("not_persistent", {}))
        /\ Writes(t) = {"Project", "Task"} /\ Blockers(t, {}, {"Project", "Task"}) = {}
    BY <1>3 DEF EraseProject, At, Throw, Ready, WaitsFor, Writes, Blockers
  <2>2. image = db
    BY <2>1, AloneBeforeWriting DEF BoardInv, Tables
  <2> QED
    BY <1>3, <2>1, <2>2, ReturnReplies DEF Board!DelNothing
<1>4. CASE FindProject(t) /\ req[t].id \notin db.projects
  BY <1>4, ReturnReplies DEF FindProject, At, Board!NotThere
<1>5. CASE FindWorker(t) /\ req[t].id \notin db.workers
  BY <1>5, ReturnReplies DEF FindWorker, At, Board!NotThere
<1>6. CASE FindTask(t) /\ ~ (Op(t) = "assign_task" \/ HasTask(db, req[t].id))
  BY <1>2, <1>6, ReturnReplies DEF FindTask, At, Board!NotThere
<1>7. CASE FindAssignee(t) /\ ~ (task[t] # {} /\ req[t].worker \in db.workers)
  <2>1. task[t] = {} => ~ HasTask(db, req[t].id)
    BY <1>7 DEF FindAssignee, BoardInv, CallInv, TaskLookedUp, HasTask
  <2> QED
    BY <1>2, <1>7, <2>1, ReturnReplies DEF FindAssignee, At, Board!NotThere
<1>8. CASE QueryTask(t) /\ ~ HasTask(db, req[t].id)
  BY <1>2, <1>8, ReturnReplies DEF QueryTask, At, Board!NotThere
<1> QED BY <1>3, <1>4, <1>5, <1>6, <1>7, <1>8

\* A listing that has been serialised is the list the tables hold.
LEMMA ListingComplete ==
    ASSUME BoardInv, NEW t \in Threads, Serialized(t)
    PROVE  out[t].val = {Board!TaskView(r.id) : r \in Listed(t, db)}
<1>1. /\ out[t].val \subseteq db.tasks /\ Listed(t, db) \subseteq db.tasks
      /\ {r.id : r \in out[t].val} = {r.id : r \in Listed(t, db)}
  BY DEF Serialized, BoardInv, IInv, ThreadInv, ListRead, Listed, TasksOfProject, TasksOfWorker
<1>2. \A q, r \in db.tasks : q.id = r.id => q = r
  BY DEF BoardInv, Numbered
<1>3. out[t].val = Listed(t, db)
  <2>1. ASSUME NEW r \in out[t].val PROVE r \in Listed(t, db)
    <3>1. PICK q \in Listed(t, db) : q.id = r.id
      BY <1>1
    <3> QED BY <1>1, <1>2, <3>1
  <2>2. ASSUME NEW r \in Listed(t, db) PROVE r \in out[t].val
    <3>1. PICK q \in out[t].val : q.id = r.id
      BY <1>1
    <3> QED BY <1>1, <1>2, <3>1
  <2> QED BY <2>1, <2>2
<1>4. \A r \in Listed(t, db) : Board!TaskView(r.id) = r
  BY <1>1, ViewIsRow
<1> QED
  BY <1>3, <1>4

\* The questions are answered from the board as it is when the transaction ends.
LEMMA ReadsAnswer ==
    ASSUME BoardInv, NEW t \in Threads,
           Debug(t) \/ Collect(t) \/ Serialized(t) \/ (QueryTask(t) /\ HasTask(db, req[t].id))
    PROVE  Board!Get(t)
<1>1. Board!Live = {r.id : r \in db.tasks} /\ DOMAIN ProjectOf(db) = Board!Live
  BY DEF Board!Live, ProjectOf
<1>2. Numbered(db) /\ NULL \notin db.workers
  BY DEF BoardInv, Numbered
<1>3. \A ids : Named(ids) = Board!Named(ids)
  BY DEF Named, Board!Named
<1>4. CASE Debug(t)
  BY <1>4, ReturnReplies DEF Debug, At, Board!Get
<1>5. CASE Collect(t)
  <2>1. pc[t] = "open" /\ Op(t) \in {"get_projects", "get_workers", "get_users"}
    BY <1>5 DEF Collect, At
  <2>2. CASE Op(t) = "get_projects"
    <3>1. Return(t, Out("ok", Board!Named(db.projects)))
      BY <1>3, <1>5, <2>2 DEF Collect
    <3> QED BY <2>1, <2>2, <3>1, ReturnReplies DEF Board!Get
  <2>3. CASE Op(t) = "get_workers"
    <3>1. Return(t, Out("ok", Board!Named(db.workers)))
      BY <1>3, <1>5, <2>3 DEF Collect
    <3> QED BY <2>1, <2>3, <3>1, ReturnReplies DEF Board!Get
  <2>4. CASE Op(t) = "get_users"
    <3>1. Return(t, Out("ok", db.users))
      BY <1>5, <2>4 DEF Collect
    <3> QED BY <2>1, <2>4, <3>1, ReturnReplies DEF Board!Get
  <2> QED BY <2>1, <2>2, <2>3, <2>4
<1>6. CASE QueryTask(t) /\ HasTask(db, req[t].id)
  <2>1. PICK row \in db.tasks : row.id = req[t].id
    BY <1>6 DEF HasTask
  <2>2. TaskWithId(db, req[t].id) = row /\ Board!TaskView(req[t].id) = row
        /\ req[t].id \in Board!Live
    BY <1>1, <1>2, <2>1, BoardRow, ViewIsRow
  <2>3. Return(t, Out("ok", {Board!TaskView(req[t].id)})) /\ pc[t] = "open" /\ Op(t) = "get_task"
    BY <1>6, <2>2 DEF QueryTask, At
  <2> QED
    BY <2>2, <2>3, ReturnReplies DEF Board!Get
<1>7. CASE Serialized(t)
  <2> DEFINE i == req[t].id
             inProject == {j \in Board!Live : ProjectOf(db)[j] = i}
             ofWorker == {j \in DOMAIN WorkerOf(db) : WorkerOf(db)[j] = i}
  <2>1. /\ pc[t] = "load" /\ Op(t) \in {"get_project", "get_worker"}
        /\ Return(t, Out("ok", {Board!TaskView(r.id) : r \in Listed(t, db)}))
    BY <1>7, ListingComplete DEF Serialized, At
  <2>2. CASE Op(t) = "get_project"
    <3>1. req[t].id \in db.projects
      BY <2>1, <2>2 DEF BoardInv, CallInv, OwnerRead, At
    <3>2. {r.id : r \in Listed(t, db)} = inProject
      <4>1. ASSUME NEW r \in db.tasks PROVE r.project = i <=> r.id \in inProject
        BY <1>1, <1>2, BoardRow
      <4>2. Listed(t, db) = {r \in db.tasks : r.project = i}
        BY <2>2 DEF Listed, TasksOfProject
      <4> QED
        BY <1>1, <4>1, <4>2
    <3>3. {Board!TaskView(r.id) : r \in Listed(t, db)} = {Board!TaskView(j) : j \in inProject}
      BY <3>2
    <3> QED
      BY <2>1, <2>2, <3>1, <3>3, ReturnReplies DEF Board!Get
  <2>3. CASE Op(t) = "get_worker"
    <3>1. req[t].id \in db.workers
      BY <2>1, <2>3 DEF BoardInv, CallInv, OwnerRead, At
    <3>2. {r.id : r \in Listed(t, db)} = ofWorker
      <4>1. ASSUME NEW r \in db.tasks PROVE r.worker = i <=> r.id \in ofWorker
        BY <1>2, <3>1, BoardRow
      <4>2. Listed(t, db) = {r \in db.tasks : r.worker = i}
        BY <2>3 DEF Listed, TasksOfWorker
      <4>3. \A j \in ofWorker : \E r \in db.tasks : r.id = j
        BY <1>2, BoardDomains
      <4> QED
        BY <4>1, <4>2, <4>3
    <3>3. {Board!TaskView(r.id) : r \in Listed(t, db)} = {Board!TaskView(j) : j \in ofWorker}
      BY <3>2
    <3> QED
      BY <2>1, <2>3, <3>1, <3>3, ReturnReplies DEF Board!Get
  <2> QED BY <2>1, <2>2, <2>3
<1> QED BY <1>4, <1>5, <1>6, <1>7

\* A payload that is no good, and a wait that would close a cycle
LEMMA FailuresFail ==
    ASSUME BoardInv, NEW t \in Threads, ParseError(t) \/ Deadlock(t)
    PROVE  Board!Fail(t)
<1>1. CASE ParseError(t)
  <2>1. pc[t] = "call" /\ Op(t) \in Board!Changes /\ Return(t, Out("json", {}))
    BY <1>1 DEF ParseError, At, Throw, Posts, Board!Changes
  <2> QED
    BY <2>1, ReturnReplies, CallPending DEF Board!Fail, Op
<1>2. CASE Deadlock(t)
  <2>1. Return(t, Out("deadlock", {})) /\ OnCycle(t, WaitsFor)
    BY <1>2 DEF Deadlock, Throw
  <2>2. PICK u \in Threads \ {t} : pc[u] \in InTransaction
    BY <2>1, WaitingInTransaction
  <2>3. pc[t] \notin {"idle", "done"} /\ pc[u] \notin {"idle", "done"}
    BY <2>1, <2>2, WaitingInTransaction DEF InTransaction
  <2>4. req[t] # Board!NoCall /\ req[u] # Board!NoCall
    BY <2>3 DEF BoardInv, CallInv, Serving, NoRequest, NULL, Board!NoCall
  <2>5. Answers[t] = Board!NoAnswer /\ Answers[u] = Board!NoAnswer
    BY <2>3, CallPending
  <2>6. Board!Reply(t, "deadlock", {}) /\ UNCHANGED Board!board
    BY <2>1, <2>3, ReturnReplies
  <2> QED
    BY <2>4, <2>5, <2>6 DEF Board!Fail
<1> QED BY <1>1, <1>2

\* A commit is the instant at which the call takes effect.
LEMMA CommitTakesEffect ==
    ASSUME BoardInv, IInv', NEW t \in Threads, CommitTx(t)
    PROVE  \/ Board!AddProject(t) \/ Board!AddWorker(t) \/ Board!AddTask(t)
           \/ Board!DelProject(t) \/ Board!AssignTask(t) \/ Board!UnassignTask(t)
<1>1. /\ Commit(t) /\ pc[t] = "commit" /\ Prepared(t)
      /\ pc' = [pc EXCEPT ![t] = "done"] /\ req' = req /\ db' = image
      /\ out' = [out EXCEPT ![t].kind = "ok"]
  BY CommitCall DEF CommitTx, Commit, Goto, BoardInv, CallInv
<1>2. out'[t] = Out("ok", out[t].val) /\ \A u \in Threads \ {t} : out'[u] = out[u]
  <2>1. out[t] = Out(out[t].kind, out[t].val)
    BY DEF BoardInv, IInv, CallsTyped
  <2>2. out'[t] = [Out(out[t].kind, out[t].val) EXCEPT !.kind = "ok"]
    BY <1>1, <2>1 DEF BoardInv, IInv, CallsTyped
  <2> QED BY <1>1, <2>2 DEF Out, BoardInv, IInv, CallsTyped
<1>3. Board!Reply(t, "ok", out[t].val) /\ Board!Pending(t, Op(t))
  BY <1>1, <1>2, EndReplies, CallPending
<1>4. db \in StoreType /\ Numbered(db)
  BY DEF BoardInv, IInv, CallsTyped
<1>5. /\ ProjectOf(db)' = ProjectOf(db') /\ WorkerOf(db)' = WorkerOf(db')
      /\ Issued(db)' = Issued(db')
  BY DEF ProjectOf, WorkerOf, Issued
<1>6. \A ids : Named(ids) = Board!Named(ids)
  BY DEF Named, Board!Named
<1>7. Issued(db) = [project |-> db.lastProject, worker |-> db.lastWorker, task |-> db.lastTask]
  BY DEF Issued
<1>8. DOMAIN ProjectOf(db) = {r.id : r \in db.tasks}
  BY DEF ProjectOf
<1>9. CASE Op(t) = "add_project" /\ db' = InsertProject(db) /\ out[t].val = Named({db.lastProject + 1})
  <2>1. /\ db'.projects = db.projects \cup {db.lastProject + 1} /\ db'.workers = db.workers
        /\ db'.tasks = db.tasks /\ Issued(db') = [Issued(db) EXCEPT !.project = @ + 1]
        /\ Issued(db').project = db.lastProject + 1 /\ db'.users = db.users
    BY <1>4, <1>9, ChangesKeepAccounts DEF InsertProject, StoreType, Issued
  <2>2. ProjectOf(db') = ProjectOf(db) /\ WorkerOf(db') = WorkerOf(db)
    BY <2>1, SameTasksSameBoard
  <2> QED
    BY <1>3, <1>5, <1>6, <1>9, <2>1, <2>2 DEF Board!AddProject
<1>10. CASE Op(t) = "add_worker" /\ db' = InsertWorker(db) /\ out[t].val = Named({db.lastWorker + 1})
  <2>1. /\ db'.workers = db.workers \cup {db.lastWorker + 1} /\ db'.projects = db.projects
        /\ db'.tasks = db.tasks /\ Issued(db') = [Issued(db) EXCEPT !.worker = @ + 1]
        /\ Issued(db').worker = db.lastWorker + 1 /\ db'.users = db.users
    BY <1>4, <1>10, ChangesKeepAccounts DEF InsertWorker, StoreType, Issued
  <2>2. ProjectOf(db') = ProjectOf(db) /\ WorkerOf(db') = WorkerOf(db)
    BY <2>1, SameTasksSameBoard
  <2> QED
    BY <1>3, <1>5, <1>6, <1>10, <2>1, <2>2 DEF Board!AddWorker
<1>11. CASE /\ Op(t) = "add_task" /\ req[t].id \in db.projects
            /\ db' = InsertTask(db, req[t].id) /\ out[t].val = Named({db.lastTask + 1})
  <2>1. /\ db'.projects = db.projects /\ db'.workers = db.workers
        /\ Issued(db') = [Issued(db) EXCEPT !.task = @ + 1]
        /\ Issued(db').task = db.lastTask + 1 /\ db'.users = db.users
    BY <1>4, <1>11, ChangesKeepAccounts DEF InsertTask, StoreType, Issued
  <2>2. /\ ProjectOf(db') = [i \in Board!Live \cup {db.lastTask + 1} |->
                                IF i \in Board!Live THEN ProjectOf(db)[i] ELSE req[t].id]
        /\ WorkerOf(db') = WorkerOf(db)
    BY <1>4, <1>11, InsertTaskBoard DEF Board!Live
  <2> QED
    BY <1>3, <1>5, <1>6, <1>11, <2>1, <2>2 DEF Board!AddTask
<1>12. CASE /\ Op(t) = "del_project" /\ req[t].id \in db.projects
            /\ db' = DeleteProject(db, req[t].id) /\ out[t].val = {}
  <2>1. /\ db'.projects = db.projects \ {req[t].id} /\ db'.workers = db.workers
        /\ Issued(db') = Issued(db) /\ db'.users = db.users
    BY <1>4, <1>12, ChangesKeepAccounts DEF DeleteProject, StoreType, Issued
  <2>2. LET kept == {i \in Board!Live : ProjectOf(db)[i] # req[t].id}
        IN  /\ ProjectOf(db') = [i \in kept |-> ProjectOf(db)[i]]
            /\ WorkerOf(db') = [i \in kept \cap DOMAIN WorkerOf(db) |-> WorkerOf(db)[i]]
    BY <1>4, <1>12, DeleteProjectBoard DEF Board!Live
  <2> QED
    BY <1>3, <1>5, <1>12, <2>1, <2>2 DEF Board!DelProject, Board!Restrict
<1>13. CASE Op(t) \in {"assign_task", "unassign_task"}
  <2> DEFINE w == IF Op(t) = "assign_task" THEN req[t].worker ELSE NULL
  <2>1. /\ out[t].val = {}
        /\ Op(t) = "assign_task" => req[t].worker \in db.workers
        /\ \E row \in db.tasks :
              row.id = req[t].id /\ db' = UpdateTask(db, [row EXCEPT !.worker = w])
    BY <1>1, <1>13 DEF Prepared
  <2>2. PICK row \in db.tasks :
            row.id = req[t].id /\ db' = UpdateTask(db, [row EXCEPT !.worker = w])
    BY <2>1
  <2>3. /\ db'.projects = db.projects /\ db'.workers = db.workers
        /\ Issued(db') = Issued(db) /\ db'.users = db.users
    BY <1>4, <2>2, ChangesKeepAccounts DEF UpdateTask, StoreType, Issued
  <2> HIDE DEF w
  <2>4. /\ ProjectOf(db') = ProjectOf(db)
        /\ w # NULL => WorkerOf(db') = [i \in DOMAIN WorkerOf(db) \cup {req[t].id} |->
                                            IF i = req[t].id THEN w ELSE WorkerOf(db)[i]]
        /\ w = NULL => WorkerOf(db') =
                            [i \in DOMAIN WorkerOf(db) \ {req[t].id} |-> WorkerOf(db)[i]]
    BY <1>4, <2>2, UpdateTaskBoard
  <2>5. req[t].id \in Board!Live
    BY <1>8, <2>2 DEF Board!Live
  <2>6. CASE Op(t) = "assign_task"
    <3>1. w = req[t].worker /\ w \in db.workers /\ w # NULL
      BY <1>4, <2>1, <2>6 DEF w, Numbered
    <3> QED
      BY <1>3, <1>5, <2>1, <2>3, <2>4, <2>5, <2>6, <3>1 DEF Board!AssignTask
  <2>7. CASE Op(t) = "unassign_task"
    <3>1. w = NULL
      BY <2>7 DEF w
    <3> QED
      BY <1>3, <1>5, <2>1, <2>3, <2>4, <2>5, <2>7, <3>1 DEF Board!UnassignTask, Board!Restrict
  <2> QED BY <1>13, <2>6, <2>7
<1> QED
  BY <1>1, <1>9, <1>10, <1>11, <1>12, <1>13 DEF Prepared

\* The service starts with an empty board.
LEMMA InitBoard == Init => Board!Init
<1> SUFFICES ASSUME Init PROVE Board!Init
  OBVIOUS
<1>1. db = InitialStore
  BY DEF Init, DatabaseInit
<1>2. /\ db.projects = {} /\ db.workers = {} /\ db.tasks = {}
      /\ db.lastProject = 0 /\ db.lastWorker = 0 /\ db.lastTask = 0
      /\ db.users = InitialUsers
  BY <1>1 DEF InitialStore, EmptyStore
<1>3. ProjectOf(db) = << >> /\ WorkerOf(db) = << >>
  BY <1>2 DEF ProjectOf, WorkerOf
<1>4. Issued(db) = [project |-> 0, worker |-> 0, task |-> 0]
  BY <1>2 DEF Issued
<1>5. Answers = [t \in Threads |-> Board!NoAnswer]
  BY DEF Init, Answers, NoOut, Board!NoAnswer
<1>6. req = [t \in Threads |-> Board!NoCall]
  BY DEF Init, NoRequest, NULL, Board!NoCall
<1> QED
  BY <1>2, <1>3, <1>4, <1>5, <1>6 DEF Board!Init

\* Every step of a call is a step of the board or changes nothing on it.
LEMMA StepOnBoard ==
    ASSUME BoardInv, IInv', NEW t \in Threads, (\E r \in Requests : CallWith(t, r)) \/ Step(t)
    PROVE  [Board!Next]_Board!boardVars
<1>1. CASE \E r \in Requests : CallWith(t, r)
  BY <1>1, CallAsks DEF Board!Next
<1>2. CASE Finish(t)
  BY <1>2, FinishReturns DEF Board!Next
<1>3. CASE ParseError(t) \/ Deadlock(t)
  BY <1>3, FailuresFail DEF Board!Next
<1>4. CASE CommitTx(t)
  BY <1>4, CommitTakesEffect DEF Board!Next
<1>5. CASE Debug(t) \/ Collect(t) \/ Serialized(t)
  BY <1>5, ReadsAnswer DEF Board!Next
<1>6. CASE QueryTask(t)
  BY <1>6, ReadsAnswer, NotThereAnswer DEF Board!Next
<1>7. CASE EraseProject(t) \/ FindProject(t) \/ FindWorker(t) \/ FindTask(t) \/ FindAssignee(t)
  <2>1. UNCHANGED Board!boardVars \/ Board!NotThere(t) \/ Board!DelNothing(t)
    BY <1>7, WorkIsInvisible, NotThereAnswer
  <2> QED BY <2>1 DEF Board!Next
<1>8. CASE \/ OpenTx(t) \/ PersistProject(t) \/ PersistWorker(t) \/ PersistTask(t)
           \/ AssignWorker(t) \/ UnassignWorker(t) \/ LoadTask(t)
  BY <1>8, WorkIsInvisible
<1> QED
  BY <1>1, <1>2, <1>3, <1>4, <1>5, <1>6, <1>7, <1>8 DEF Step

\* And so is every other step of the endpoints.
LEMMA NextBoard == BoardInv /\ [Next]_vars => [Board!Next]_Board!boardVars
<1> SUFFICES ASSUME BoardInv, [Next]_vars PROVE [Board!Next]_Board!boardVars
  OBVIOUS
<1>1. CASE UNCHANGED vars
  <2>1. /\ ProjectOf(db)' = ProjectOf(db) /\ WorkerOf(db)' = WorkerOf(db)
        /\ Issued(db)' = Issued(db) /\ Answers' = Answers
    BY <1>1 DEF vars, dbVars, callVars, ProjectOf, WorkerOf, Issued, Answers
  <2> QED
    BY <1>1, <2>1 DEF vars, dbVars, callVars, Board!boardVars, Board!board
<1>2. CASE Crash
  BY <1>2, CrashRestarts DEF Crash, Board!Next
<1>3. ASSUME NEW t \in Threads, Call(t) \/ Step(t) PROVE [Board!Next]_Board!boardVars
  <2>1. IInv'
    BY NextInv DEF BoardInv
  <2> QED
    BY <1>3, <2>1, StepOnBoard DEF Call
<1> QED
  BY <1>1, <1>2, <1>3 DEF Next

-----------------------------------------------------------------------------
(* The endpoints in the service: what the other components do to the board *)

\* The transactions of a thread that serves no call are not seen.
LEMMA OutsideBoard ==
    ASSUME BoardInv, NEW t \in Threads, pc[t] = "idle", UNCHANGED callVars,
           Begin(t) \/ Rollback(t) \/ \E R \in SUBSET Tables : Select(t, R)
    PROVE  BoardInv' /\ UNCHANGED Board!boardVars
<1>1. IInv' /\ UNCHANGED <<db, image>>
  BY OutsideInv DEF BoardInv
<1>2. \A u \in Threads \ {t} : LocalUnchanged(u)
  BY DEF callVars, BoardInv, IInv, CallsTyped, LocalUnchanged, Begin, Rollback, Release, Select
<1>3. CallInv(t)'
  BY DEF callVars, BoardInv, CallInv, Serving, TaskLookedUp, OwnerRead, At
<1>4. BoardInv'
  BY <1>1, <1>2, <1>3, CallFrameAll
<1>5. /\ ProjectOf(db)' = ProjectOf(db) /\ WorkerOf(db)' = WorkerOf(db)
      /\ Issued(db)' = Issued(db) /\ Answers' = Answers
  BY <1>1 DEF callVars, ProjectOf, WorkerOf, Issued, Answers
<1> QED
  BY <1>1, <1>4, <1>5 DEF callVars, Board!boardVars, Board!board

\* While no thread serves a call, the accounts may be changed, which to the clients
\* is an enrolment if nobody loses one.
LEMMA QuietBoard ==
    ASSUME BoardInv, IInv', \A t \in Threads : pc[t] = "idle", UNCHANGED callVars,
           db'.projects = db.projects, db'.workers = db.workers, db'.tasks = db.tasks,
           db'.lastProject = db.lastProject, db'.lastWorker = db.lastWorker,
           db'.lastTask = db.lastTask, db.users \subseteq db'.users
    PROVE  BoardInv' /\ Board!Enroll
<1>1. ASSUME NEW t \in Threads PROVE CallInv(t)'
  BY DEF callVars, BoardInv, CallInv, Serving, TaskLookedUp, OwnerRead, At
<1>2. Numbered(db)'
  BY DEF BoardInv, Numbered
<1>3. ProjectOf(db)' = ProjectOf(db) /\ WorkerOf(db)' = WorkerOf(db)
  BY SameTasksSameBoard DEF ProjectOf, WorkerOf, TaskWithId
<1>4. Issued(db)' = Issued(db) /\ Answers' = Answers
  BY DEF callVars, Issued, Answers
<1>5. \A t \in Threads : req[t] = Board!NoCall
  BY DEF BoardInv, CallInv, Serving, NoRequest, NULL, Board!NoCall
<1> QED
  BY <1>1, <1>2, <1>3, <1>4, <1>5 DEF BoardInv, callVars, Board!Enroll

\* When neither the database nor a call changes, nothing happens to the board.
LEMMA UntouchedBoard ==
    ASSUME BoardInv, UNCHANGED <<dbVars, callVars>>
    PROVE  BoardInv' /\ UNCHANGED Board!boardVars
<1>1. BoardInv'
  BY BoardNext DEF vars
<1>2. /\ ProjectOf(db)' = ProjectOf(db) /\ WorkerOf(db)' = WorkerOf(db)
      /\ Issued(db)' = Issued(db) /\ Answers' = Answers
  BY DEF dbVars, callVars, ProjectOf, WorkerOf, Issued, Answers
<1> QED
  BY <1>1, <1>2 DEF dbVars, callVars, Board!boardVars, Board!board

-----------------------------------------------------------------------------
\* What threads know of their calls is true in every reachable state.
THEOREM BoardInvariance == Spec => []BoardInv
<1>1. Init => BoardInv
  BY BoardInit
<1>2. BoardInv /\ [Next]_vars => BoardInv'
  BY BoardNext
<1> QED
  BY <1>1, <1>2, PTL DEF Spec

\* The endpoints implement the task board: calls take effect one after the other,
\* each during its own call, and crashes and failures leave no half of one.
THEOREM Linearizability == Spec => LinearizesTaskBoard
<1>1. Init => Board!Init
  BY InitBoard
<1>2. BoardInv /\ [Next]_vars => [Board!Next]_Board!boardVars
  BY NextBoard
<1> QED
  BY <1>1, <1>2, BoardInvariance, PTL DEF Spec, Board!Spec, LinearizesTaskBoard
=============================================================================
