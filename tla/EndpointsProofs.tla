--------------------------- MODULE EndpointsProofs ---------------------------
(***************************************************************************)
(* The safety properties of module Endpoints, for any number of threads    *)
(* and rows.  They are consequences of one inductive invariant: what the   *)
(* locks of the database layer guarantee, consistency of file and cache,   *)
(* and, for every thread, that the locks it holds cover the facts it has   *)
(* read.                                                                   *)
(***************************************************************************)
EXTENDS Endpoints, TLAPS

-----------------------------------------------------------------------------
(* The locks: one lemma per operation of module Database, whatever the     *)
(* statements are                                                          *)

\* The tables T have the same rows in d and in e.
Agree(d, e, T) ==
    /\ "Project" \in T => d.projects = e.projects
    /\ "Worker" \in T => d.workers = e.workers
    /\ "Task" \in T => d.tasks = e.tasks
    /\ "User" \in T => d.users = e.users
    /\ "Role" \in T => d.roles = e.roles

LockTypes ==
    /\ rlock \in [Threads -> SUBSET Tables]
    /\ wlock \in [Threads -> SUBSET Tables]
    /\ current \subseteq Threads

\* Locks belong to transactions.
LocksHeld == \A t \in Threads : t \notin current => rlock[t] = {} /\ wlock[t] = {}

\* One transaction writes, and no other one reads what it writes.
LocksExclude ==
    \A t, u \in Threads :
        t # u /\ wlock[t] # {} => wlock[u] = {} /\ wlock[t] \cap rlock[u] = {}

\* The cache is ahead of the file only in the tables the writer has locked.
CacheCurrent == (\A t \in Threads : wlock[t] = {}) => image = db
CacheAhead ==
    \A t \in Threads : wlock[t] # {} => Agree(db, image, Tables \ wlock[t])

DatabaseInv ==
    LockTypes /\ LocksHeld /\ LocksExclude /\ CacheCurrent /\ CacheAhead

-----------------------------------------------------------------------------
\* Opening a database file establishes the invariant.
LEMMA DatabaseInitInv ==
    ASSUME NEW d, DatabaseInit(d) PROVE DatabaseInv
BY DEF DatabaseInit, DatabaseInv, LockTypes, LocksHeld, LocksExclude, CacheCurrent,
       CacheAhead, Agree, Tables

\* Beginning a transaction takes no lock (Transaction IDatabase::transaction).
LEMMA BeginInv ==
    ASSUME DatabaseInv, NEW t \in Threads, Begin(t) PROVE DatabaseInv'
BY DEF Begin, DatabaseInv, LockTypes, LocksHeld, LocksExclude, CacheCurrent, CacheAhead,
       Agree

\* A statement that reads waits until no other transaction writes its tables.
LEMMA SelectInv ==
    ASSUME DatabaseInv, NEW t \in Threads, NEW R \in SUBSET Tables, Select(t, R)
    PROVE  DatabaseInv'
BY DEF Select, Blockers, DatabaseInv, LockTypes, LocksHeld, LocksExclude, CacheCurrent,
       CacheAhead, Agree

\* A statement that writes finds every other transaction without a write lock, and
\* without a read lock on the tables it changes.
LEMMA ModifyBlocksNone ==
    ASSUME DatabaseInv, NEW t \in Threads, NEW W \in SUBSET Tables, W # {},
           Blockers(t, {}, W) = {}
    PROVE  \A u \in Threads \ {t} : wlock[u] = {} /\ rlock[u] \cap W = {}
BY DEF Blockers

\* Hence it may change the cache in those tables.
LEMMA ModifyInv ==
    ASSUME DatabaseInv, NEW t \in Threads, NEW W \in SUBSET Tables, W # {},
           NEW d, wlock[t] = {}, Modify(t, W, d), Agree(image, d, Tables \ W)
    PROVE  DatabaseInv'
<1>1. \A u \in Threads \ {t} : wlock[u] = {} /\ rlock[u] \cap W = {}
  BY ModifyBlocksNone DEF Modify
<1>2. image = db
  BY <1>1 DEF DatabaseInv, CacheCurrent
<1>3. wlock' = [wlock EXCEPT ![t] = W] /\ wlock'[t] = W
  BY DEF Modify, DatabaseInv, LockTypes
<1>4. LockTypes' /\ LocksHeld'
  BY <1>3 DEF Modify, DatabaseInv, LockTypes, LocksHeld
<1>5. LocksExclude'
  BY <1>1, <1>3 DEF Modify, DatabaseInv, LockTypes, LocksExclude
<1>6. CacheCurrent'
  BY <1>3 DEF CacheCurrent
<1>7. CacheAhead'
  BY <1>1, <1>2, <1>3 DEF Modify, DatabaseInv, LockTypes, CacheAhead, Agree
<1> QED
  BY <1>4, <1>5, <1>6, <1>7 DEF DatabaseInv

\* A rollback takes the cache back to the file.
LEMMA RollbackInv ==
    ASSUME DatabaseInv, NEW t \in Threads, Rollback(t) PROVE DatabaseInv'
<1>1. LockTypes' /\ LocksHeld' /\ LocksExclude'
  BY DEF Rollback, Release, DatabaseInv, LockTypes, LocksHeld, LocksExclude
<1>2. CacheCurrent' /\ CacheAhead'
  <2>1. CASE wlock[t] = {}
    BY <2>1 DEF Rollback, Release, DatabaseInv, LockTypes, CacheCurrent, CacheAhead, Agree
  <2>2. CASE wlock[t] # {}
    BY <2>2 DEF Rollback, Release, DatabaseInv, LockTypes, LocksExclude, CacheCurrent,
                CacheAhead, Agree
  <2> QED BY <2>1, <2>2
<1> QED
  BY <1>1, <1>2 DEF DatabaseInv

\* A commit takes the file to the cache.
LEMMA CommitInv ==
    ASSUME DatabaseInv, NEW t \in Threads, Commit(t) PROVE DatabaseInv'
<1>1. LockTypes' /\ LocksHeld' /\ LocksExclude'
  BY DEF Commit, Release, DatabaseInv, LockTypes, LocksHeld, LocksExclude
<1>2. CacheCurrent' /\ CacheAhead'
  BY DEF Commit, CacheCurrent, CacheAhead, Agree
<1> QED
  BY <1>1, <1>2 DEF DatabaseInv

\* A crash leaves an open transaction no trace.
LEMMA LoseCacheInv ==
    ASSUME DatabaseInv, LoseCache PROVE DatabaseInv'
BY DEF LoseCache, DatabaseInv, LockTypes, LocksHeld, LocksExclude, CacheCurrent, CacheAhead,
       Agree, Tables

\* What a transaction has read, no other transaction's commit changes.
LEMMA CommitKeepsReads ==
    ASSUME DatabaseInv, NEW t \in Threads, NEW u \in Threads, t # u, wlock[t] # {},
           Commit(t)
    PROVE  Agree(db, db', rlock[u])
BY DEF Commit, DatabaseInv, LockTypes, LocksExclude, CacheAhead, Agree, Tables

-----------------------------------------------------------------------------
(* The invariant of the endpoints *)

Changing(t) == pc[t] = "commit" <=> wlock[t] # {}

\* The task object was read under a lock that is still held.
TaskRead(t) ==
    task[t] # {} =>
        /\ "Task" \in rlock[t]
        /\ task[t] \subseteq db.tasks
        /\ \A row \in task[t] : row.id = req[t].id

ProjectRead(t) ==
    At(t, "found", {"add_task"}) => "Project" \in rlock[t] /\ req[t].id \in db.projects

WorkerRead(t) ==
    At(t, "checked", {"assign_task"}) =>
        "Worker" \in rlock[t] /\ req[t].worker \in db.workers

TaskPresent(t) ==
    At(t, "found", {"unassign_task"}) \/ At(t, "checked", {"assign_task"}) => task[t] # {}

Listed(t, d) ==
    IF Op(t) = "get_project" THEN TasksOfProject(d, req[t].id)
                             ELSE TasksOfWorker(d, req[t].id)

ListRead(t) ==
    At(t, "load", {"get_project", "get_worker"}) =>
        /\ "Task" \in rlock[t]
        /\ out[t].val \subseteq db.tasks
        /\ {r.id : r \in out[t].val} \cup tasks[t] = {r.id : r \in Listed(t, db)}

\* Outside call() there are no objects in memory.
Idle(t) == pc[t] \in {"idle", "call", "done"} => task[t] = {}

Outcome(t) ==
    /\ pc[t] # "done" => out[t].kind = "none"
    /\ pc[t] \in {"idle", "call", "open"} => out[t].val = {}
    /\ out[t].kind # "constraint"
    /\ out[t].kind = "not_persistent" => Op(t) = "del_project"

ThreadInv(t) ==
    /\ Changing(t) /\ TaskRead(t) /\ ProjectRead(t) /\ WorkerRead(t) /\ TaskPresent(t)
    /\ ListRead(t) /\ Idle(t) /\ Outcome(t)

Consistent ==
    /\ ForeignKeysHold(db) /\ ForeignKeysHold(image)
    /\ IdsKept(db, image)

IInv ==
    /\ CallsTyped /\ DatabaseInv /\ Consistent
    /\ \A t \in Threads : ThreadInv(t)

-----------------------------------------------------------------------------
(* The changes the endpoints make to the tables *)

\* What every change preserves: types, foreign keys and the meaning of ids
Sound(d, e) == e \in StoreType /\ ForeignKeysHold(e) /\ IdsKept(d, e)

\* AddProject inserts a row that nothing refers to yet.
LEMMA InsertProjectSound ==
    ASSUME NEW d \in StoreType, ForeignKeysHold(d)
    PROVE  /\ Sound(d, InsertProject(d))
           /\ Agree(d, InsertProject(d), Tables \ {"Project"})
<1>1. InsertProject(d) \in StoreType
  <2>1. d.projects \cup {d.lastProject + 1} \in SUBSET Nat /\ d.lastProject + 1 \in Nat
    BY DEF StoreType
  <2> QED
    BY <2>1 DEF StoreType, InsertProject
<1> QED
  BY <1>1 DEF Sound, StoreType, ForeignKeysHold, IdsKept, InsertProject, Agree

\* AddWorker likewise.
LEMMA InsertWorkerSound ==
    ASSUME NEW d \in StoreType, ForeignKeysHold(d)
    PROVE  /\ Sound(d, InsertWorker(d))
           /\ Agree(d, InsertWorker(d), Tables \ {"Worker"})
<1>1. InsertWorker(d) \in StoreType
  <2>1. d.workers \cup {d.lastWorker + 1} \in SUBSET Nat /\ d.lastWorker + 1 \in Nat
    BY DEF StoreType
  <2> QED
    BY <2>1 DEF StoreType, InsertWorker
<1> QED
  BY <1>1 DEF Sound, StoreType, ForeignKeysHold, IdsKept, InsertWorker, Agree

\* AddTask inserts a row for a project that is there.
LEMMA InsertTaskSound ==
    ASSUME NEW d \in StoreType, ForeignKeysHold(d), NEW p \in d.projects
    PROVE  /\ Sound(d, InsertTask(d, p))
           /\ Agree(d, InsertTask(d, p), Tables \ {"Task"})
<1> DEFINE new == [id |-> d.lastTask + 1, project |-> p, worker |-> NULL]
           e   == InsertTask(d, p)
<1>1. new \in TaskRow /\ new.id > d.lastTask /\ new.project = p /\ new.worker = NULL
  BY DEF StoreType, TaskRow, NULL
<1>2. /\ e.tasks = d.tasks \cup {new}
      /\ e.projects = d.projects /\ e.workers = d.workers
      /\ e.users = d.users /\ e.roles = d.roles
      /\ e \in StoreType
  <2>1. e = [d EXCEPT !.tasks = d.tasks \cup {new}, !.lastTask = d.lastTask + 1]
    BY DEF InsertTask
  <2>2. d.tasks \cup {new} \in SUBSET TaskRow /\ d.lastTask + 1 \in Nat
    BY <1>1 DEF StoreType
  <2> HIDE DEF new, e
  <2> QED
    BY <2>1, <2>2 DEF StoreType
<1> SUFFICES Sound(d, e) /\ Agree(d, e, Tables \ {"Task"})
  OBVIOUS
<1>3. ForeignKeysHold(e)
  BY <1>1, <1>2 DEF ForeignKeysHold
<1>4. IdsKept(d, e)
  BY <1>1, <1>2 DEF IdsKept
<1>5. Agree(d, e, Tables \ {"Task"})
  BY <1>2 DEF Agree
<1> QED
  BY <1>2, <1>3, <1>4, <1>5 DEF Sound

\* DelProject takes the project's tasks with it.
LEMMA DeleteProjectSound ==
    ASSUME NEW d \in StoreType, ForeignKeysHold(d), NEW p
    PROVE  /\ Sound(d, DeleteProject(d, p))
           /\ Agree(d, DeleteProject(d, p), Tables \ {"Project", "Task"})
BY DEF Sound, StoreType, TaskRow, ForeignKeysHold, IdsKept, DeleteProject, Agree, NULL

\* AssignTask and UnassignTask write back a row that is in the table.
LEMMA UpdateTaskSound ==
    ASSUME NEW d \in StoreType, ForeignKeysHold(d), NEW row \in d.tasks,
           NEW w \in d.workers \cup {NULL}
    PROVE  /\ Sound(d, UpdateTask(d, [row EXCEPT !.worker = w]))
           /\ Agree(d, UpdateTask(d, [row EXCEPT !.worker = w]), Tables \ {"Task"})
<1> DEFINE new == [row EXCEPT !.worker = w]
           e   == UpdateTask(d, new)
<1>1. new \in TaskRow /\ new.id = row.id /\ new.project = row.project /\ new.worker = w
  BY DEF StoreType, TaskRow, NULL
<1>2. /\ e.tasks = {r \in d.tasks : r.id # new.id} \cup {new}
      /\ e.projects = d.projects /\ e.workers = d.workers
      /\ e.users = d.users /\ e.roles = d.roles
      /\ e \in StoreType
  BY <1>1 DEF UpdateTask, StoreType
<1> SUFFICES Sound(d, e) /\ Agree(d, e, Tables \ {"Task"})
  OBVIOUS
<1>3. ForeignKeysHold(e)
  BY <1>1, <1>2 DEF ForeignKeysHold
<1>4. IdsKept(d, e)
  BY <1>1, <1>2 DEF IdsKept
<1>5. Agree(d, e, Tables \ {"Task"})
  BY <1>2 DEF Agree
<1> QED
  BY <1>2, <1>3, <1>4, <1>5 DEF Sound

-----------------------------------------------------------------------------
(* One thread at a time *)

LocalUnchanged(u) ==
    /\ pc'[u] = pc[u] /\ req'[u] = req[u] /\ task'[u] = task[u] /\ tasks'[u] = tasks[u]
    /\ out'[u] = out[u] /\ rlock'[u] = rlock[u] /\ wlock'[u] = wlock[u]

\* What a thread knows survives the steps of the others, as long as they leave
\* the tables it has read alone.
LEMMA Frame ==
    ASSUME NEW u \in Threads, ThreadInv(u), LocalUnchanged(u), Agree(db, db', rlock[u])
    PROVE  ThreadInv(u)'
<1>1. Changing(u)' /\ Idle(u)' /\ Outcome(u)'
  BY DEF LocalUnchanged, ThreadInv, Changing, Idle, Outcome, Op
<1>2. TaskRead(u)' /\ TaskPresent(u)'
  BY DEF LocalUnchanged, ThreadInv, TaskRead, TaskPresent, Agree, At, Op
<1>3. ProjectRead(u)' /\ WorkerRead(u)'
  BY DEF LocalUnchanged, ThreadInv, ProjectRead, WorkerRead, Agree, At, Op
<1>4. ListRead(u)'
  BY DEF LocalUnchanged, ThreadInv, ListRead, Listed, TasksOfProject, TasksOfWorker, Agree,
         At, Op
<1> QED
  BY <1>1, <1>2, <1>3, <1>4 DEF ThreadInv

\* A step of one thread that does not commit.
LEMMA FrameAll ==
    ASSUME IInv, NEW t \in Threads, db' = db,
           \A u \in Threads \ {t} : LocalUnchanged(u), ThreadInv(t)'
    PROVE  \A u \in Threads : ThreadInv(u)'
<1>1. ASSUME NEW u \in Threads, u # t PROVE ThreadInv(u)'
  <2>1. ThreadInv(u) /\ LocalUnchanged(u) /\ Agree(db, db', rlock[u])
    BY <1>1 DEF IInv, Agree
  <2> QED BY <2>1, <1>1, Frame
<1> QED BY <1>1

\* Every way of leaving call() without a commit is sound, as long as the answer
\* is no surprise.
LEMMA ReturnInv ==
    ASSUME IInv, NEW t \in Threads, NEW kind \in Kinds \ {"constraint"}, NEW val,
           kind = "not_persistent" => Op(t) = "del_project",
           Return(t, Out(kind, val))
    PROVE  IInv'
<1> USE DEF Return
<1>1. CallsTyped'
  <2>1. /\ db' \in StoreType /\ image' \in StoreType
        /\ rlock' \in [Threads -> SUBSET Tables] /\ wlock' \in [Threads -> SUBSET Tables]
        /\ current' \subseteq Threads
    BY DEF IInv, CallsTyped, Rollback, Release
  <2>2. /\ pc' \in [Threads -> Labels] /\ req' = [u \in Threads |-> req'[u]]
        /\ task' \in [Threads -> SUBSET TaskRow] /\ tasks' \in [Threads -> SUBSET Nat]
    BY DEF IInv, CallsTyped, Labels
  <2>3. /\ out' = [u \in Threads |-> Out(out'[u].kind, out'[u].val)]
        /\ \A u \in Threads : out'[u].kind \in Kinds
    BY DEF IInv, CallsTyped, Out
  <2> QED BY <2>1, <2>2, <2>3 DEF CallsTyped
<1>2. DatabaseInv'
  BY RollbackInv DEF IInv
<1>3. db' = db /\ Consistent'
  BY DEF IInv, Consistent, Rollback, IdsKept
<1>4. \A u \in Threads \ {t} : LocalUnchanged(u)
  BY DEF IInv, CallsTyped, LocalUnchanged, Rollback, Release
<1>5. ThreadInv(t)'
  BY DEF IInv, CallsTyped, ThreadInv, Changing, TaskRead, ProjectRead, WorkerRead, TaskPresent,
         ListRead, Idle, Outcome, At, Op, Out, Rollback, Release
<1> QED
  BY <1>1, <1>2, <1>3, <1>4, <1>5, FrameAll DEF IInv

-----------------------------------------------------------------------------
(* Steps that leave the tables alone *)

\* A request arrives, a transaction begins, a response is sent.
LEMMA ControlInv ==
    ASSUME IInv, NEW t \in Threads, (\E r : CallWith(t, r)) \/ OpenTx(t) \/ Finish(t)
    PROVE  IInv'
<1> USE DEF Call, CallWith, OpenTx, Finish, Goto, At
<1>1. DatabaseInv'
  <2>1. CASE OpenTx(t)
    BY <2>1, BeginInv DEF IInv
  <2>2. CASE dbVars' = dbVars
    BY <2>2 DEF IInv, dbVars, DatabaseInv, LockTypes, LocksHeld, LocksExclude, CacheCurrent,
                CacheAhead
  <2> QED BY <2>1, <2>2
<1>2. db' = db /\ image' = image /\ rlock' = rlock /\ wlock' = wlock
  BY DEF dbVars, Begin
<1>3. CallsTyped'
  <2>1. pc' \in [Threads -> Labels] /\ req' = [u \in Threads |-> req'[u]]
    BY DEF IInv, CallsTyped, Labels
  <2>2. /\ out' = [u \in Threads |-> Out(out'[u].kind, out'[u].val)]
        /\ \A u \in Threads : out'[u].kind \in Kinds
    <3>1. CASE out' = out
      BY <3>1 DEF IInv, CallsTyped
    <3>2. CASE out' = [out EXCEPT ![t] = NoOut]
      BY <3>2 DEF IInv, CallsTyped, Out, NoOut, Kinds
    <3> QED BY <3>1, <3>2
  <2>3. task' = task /\ tasks' = tasks
    OBVIOUS
  <2>4. current' \subseteq Threads
    BY <1>1 DEF DatabaseInv, LockTypes
  <2> QED BY <1>2, <2>1, <2>2, <2>3, <2>4 DEF IInv, CallsTyped
<1>4. Consistent'
  BY <1>2 DEF IInv, Consistent
<1>5. \A u \in Threads \ {t} : LocalUnchanged(u)
  BY <1>2 DEF IInv, CallsTyped, LocalUnchanged
<1>6. ThreadInv(t)'
  <2>1. task[t] = {}
    BY DEF IInv, CallsTyped, ThreadInv, Idle
  <2>2. pc'[t] \in {"call", "open", "done", "idle"} /\ task'[t] = {} /\ wlock[t] = {}
    BY <2>1 DEF IInv, CallsTyped, ThreadInv, Changing
  <2>3. Changing(t)' /\ TaskRead(t)' /\ ProjectRead(t)' /\ WorkerRead(t)'
        /\ TaskPresent(t)' /\ ListRead(t)' /\ Idle(t)'
    BY <1>2, <2>2 DEF Changing, TaskRead, ProjectRead, WorkerRead, TaskPresent, ListRead, Idle
  <2>4. Outcome(t)'
    <3>1. CASE out' = out /\ pc[t] \in {"idle", "call"} /\ pc'[t] \in {"call", "open"}
      BY <3>1 DEF IInv, ThreadInv, Outcome
    <3>2. CASE out' = [out EXCEPT ![t] = NoOut]
      BY <3>2 DEF IInv, CallsTyped, Outcome, NoOut
    <3> QED BY <3>1, <3>2 DEF IInv, CallsTyped
  <2> QED
    BY <2>3, <2>4 DEF ThreadInv
<1> QED
  BY <1>1, <1>2, <1>3, <1>4, <1>5, <1>6, FrameAll DEF IInv

-----------------------------------------------------------------------------
(* Statements that read *)

\* The next statement names tables.
LEMMA ReadsTyped == ASSUME NEW t \in Threads PROVE Reads(t) \in SUBSET Tables
BY DEF Reads, Tables, FindReads, LoadReads

\* What the statements that read have in common.
LEMMA SelectStep ==
    ASSUME IInv, NEW t \in Threads, Select(t, Reads(t)), req' = req,
           \E label \in Labels : Goto(t, label),
           \E rows \in SUBSET TaskRow : task' = [task EXCEPT ![t] = rows],
           \E ids \in SUBSET Nat : tasks' = [tasks EXCEPT ![t] = ids],
           \E val : out' = [out EXCEPT ![t].val = val],
           ThreadInv(t)'
    PROVE  IInv'
<1> USE DEF Select, Goto
<1>1. DatabaseInv'
  BY ReadsTyped, SelectInv DEF IInv
<1>2. CallsTyped'
  <2>1. pc' \in [Threads -> Labels] /\ task' \in [Threads -> SUBSET TaskRow]
        /\ tasks' \in [Threads -> SUBSET Nat]
    <3>1. /\ pc \in [Threads -> Labels] /\ task \in [Threads -> SUBSET TaskRow]
          /\ tasks \in [Threads -> SUBSET Nat]
      BY DEF IInv, CallsTyped
    <3> QED BY <3>1
  <2>2. /\ out' = [u \in Threads |-> Out(out'[u].kind, out'[u].val)]
        /\ \A u \in Threads : out'[u].kind \in Kinds
    <3>1. /\ out = [u \in Threads |-> Out(out[u].kind, out[u].val)]
          /\ \A u \in Threads : out[u].kind \in Kinds
      BY DEF IInv, CallsTyped
    <3>2. PICK val : out' = [out EXCEPT ![t].val = val]
      OBVIOUS
    <3> QED BY <3>1, <3>2 DEF Out
  <2>3. rlock' \in [Threads -> SUBSET Tables]
    BY <1>1 DEF DatabaseInv, LockTypes
  <2> QED BY <2>1, <2>2, <2>3 DEF IInv, CallsTyped
<1>3. Consistent'
  BY DEF IInv, Consistent
<1>4. \A u \in Threads \ {t} : LocalUnchanged(u)
  BY DEF IInv, CallsTyped, LocalUnchanged
<1> QED
  BY <1>1, <1>2, <1>3, <1>4, FrameAll DEF IInv

\* find<Project> in AddTask and GetProject
LEMMA FindProjectInv == ASSUME IInv, NEW t \in Threads, FindProject(t) PROVE IInv'
<1> USE DEF FindProject
<1>1. CASE req[t].id \notin db.projects
  BY <1>1, ReturnInv DEF Kinds
<1>2. CASE req[t].id \in db.projects
  <2>1. {r.id : r \in TasksOfProject(db, req[t].id)} \in SUBSET Nat
    BY DEF IInv, CallsTyped, StoreType, TaskRow, TasksOfProject
  <2>2. /\ task' = [task EXCEPT ![t] = task[t]] /\ task[t] \in SUBSET TaskRow
        /\ out' = [out EXCEPT ![t].val = out[t].val]
    BY <1>2 DEF IInv, CallsTyped, Out
  <2>3. /\ pc[t] = "open" /\ wlock[t] = {} /\ out[t].kind = "none" /\ out[t].val = {}
        /\ TaskRead(t)
    BY DEF IInv, ThreadInv, Outcome, Changing, At
  <2>4. rlock'[t] = rlock[t] \cup {"Project", "Task"}
    BY <1>2 DEF Select, Reads, FindReads, At, IInv, CallsTyped
  <2>5. Changing(t)' /\ TaskRead(t)' /\ Outcome(t)'
    BY <1>2, <2>3, <2>4 DEF IInv, CallsTyped, Changing, TaskRead, Outcome, Goto, Op, Select
  <2>6. ProjectRead(t)' /\ WorkerRead(t)' /\ TaskPresent(t)' /\ Idle(t)'
    BY <1>2, <2>4 DEF IInv, CallsTyped, ProjectRead, WorkerRead, TaskPresent, Idle, Goto, At, Op,
                      Select
  <2>7. ListRead(t)'
    <3>1. CASE Op(t) = "get_project"
      <4>1. tasks'[t] = {r.id : r \in Listed(t, db)} /\ out'[t].val = {} /\ db' = db
        BY <1>2, <2>3, <3>1 DEF IInv, CallsTyped, Listed, Select
      <4>2. Listed(t, db)' = Listed(t, db)
        BY <1>2 DEF Listed, Op, Select, TasksOfProject, TasksOfWorker
      <4> QED
        BY <2>4, <4>1, <4>2 DEF ListRead
    <3>2. CASE Op(t) # "get_project"
      BY <1>2, <3>2 DEF IInv, CallsTyped, ListRead, Goto, At, Op
    <3> QED BY <3>1, <3>2
  <2>8. \E label \in Labels : Goto(t, label)
    BY <1>2 DEF Labels
  <2> QED
    BY <1>2, <2>1, <2>2, <2>5, <2>6, <2>7, <2>8, SelectStep DEF ThreadInv
<1> QED BY <1>1, <1>2

\* find<Worker> in GetWorker
LEMMA FindWorkerInv == ASSUME IInv, NEW t \in Threads, FindWorker(t) PROVE IInv'
<1> USE DEF FindWorker
<1>1. CASE req[t].id \notin db.workers
  BY <1>1, ReturnInv DEF Kinds
<1>2. CASE req[t].id \in db.workers
  <2>1. {r.id : r \in TasksOfWorker(db, req[t].id)} \in SUBSET Nat
    BY DEF IInv, CallsTyped, StoreType, TaskRow, TasksOfWorker
  <2>2. /\ task' = [task EXCEPT ![t] = task[t]] /\ task[t] \in SUBSET TaskRow
        /\ out' = [out EXCEPT ![t].val = out[t].val]
    BY <1>2 DEF IInv, CallsTyped, Out
  <2>3. /\ pc[t] = "open" /\ wlock[t] = {} /\ out[t].kind = "none" /\ out[t].val = {}
        /\ TaskRead(t)
    BY DEF IInv, ThreadInv, Outcome, Changing, At
  <2>4. rlock'[t] = rlock[t] \cup {"Worker", "Task"}
    BY <1>2 DEF Select, Reads, FindReads, At, IInv, CallsTyped
  <2>5. Changing(t)' /\ TaskRead(t)' /\ Outcome(t)'
    BY <1>2, <2>3, <2>4 DEF IInv, CallsTyped, Changing, TaskRead, Outcome, Goto, Op, Select
  <2>6. ProjectRead(t)' /\ WorkerRead(t)' /\ TaskPresent(t)' /\ Idle(t)'
    BY <1>2, <2>4 DEF IInv, CallsTyped, ProjectRead, WorkerRead, TaskPresent, Idle, Goto, At, Op,
                      Select
  <2>7. ListRead(t)'
    <3>1. CASE Op(t) = "get_worker"
      <4>1. tasks'[t] = {r.id : r \in Listed(t, db)} /\ out'[t].val = {} /\ db' = db
        BY <1>2, <2>3, <3>1 DEF IInv, CallsTyped, Listed, Select
      <4>2. Listed(t, db)' = Listed(t, db)
        BY <1>2 DEF Listed, Op, Select, TasksOfProject, TasksOfWorker
      <4> QED
        BY <2>4, <4>1, <4>2 DEF ListRead
    <3>2. CASE Op(t) # "get_worker"
      BY <1>2, <3>2 DEF IInv, CallsTyped, ListRead, Goto, At, Op
    <3> QED BY <3>1, <3>2
  <2>8. \E label \in Labels : Goto(t, label)
    BY <1>2 DEF Labels
  <2> QED
    BY <1>2, <2>1, <2>2, <2>5, <2>6, <2>7, <2>8, SelectStep DEF ThreadInv
<1> QED BY <1>1, <1>2

\* find<Task> in AssignTask and UnassignTask
LEMMA FindTaskInv == ASSUME IInv, NEW t \in Threads, FindTask(t) PROVE IInv'
<1> USE DEF FindTask
<1>1. CASE ~ (Op(t) = "assign_task" \/ HasTask(db, req[t].id))
  BY <1>1, ReturnInv DEF Kinds
<1>2. CASE Op(t) = "assign_task" \/ HasTask(db, req[t].id)
  <2> DEFINE rows == {r \in db.tasks : r.id = req[t].id}
  <2>1. rows \in SUBSET TaskRow
    BY DEF IInv, CallsTyped, StoreType
  <2>2. /\ tasks' = [tasks EXCEPT ![t] = tasks[t]] /\ tasks[t] \in SUBSET Nat
        /\ out' = [out EXCEPT ![t].val = out[t].val]
    BY <1>2 DEF IInv, CallsTyped, Out
  <2>3. pc[t] = "open" /\ wlock[t] = {} /\ out[t].kind = "none"
    BY DEF IInv, ThreadInv, Outcome, Changing, At
  <2>4. rlock'[t] = rlock[t] \cup {"Task"}
    BY <1>2 DEF Select, Reads, FindReads, At, IInv, CallsTyped
  <2>5. task'[t] = rows /\ pc'[t] = "found" /\ req' = req /\ db' = db /\ out' = out
        /\ wlock' = wlock
    BY <1>2 DEF Goto, Select, IInv, CallsTyped
  <2>6. Changing(t)' /\ TaskRead(t)' /\ Outcome(t)'
    BY <2>3, <2>4, <2>5 DEF Changing, TaskRead, Outcome, Op
  <2>7. ProjectRead(t)' /\ WorkerRead(t)' /\ ListRead(t)' /\ Idle(t)'
    BY <2>5 DEF ProjectRead, WorkerRead, ListRead, Idle, At, Op
  <2>8. TaskPresent(t)'
    BY <1>2, <2>5 DEF TaskPresent, HasTask, At, Op
  <2>9. \E label \in Labels : Goto(t, label)
    BY <1>2 DEF Labels
  <2> QED
    BY <1>2, <2>1, <2>2, <2>6, <2>7, <2>8, <2>9, SelectStep DEF ThreadInv
<1> QED BY <1>1, <1>2

\* find<Worker> in AssignTask
LEMMA FindAssigneeInv == ASSUME IInv, NEW t \in Threads, FindAssignee(t) PROVE IInv'
<1> USE DEF FindAssignee
<1> DEFINE both == task[t] # {} /\ req[t].worker \in db.workers
<1>1. CASE ~ both
  BY <1>1, ReturnInv DEF Kinds
<1>2. CASE both
  <2>1. /\ tasks' = [tasks EXCEPT ![t] = tasks[t]] /\ tasks[t] \in SUBSET Nat
        /\ task' = [task EXCEPT ![t] = task[t]] /\ task[t] \in SUBSET TaskRow
        /\ out' = [out EXCEPT ![t].val = out[t].val]
    BY <1>2 DEF IInv, CallsTyped, Out
  <2>2. pc[t] = "found" /\ wlock[t] = {} /\ out[t].kind = "none" /\ TaskRead(t)
    BY DEF IInv, ThreadInv, Outcome, Changing, At
  <2>3. rlock'[t] = rlock[t] \cup {"Worker", "Task"}
    BY <1>2 DEF Select, Reads, FindReads, At, IInv, CallsTyped
  <2>4. task' = task /\ pc'[t] = "checked" /\ req' = req /\ db' = db /\ out' = out
        /\ wlock' = wlock
    BY <1>2 DEF Goto, Select, IInv, CallsTyped
  <2>5. Changing(t)' /\ TaskRead(t)' /\ Outcome(t)'
    BY <2>2, <2>3, <2>4 DEF Changing, TaskRead, Outcome, Op
  <2>6. ProjectRead(t)' /\ ListRead(t)' /\ Idle(t)'
    BY <2>4 DEF ProjectRead, ListRead, Idle, At, Op
  <2>7. WorkerRead(t)' /\ TaskPresent(t)'
    BY <1>2, <2>3, <2>4 DEF WorkerRead, TaskPresent, At, Op
  <2>8. \E label \in Labels : Goto(t, label)
    BY <1>2 DEF Labels
  <2> QED
    BY <1>2, <2>1, <2>5, <2>6, <2>7, <2>8, SelectStep DEF ThreadInv
<1> QED BY <1>1, <1>2

\* A LazyWeak pointer read from a container finds its row.
LEMMA LoadTaskInv == ASSUME IInv, NEW t \in Threads, LoadTask(t) PROVE IInv'
<1> USE DEF LoadTask
<1> DEFINE i   == NextTask(t)
           row == TaskWithId(db, i)
<1>1. i \in tasks[t]
  BY DEF NextTask
<1>2. /\ pc[t] = "load" /\ wlock[t] = {} /\ out[t].kind = "none" /\ TaskRead(t)
      /\ ListRead(t) /\ At(t, "load", {"get_project", "get_worker"})
  BY DEF IInv, ThreadInv, Outcome, Changing, At
<1>3. Listed(t, db) \subseteq db.tasks
  BY DEF Listed, TasksOfProject, TasksOfWorker
<1>4. \E r \in db.tasks : r.id = i
  BY <1>1, <1>2, <1>3 DEF ListRead
<1>5. row \in db.tasks /\ row.id = i
  BY <1>4 DEF TaskWithId
<1>6. HasTask(db, i)
  BY <1>4 DEF HasTask
<1>7. /\ tasks' = [tasks EXCEPT ![t] = tasks[t] \ {i}] /\ tasks[t] \ {i} \in SUBSET Nat
      /\ task' = [task EXCEPT ![t] = task[t]] /\ task[t] \in SUBSET TaskRow
      /\ out' = [out EXCEPT ![t].val = out[t].val \cup {row}]
      /\ Goto(t, "load") /\ "load" \in Labels
  BY <1>2, <1>6 DEF IInv, CallsTyped, Out, Goto, Labels
<1>8. rlock[t] \subseteq rlock'[t]
  BY <1>6 DEF Select, IInv, CallsTyped
<1>9. /\ task' = task /\ pc' = pc /\ req' = req /\ db' = db /\ wlock' = wlock
      /\ tasks'[t] = tasks[t] \ {i}
      /\ out'[t].val = out[t].val \cup {row} /\ out'[t].kind = out[t].kind
  <2>1. task' = task /\ pc' = pc /\ req' = req /\ db' = db /\ wlock' = wlock
    BY <1>6 DEF Select
  <2>2. tasks'[t] = tasks[t] \ {i}
    BY <1>7 DEF IInv, CallsTyped
  <2>3. out'[t].val = out[t].val \cup {row} /\ out'[t].kind = out[t].kind
    <3> HIDE DEF row
    <3> QED BY <1>7 DEF IInv, CallsTyped, Out
  <2> QED BY <2>1, <2>2, <2>3
<1>10. Changing(t)' /\ TaskRead(t)' /\ Outcome(t)'
  BY <1>2, <1>8, <1>9 DEF Changing, TaskRead, Outcome, Op
<1>11. ProjectRead(t)' /\ WorkerRead(t)' /\ TaskPresent(t)' /\ Idle(t)'
  BY <1>2, <1>9 DEF ProjectRead, WorkerRead, TaskPresent, Idle, At, Op
<1>12. ListRead(t)'
  <2>1. Listed(t, db)' = Listed(t, db)
    BY <1>9 DEF Listed, Op, TasksOfProject, TasksOfWorker
  <2>2. {r.id : r \in out[t].val \cup {row}} \cup (tasks[t] \ {i}) =
            {r.id : r \in out[t].val} \cup tasks[t]
    BY <1>1, <1>5
  <2> QED
    BY <1>2, <1>5, <1>8, <1>9, <2>1, <2>2 DEF ListRead
<1> QED
  BY <1>6, <1>7, <1>10, <1>11, <1>12, SelectStep DEF ThreadInv

-----------------------------------------------------------------------------
(* Statements that change a table *)

\* The thread that is about to write works on the committed tables.
LEMMA AloneBeforeWriting ==
    ASSUME IInv, NEW t \in Threads, NEW W \in SUBSET Tables, W # {},
           pc[t] # "commit", Blockers(t, {}, W) = {}
    PROVE  image = db /\ wlock[t] = {}
<1>1. wlock[t] = {}
  BY DEF IInv, ThreadInv, Changing
<1>2. \A u \in Threads \ {t} : wlock[u] = {}
  BY ModifyBlocksNone DEF IInv
<1> QED
  BY <1>1, <1>2 DEF IInv, DatabaseInv, CacheCurrent

\* What the statements that write have in common.
LEMMA ModifyStep ==
    ASSUME IInv, NEW t \in Threads, NEW W \in SUBSET Tables, W # {},
           pc[t] \in {"open", "found", "checked"}, Modify(t, W, image'),
           Sound(image, image'), Agree(image, image', Tables \ W),
           req' = req, task' = task, tasks' = tasks, Goto(t, "commit"),
           \E val : out' = [out EXCEPT ![t].val = val]
    PROVE  IInv'
<1>1. image = db /\ wlock[t] = {}
  BY AloneBeforeWriting DEF Modify
<1>2. DatabaseInv'
  BY <1>1, ModifyInv DEF IInv
<1>3. /\ db' = db /\ rlock' = rlock /\ current' = current
      /\ wlock' = [wlock EXCEPT ![t] = W] /\ wlock'[t] = W
  BY <1>1 DEF Modify, IInv, CallsTyped
<1>4. /\ out' = [u \in Threads |-> Out(out'[u].kind, out'[u].val)]
      /\ \A u \in Threads : out'[u].kind = out[u].kind
      /\ \A u \in Threads \ {t} : out'[u] = out[u]
  BY DEF IInv, CallsTyped, Out
<1>5. CallsTyped'
  <2>1. pc' \in [Threads -> Labels]
    BY DEF IInv, CallsTyped, Goto, Labels
  <2>2. wlock' \in [Threads -> SUBSET Tables]
    BY <1>2 DEF DatabaseInv, LockTypes
  <2> QED BY <1>3, <1>4, <2>1, <2>2 DEF IInv, CallsTyped, Sound
<1>6. Consistent'
  BY <1>1, <1>3 DEF IInv, Consistent, Sound
<1>7. \A u \in Threads \ {t} : LocalUnchanged(u)
  BY <1>3, <1>4 DEF IInv, CallsTyped, LocalUnchanged, Goto
<1>8. pc'[t] = "commit" /\ out[t].kind = "none"
  BY DEF IInv, CallsTyped, ThreadInv, Outcome, Goto
<1>9. ThreadInv(t)'
  <2>1. Changing(t)' /\ Outcome(t)'
    BY <1>3, <1>4, <1>8 DEF Changing, Outcome
  <2>2. TaskRead(t)'
    BY <1>3 DEF IInv, ThreadInv, TaskRead
  <2>3. ProjectRead(t)' /\ WorkerRead(t)' /\ TaskPresent(t)' /\ ListRead(t)' /\ Idle(t)'
    BY <1>8 DEF ProjectRead, WorkerRead, TaskPresent, ListRead, Idle, At
  <2> QED BY <2>1, <2>2, <2>3 DEF ThreadInv
<1> QED
  BY <1>2, <1>3, <1>5, <1>6, <1>7, <1>9, FrameAll DEF IInv

\* AddProject, AddWorker and AddTask: persist()
LEMMA PersistInv ==
    ASSUME IInv, NEW t \in Threads, PersistProject(t) \/ PersistWorker(t) \/ PersistTask(t)
    PROVE  IInv'
<1> USE DEF Persist
<1>1. image \in StoreType /\ ForeignKeysHold(image)
  BY DEF IInv, CallsTyped, Consistent
<1>2. CASE PersistProject(t)
  <2>1. pc[t] = "open" /\ Writes(t) = {"Project"}
    BY <1>2 DEF PersistProject, Writes, At
  <2>4. /\ image' = InsertProject(image)
        /\ Modify(t, {"Project"}, image') /\ Goto(t, "commit")
        /\ req' = req /\ task' = task /\ tasks' = tasks
        /\ out' = [out EXCEPT ![t].val = Named({image.lastProject + 1})]
    BY <1>2, <2>1 DEF PersistProject, Modify
  <2>5. Sound(image, image') /\ Agree(image, image', Tables \ {"Project"})
    BY <1>1, <2>4, InsertProjectSound
  <2>6. {"Project"} \in SUBSET Tables /\ {"Project"} # {}
    BY DEF Tables
  <2> QED
    BY <2>1, <2>4, <2>5, <2>6, ModifyStep
<1>3. CASE PersistWorker(t)
  <2>1. pc[t] = "open" /\ Writes(t) = {"Worker"}
    BY <1>3 DEF PersistWorker, Writes, At
  <2>4. /\ image' = InsertWorker(image)
        /\ Modify(t, {"Worker"}, image') /\ Goto(t, "commit")
        /\ req' = req /\ task' = task /\ tasks' = tasks
        /\ out' = [out EXCEPT ![t].val = Named({image.lastWorker + 1})]
    BY <1>3, <2>1 DEF PersistWorker, Modify
  <2>5. Sound(image, image') /\ Agree(image, image', Tables \ {"Worker"})
    BY <1>1, <2>4, InsertWorkerSound
  <2>6. {"Worker"} \in SUBSET Tables /\ {"Worker"} # {}
    BY DEF Tables
  <2> QED
    BY <2>1, <2>4, <2>5, <2>6, ModifyStep
<1>4. CASE PersistTask(t)
  <2>1. pc[t] = "found" /\ Writes(t) = {"Task"}
    BY <1>4 DEF PersistTask, Writes, At
  <2>2. image = db
    BY <1>4, <2>1, AloneBeforeWriting DEF PersistTask, Modify, Tables
  <2>3. req[t].id \in image.projects
    BY <1>4, <2>2 DEF PersistTask, IInv, ThreadInv, ProjectRead
  <2>4. /\ image' = InsertTask(image, req[t].id)
        /\ Modify(t, {"Task"}, image') /\ Goto(t, "commit")
        /\ req' = req /\ task' = task /\ tasks' = tasks
        /\ out' = [out EXCEPT ![t].val = Named({image.lastTask + 1})]
    BY <1>4, <2>1 DEF PersistTask, Modify
  <2>5. Sound(image, image') /\ Agree(image, image', Tables \ {"Task"})
    BY <1>1, <2>4, <2>3, InsertTaskSound
  <2>6. {"Task"} \in SUBSET Tables /\ {"Task"} # {}
    BY DEF Tables
  <2> QED
    BY <2>1, <2>4, <2>5, <2>6, ModifyStep
<1> QED BY <1>2, <1>3, <1>4

\* DelProject: erase()
LEMMA EraseProjectInv == ASSUME IInv, NEW t \in Threads, EraseProject(t) PROVE IInv'
<1> USE DEF EraseProject
<1>1. CASE req[t].id \notin image.projects
  BY <1>1, ReturnInv DEF Throw, Kinds, At
<1>2. CASE req[t].id \in image.projects
  <2>1. image \in StoreType /\ ForeignKeysHold(image)
    BY DEF IInv, CallsTyped, Consistent
  <2>2. pc[t] = "open" /\ Writes(t) = {"Project", "Task"}
    BY DEF Writes, At
  <2>3. out' = [out EXCEPT ![t].val = out[t].val]
    BY <1>2 DEF IInv, CallsTyped, Out
  <2>4. /\ image' = DeleteProject(image, req[t].id)
        /\ Modify(t, {"Project", "Task"}, image')
        /\ Goto(t, "commit") /\ req' = req /\ task' = task /\ tasks' = tasks
    BY <1>2, <2>2 DEF Modify
  <2>5. Sound(image, image') /\ Agree(image, image', Tables \ {"Project", "Task"})
    BY <2>1, <2>4, DeleteProjectSound
  <2>6. {"Project", "Task"} \in SUBSET Tables /\ {"Project", "Task"} # {}
    BY DEF Tables
  <2> QED
    BY <2>2, <2>3, <2>4, <2>5, <2>6, ModifyStep
<1> QED BY <1>1, <1>2

\* AssignTask and UnassignTask: update()
LEMMA SetWorkerInv ==
    ASSUME IInv, NEW t \in Threads, AssignWorker(t) \/ UnassignWorker(t)
    PROVE  IInv'
<1>1. PICK w : /\ SetWorker(t, w) /\ w \in db.workers \cup {NULL}
               /\ pc[t] \in {"found", "checked"} /\ task[t] # {} /\ Writes(t) = {"Task"}
  <2>1. CASE AssignWorker(t)
    BY <2>1 DEF AssignWorker, IInv, ThreadInv, WorkerRead, TaskPresent, At, Writes
  <2>2. CASE UnassignWorker(t)
    BY <2>2 DEF UnassignWorker, IInv, ThreadInv, TaskPresent, At, Writes
  <2> QED BY <2>1, <2>2
<1>2. image = db
  <2>1. Blockers(t, {}, {"Task"}) = {}
    BY <1>1 DEF SetWorker, Ready, WaitsFor, Blockers
  <2>2. {"Task"} \in SUBSET Tables /\ {"Task"} # {}
    BY DEF Tables
  <2> QED BY <1>1, <2>1, <2>2, AloneBeforeWriting
<1>3. /\ task[t] \subseteq image.tasks /\ \A row \in task[t] : row.id = req[t].id
      /\ HasTask(image, req[t].id)
  BY <1>1, <1>2 DEF IInv, ThreadInv, TaskRead, HasTask
<1>4. PICK row \in task[t] :
        Modify(t, Writes(t), UpdateTask(image, [row EXCEPT !.worker = w]))
  BY <1>1, <1>3 DEF SetWorker
<1>5. image \in StoreType /\ ForeignKeysHold(image)
  BY DEF IInv, CallsTyped, Consistent
<1>6. row \in image.tasks /\ w \in image.workers \cup {NULL}
  BY <1>1, <1>2, <1>3
<1>7. out' = [out EXCEPT ![t].val = out[t].val]
  BY <1>1, <1>3 DEF SetWorker, IInv, CallsTyped, Out
<1>8. Goto(t, "commit") /\ req' = req /\ task' = task /\ tasks' = tasks
  BY <1>1, <1>3 DEF SetWorker
<1>9. image' = UpdateTask(image, [row EXCEPT !.worker = w])
  BY <1>4 DEF Modify
<1>10. {"Task"} \in SUBSET Tables /\ {"Task"} # {}
  BY DEF Tables
<1>11. Modify(t, {"Task"}, image')
  BY <1>1, <1>4, <1>9 DEF Modify
<1>12. Sound(image, image') /\ Agree(image, image', Tables \ {"Task"})
  BY <1>5, <1>6, <1>9, UpdateTaskSound
<1> QED
  BY <1>1, <1>7, <1>8, <1>10, <1>11, <1>12, ModifyStep

-----------------------------------------------------------------------------
(* The remaining steps *)

\* A commit never meets a dangling foreign key, and changes nothing that another
\* thread has read.
LEMMA CommitTxInv ==
    ASSUME IInv, NEW t \in Threads, CommitTx(t)
    PROVE  IInv' /\ IdsKept(db, db')
<1> USE DEF CommitTx
<1>1. ForeignKeysHold(image) /\ IdsKept(db, image)
  BY DEF IInv, Consistent
<1>2. Commit(t) /\ Goto(t, "done") /\ req' = req
  BY <1>1
<1>3. /\ out' = [out EXCEPT ![t].kind = "ok"]
      /\ task' = [task EXCEPT ![t] = {}] /\ tasks' = [tasks EXCEPT ![t] = {}]
  BY <1>1
<1>4. db' = image /\ image' = image
  BY <1>2 DEF Commit
<1>5. DatabaseInv'
  BY <1>2, CommitInv DEF IInv
<1>6. /\ out' = [u \in Threads |-> Out(out'[u].kind, out'[u].val)]
      /\ out'[t].kind = "ok"
      /\ \A u \in Threads \ {t} : out'[u] = out[u]
  <2>1. out = [u \in Threads |-> Out(out[u].kind, out[u].val)]
    BY DEF IInv, CallsTyped
  <2>2. out'[t] = Out("ok", out[t].val) /\ \A u \in Threads \ {t} : out'[u] = out[u]
    BY <1>3, <2>1 DEF Out
  <2>3. out' = [u \in Threads |-> out'[u]]
    BY <1>3, <2>1
  <2>4. \A u \in Threads : out'[u] = Out(out'[u].kind, out'[u].val)
    BY <2>1, <2>2 DEF Out
  <2> QED BY <2>2, <2>3, <2>4 DEF Out
<1>7. CallsTyped'
  <2>1. \A u \in Threads : out'[u].kind \in Kinds
    BY <1>6 DEF IInv, CallsTyped, Kinds
  <2>2. pc' \in [Threads -> Labels]
    BY <1>2 DEF IInv, CallsTyped, Goto, Labels
  <2>3. task' \in [Threads -> SUBSET TaskRow] /\ tasks' \in [Threads -> SUBSET Nat]
    BY <1>3 DEF IInv, CallsTyped
  <2> QED
    BY <1>2, <1>4, <1>5, <1>6, <2>1, <2>2, <2>3
       DEF IInv, CallsTyped, DatabaseInv, LockTypes
<1>8. Consistent'
  BY <1>1, <1>4 DEF Consistent, IdsKept
<1>9. ThreadInv(t)'
  <2>1. pc'[t] = "done" /\ wlock'[t] = {} /\ task'[t] = {}
    BY <1>2, <1>3 DEF IInv, CallsTyped, Goto, Commit, Release
  <2> QED
    BY <1>6, <2>1 DEF ThreadInv, Changing, TaskRead, ProjectRead, WorkerRead, TaskPresent,
                      ListRead, Idle, Outcome, At
<1>10. ASSUME NEW u \in Threads, u # t PROVE ThreadInv(u)'
  <2>1. LocalUnchanged(u)
    BY <1>2, <1>3, <1>6, <1>10 DEF IInv, CallsTyped, LocalUnchanged, Goto, Commit, Release
  <2>2. wlock[t] # {}
    BY DEF IInv, ThreadInv, Changing
  <2>3. Agree(db, db', rlock[u])
    BY <1>2, <1>10, <2>2, CommitKeepsReads DEF IInv
  <2> QED
    BY <2>1, <2>3, Frame DEF IInv
<1> QED
  BY <1>1, <1>4, <1>5, <1>7, <1>8, <1>9, <1>10 DEF IInv

\* After a crash no thread has read or written anything.
LEMMA CrashInv == ASSUME IInv, LoseCache, NoCalls PROVE IInv'
<1> USE DEF NoCalls
<1>1. DatabaseInv' /\ db' = db /\ image' = db
  BY LoseCacheInv DEF IInv, LoseCache
<1>2. CallsTyped'
  <2>1. /\ out' = [u \in Threads |-> Out(out'[u].kind, out'[u].val)]
        /\ \A u \in Threads : out'[u].kind \in Kinds
    BY DEF NoOut, Out, Kinds
  <2>2. /\ pc' \in [Threads -> Labels] /\ req' = [u \in Threads |-> req'[u]]
        /\ task' \in [Threads -> SUBSET TaskRow] /\ tasks' \in [Threads -> SUBSET Nat]
    BY DEF Labels
  <2> QED
    BY <1>1, <2>1, <2>2 DEF IInv, CallsTyped, DatabaseInv, LockTypes
<1>3. Consistent'
  BY <1>1 DEF IInv, Consistent, IdsKept
<1>4. ASSUME NEW t \in Threads PROVE ThreadInv(t)'
  BY DEF LoseCache, ThreadInv, Changing, TaskRead, ProjectRead, WorkerRead, TaskPresent,
         ListRead, Idle, Outcome, At, NoOut
<1> QED BY <1>1, <1>2, <1>3, <1>4 DEF IInv

\* The endpoints that end with their first statement, and the failures
LEMMA AnswerInv ==
    ASSUME IInv, NEW t \in Threads,
           ParseError(t) \/ Debug(t) \/ Serialized(t) \/ QueryTask(t) \/ Collect(t) \/ Deadlock(t)
    PROVE  IInv'
<1>1. PICK kind, val :
         kind \in Kinds \ {"constraint", "not_persistent"} /\ Return(t, Out(kind, val))
  BY DEF ParseError, Debug, Serialized, QueryTask, Collect, Deadlock, Throw, Kinds
<1> QED BY <1>1, ReturnInv

-----------------------------------------------------------------------------
(* The inductive invariant *)

\* It holds when the service starts.
LEMMA InitInv == Init => IInv
<1> SUFFICES ASSUME Init PROVE IInv
  OBVIOUS
<1> USE DEF Init
<1>1. InitialStore \in StoreType /\ ForeignKeysHold(InitialStore)
  BY AccountsAssumption DEF InitialStore, EmptyStore, StoreType, ForeignKeysHold
<1>2. DatabaseInv /\ db = InitialStore /\ image = InitialStore
  BY DatabaseInitInv DEF DatabaseInit
<1>3. CallsTyped
  BY <1>1, <1>2 DEF CallsTyped, DatabaseInv, LockTypes, Labels, NoOut, Out, Kinds
<1>4. Consistent
  BY <1>1, <1>2 DEF Consistent, IdsKept
<1>5. ASSUME NEW t \in Threads PROVE ThreadInv(t)
  BY DEF DatabaseInit, ThreadInv, Changing, TaskRead, ProjectRead, WorkerRead, TaskPresent,
         ListRead, Idle, Outcome, At, NoOut
<1> QED BY <1>2, <1>3, <1>4, <1>5 DEF IInv

\* What a thread does by itself preserves it, and gives no id another meaning.
LEMMA StepInv ==
    ASSUME IInv, NEW t \in Threads, Step(t)
    PROVE  IInv' /\ IdsKept(db, db')
<1>1. CASE CommitTx(t)
  BY <1>1, CommitTxInv
<1>2. CASE ~ CommitTx(t)
  <2>1. IInv'
    BY <1>2, ControlInv, AnswerInv, FindProjectInv, FindWorkerInv, FindTaskInv,
       FindAssigneeInv, LoadTaskInv, PersistInv, EraseProjectInv, SetWorkerInv DEF Step
  <2>2. db' = db
    BY <1>2 DEF Step, ParseError, Debug, OpenTx, PersistProject, PersistWorker,
       PersistTask, EraseProject, AssignWorker, UnassignWorker, SetWorker, FindProject,
       FindWorker, FindTask, FindAssignee, LoadTask, Serialized, QueryTask, Collect,
       Deadlock, Finish, Persist, Throw, Return, Rollback, Begin, Select, Modify, dbVars
  <2> QED BY <2>1, <2>2 DEF IdsKept
<1> QED BY <1>1, <1>2

\* Until it is done with a request it serves no other one.
LEMMA StepKeepsRequest ==
    ASSUME NEW t \in Threads, Step(t), ~ Finish(t)
    PROVE  req' = req
BY DEF Step, ParseError, Debug, OpenTx, PersistProject, PersistWorker, PersistTask,
   EraseProject, AssignWorker, UnassignWorker, SetWorker, FindProject, FindWorker, FindTask,
   FindAssignee, LoadTask, Serialized, QueryTask, Collect, CommitTx, Deadlock, Persist, Throw,
   Return

\* Every step preserves it.
LEMMA NextInv == IInv /\ [Next]_vars => IInv' /\ IdsKept(db, db')
<1> SUFFICES ASSUME IInv, [Next]_vars PROVE IInv' /\ IdsKept(db, db')
  OBVIOUS
<1>1. CASE UNCHANGED vars
  <2> USE <1>1 DEF vars, dbVars, callVars
  <2>1. IInv'
    <3>1. CallsTyped'
      BY DEF IInv, CallsTyped
    <3>2. DatabaseInv'
      BY DEF IInv, DatabaseInv, LockTypes, LocksHeld, LocksExclude, CacheCurrent, CacheAhead
    <3>3. Consistent'
      BY DEF IInv, Consistent
    <3>4. ASSUME NEW t \in Threads PROVE ThreadInv(t)'
      BY Frame DEF LocalUnchanged, IInv, Agree
    <3> QED BY <3>1, <3>2, <3>3, <3>4 DEF IInv
  <2>2. IdsKept(db, db')
    BY DEF IdsKept
  <2> QED BY <2>1, <2>2
<1>2. CASE Crash
  BY <1>2, CrashInv DEF Crash, LoseCache, IdsKept
<1>3. ASSUME NEW t \in Threads, Call(t) PROVE IInv' /\ IdsKept(db, db')
  <2>1. (\E r : CallWith(t, r)) /\ db' = db
    BY <1>3 DEF Call, CallWith, dbVars
  <2> QED
    BY <2>1, ControlInv DEF IdsKept
<1> QED
  BY <1>1, <1>2, <1>3, StepInv DEF Next

\* IInv is an invariant of the endpoints.
THEOREM Invariance == Spec => []IInv
<1>1. Init => IInv
  BY InitInv
<1>2. IInv /\ [Next]_vars => IInv'
  BY NextInv
<1> QED
  BY <1>1, <1>2, PTL DEF Spec

-----------------------------------------------------------------------------
(* What happens around the calls: needed by a component that runs them *)

\* A thread that serves no call may use the database for something else.
LEMMA OutsideInv ==
    ASSUME IInv, NEW t \in Threads, pc[t] = "idle", UNCHANGED callVars,
           Begin(t) \/ Rollback(t) \/ \E R \in SUBSET Tables : Select(t, R)
    PROVE  IInv' /\ UNCHANGED <<db, image>>
<1> USE DEF callVars
<1>1. DatabaseInv'
  BY BeginInv, RollbackInv, SelectInv DEF IInv
<1>2. wlock[t] = {} /\ task[t] = {}
  BY DEF IInv, ThreadInv, Changing, Idle
<1>3. db' = db /\ image' = image
  BY <1>2 DEF Begin, Rollback, Select
<1>4. CallsTyped'
  BY <1>1, <1>3 DEF IInv, CallsTyped, DatabaseInv, LockTypes
<1>5. Consistent'
  BY <1>3 DEF IInv, Consistent
<1>6. \A u \in Threads \ {t} : LocalUnchanged(u)
  BY DEF IInv, CallsTyped, LocalUnchanged, Begin, Rollback, Release, Select
<1>7. wlock'[t] = {}
  BY <1>2 DEF IInv, CallsTyped, Begin, Rollback, Release, Select
<1>8. ThreadInv(t)'
  <2>1. Changing(t)' /\ TaskRead(t)' /\ Idle(t)' /\ Outcome(t)'
    BY <1>2, <1>7 DEF IInv, ThreadInv, Changing, TaskRead, Idle, Outcome, Op
  <2>2. ProjectRead(t)' /\ WorkerRead(t)' /\ TaskPresent(t)' /\ ListRead(t)'
    BY DEF ProjectRead, WorkerRead, TaskPresent, ListRead, At
  <2> QED BY <2>1, <2>2 DEF ThreadInv
<1> QED
  BY <1>1, <1>3, <1>4, <1>5, <1>6, <1>8, FrameAll DEF IInv

\* While no thread serves a call, somebody else may change the tables.
LEMMA QuietInv ==
    ASSUME IInv, \A t \in Threads : pc[t] = "idle" /\ t \notin current,
           UNCHANGED <<rlock, wlock, current, callVars>>,
           db' \in StoreType, ForeignKeysHold(db'), image' = db'
    PROVE  IInv'
<1> USE DEF callVars
<1>1. \A t \in Threads : rlock[t] = {} /\ wlock[t] = {} /\ task[t] = {}
  BY DEF IInv, DatabaseInv, LocksHeld, ThreadInv, Idle
<1>2. DatabaseInv'
  BY <1>1 DEF IInv, DatabaseInv, LockTypes, LocksHeld, LocksExclude, CacheCurrent, CacheAhead
<1>3. CallsTyped'
  BY DEF IInv, CallsTyped
<1>4. Consistent'
  BY DEF Consistent, IdsKept
<1>5. ASSUME NEW t \in Threads PROVE ThreadInv(t)'
  <2>1. Changing(t)' /\ TaskRead(t)' /\ Idle(t)' /\ Outcome(t)'
    BY <1>1 DEF IInv, ThreadInv, Changing, TaskRead, Idle, Outcome, Op
  <2>2. ProjectRead(t)' /\ WorkerRead(t)' /\ TaskPresent(t)' /\ ListRead(t)'
    BY DEF ProjectRead, WorkerRead, TaskPresent, ListRead, At
  <2> QED BY <2>1, <2>2 DEF ThreadInv
<1> QED
  BY <1>2, <1>3, <1>4, <1>5 DEF IInv

\* No call changes users or roles.
LEMMA StepKeepsAccounts ==
    ASSUME IInv, NEW t \in Threads, Step(t), image.users = db.users, image.roles = db.roles
    PROVE  /\ db'.users = db.users /\ db'.roles = db.roles
           /\ image'.users = db.users /\ image'.roles = db.roles
<1>1. image \in StoreType
  BY DEF IInv, CallsTyped
<1>2. CASE PersistProject(t) \/ PersistWorker(t) \/ PersistTask(t)
  BY <1>1, <1>2 DEF PersistProject, PersistWorker, PersistTask, Persist, Modify, InsertProject,
     InsertWorker, InsertTask, StoreType
<1>3. CASE EraseProject(t) \/ AssignWorker(t) \/ UnassignWorker(t)
  <2>1. /\ db' = db
        /\ \/ image' \in {image, db} \/ image' = DeleteProject(image, req[t].id)
           \/ \E row : image' = UpdateTask(image, row)
    BY <1>3 DEF EraseProject, AssignWorker, UnassignWorker, SetWorker, Modify, Throw, Return,
       Rollback
  <2> QED
    BY <1>1, <2>1 DEF DeleteProject, UpdateTask, StoreType
<1>4. CASE CommitTx(t)
  BY <1>4 DEF CommitTx, Commit, Throw, Return, Rollback
<1>5. CASE /\ ~ (PersistProject(t) \/ PersistWorker(t) \/ PersistTask(t))
           /\ ~ (EraseProject(t) \/ AssignWorker(t) \/ UnassignWorker(t))
           /\ ~ CommitTx(t)
  BY <1>5 DEF Step, ParseError, Debug, OpenTx, FindProject, FindWorker, FindTask,
     FindAssignee, LoadTask, Serialized, QueryTask, Collect, Deadlock, Finish, Throw, Return,
     Rollback, Begin, Select, dbVars
<1> QED BY <1>2, <1>3, <1>4, <1>5

\* A call moves its own thread, begins and ends its own transaction, and comes to
\* a commit only for an operation that changes something.
LEMMA StepMoves ==
    ASSUME IInv, NEW t \in Threads, Step(t), ~ Finish(t), pc[t] \notin {"idle", "done"},
           t \in current => pc[t] \in {"open", "found", "checked", "load", "commit"}
    PROVE  /\ \A u \in Threads \ {t} : pc'[u] = pc[u] /\ (u \in current' => u \in current)
           /\ pc'[t] # "idle"
           /\ t \in current' => pc'[t] \in {"open", "found", "checked", "load", "commit"}
           /\ pc'[t] = "commit" => Op(t) \in Posts
           /\ pc'[t] \in {"done", "load"} \/ out'[t].kind = "none"
<1>1. CASE ParseError(t) \/ Debug(t) \/ Serialized(t) \/ QueryTask(t) \/ Collect(t) \/ Deadlock(t)
  BY <1>1 DEF ParseError, Debug, Serialized, QueryTask, Collect, Deadlock, Throw, Return,
     Rollback, Release, IInv, CallsTyped
<1>2. CASE OpenTx(t)
  BY <1>2 DEF OpenTx, Begin, Goto, IInv, CallsTyped, At, ThreadInv, Outcome
<1>3. CASE PersistProject(t) \/ PersistWorker(t) \/ PersistTask(t)
  <2>1. /\ current' = current /\ pc' = [pc EXCEPT ![t] = "commit"] /\ Op(t) \in Posts
        /\ \E val : out' = [out EXCEPT ![t].val = val]
    BY <1>3 DEF PersistProject, PersistWorker, PersistTask, Persist, Modify, Goto, At, Posts
  <2>2. out[t].kind = "none"
    BY DEF IInv, ThreadInv, Outcome
  <2>3. out = [u \in Threads |-> Out(out[u].kind, out[u].val)] /\ pc \in [Threads -> Labels]
    BY DEF IInv, CallsTyped
  <2>4. out'[t].kind = "none"
    BY <2>1, <2>2, <2>3 DEF Out
  <2> QED BY <2>1, <2>3, <2>4
<1>4. CASE EraseProject(t) \/ AssignWorker(t) \/ UnassignWorker(t)
  <2>1. Op(t) \in Posts
    BY <1>4 DEF EraseProject, AssignWorker, UnassignWorker, At, Posts
  <2>2. \/ current' = current /\ pc' = [pc EXCEPT ![t] = "commit"] /\ out' = out
        \/ current' = current \ {t} /\ pc' = [pc EXCEPT ![t] = "done"]
    BY <1>4 DEF EraseProject, AssignWorker, UnassignWorker, SetWorker, Modify, Goto, Throw,
       Return, Rollback, Release
  <2>3. out[t].kind = "none" /\ pc \in [Threads -> Labels]
    BY DEF IInv, ThreadInv, Outcome, CallsTyped
  <2> QED BY <2>1, <2>2, <2>3
<1>5. CASE FindProject(t) \/ FindWorker(t) \/ FindTask(t) \/ FindAssignee(t)
  <2>1. \/ /\ current' = current /\ out' = out
           /\ \E label \in {"found", "checked", "load"} : pc' = [pc EXCEPT ![t] = label]
        \/ current' = current \ {t} /\ pc' = [pc EXCEPT ![t] = "done"]
    BY <1>5 DEF FindProject, FindWorker, FindTask, FindAssignee, Select, Goto, Return, Rollback,
       Release
  <2>2. out[t].kind = "none" /\ pc \in [Threads -> Labels]
    BY DEF IInv, ThreadInv, Outcome, CallsTyped
  <2> QED BY <2>1, <2>2
<1>6. CASE LoadTask(t)
  BY <1>6 DEF LoadTask, Select, Throw, Return, Rollback, Release, At, IInv, CallsTyped
<1>7. CASE CommitTx(t)
  BY <1>7 DEF CommitTx, Commit, Goto, Throw, Return, Rollback, Release, IInv, CallsTyped
<1> QED
  BY <1>1, <1>2, <1>3, <1>4, <1>5, <1>6, <1>7 DEF Step

-----------------------------------------------------------------------------
(* What the invariant is for *)

\* The tables, the locks and the state of every call() stay well formed.
THEOREM TypeCorrect == Spec => []TypeOK
<1> DEFINE RequestsTyped == req \in [Threads -> Requests \cup {NoRequest}]
<1>1. Init => RequestsTyped
  BY DEF Init
<1>2. RequestsTyped /\ [Next]_vars => RequestsTyped'
  <2> SUFFICES ASSUME RequestsTyped, [Next]_vars PROVE RequestsTyped'
    OBVIOUS
  <2>1. CASE UNCHANGED vars
    BY <2>1 DEF vars, callVars
  <2>2. CASE Crash
    BY <2>2 DEF Crash, NoCalls
  <2>3. ASSUME NEW t \in Threads, Call(t) \/ Finish(t) PROVE RequestsTyped'
    BY <2>3 DEF Call, CallWith, Finish
  <2>4. ASSUME NEW t \in Threads, Step(t), ~ Finish(t) PROVE RequestsTyped'
    BY <2>4, StepKeepsRequest
  <2> QED
    BY <2>1, <2>2, <2>3, <2>4 DEF Next
<1>3. IInv /\ RequestsTyped => TypeOK
  BY DEF IInv, TypeOK
<1> HIDE DEF RequestsTyped
<1> QED
  BY <1>1, <1>2, <1>3, Invariance, PTL DEF Spec

\* The invariant contains both properties of the calls.
LEMMA WhatTheInvariantSays == IInv => ReadsStayTrue /\ NoSurpriseFailures
<1> SUFFICES ASSUME IInv PROVE ReadsStayTrue /\ NoSurpriseFailures
  OBVIOUS
<1>1. ASSUME NEW t \in Threads
      PROVE  /\ At(t, "found", {"add_task"}) => req[t].id \in db.projects
             /\ task[t] \subseteq db.tasks
             /\ At(t, "checked", {"assign_task"}) => req[t].worker \in db.workers
             /\ At(t, "load", {"get_project", "get_worker"}) =>
                   /\ out[t].val \subseteq db.tasks
                   /\ {r.id : r \in out[t].val} \cup tasks[t] = {r.id : r \in Listed(t, db)}
  BY DEF IInv, ThreadInv, TaskRead, ProjectRead, WorkerRead, ListRead
<1>2. ReadsStayTrue
  BY <1>1 DEF ReadsStayTrue, Listed
<1> QED
  BY <1>2 DEF IInv, ThreadInv, Outcome, NoSurpriseFailures

\* No thread acts on, or answers with, something another thread has changed since.
THEOREM ReadsAreStable == Spec => []ReadsStayTrue
BY WhatTheInvariantSays, Invariance, PTL

\* No endpoint fails on a foreign key or on an object that it has just loaded.
THEOREM FailuresAreExpected == Spec => []NoSurpriseFailures
BY WhatTheInvariantSays, Invariance, PTL

\* Ids keep their meaning for ever, across deletions and crashes.
THEOREM IdsAreStable == Spec => IdsStable
<1>1. IInv /\ [Next]_vars => [IdsKept(db, db')]_vars
  BY NextInv
<1> QED
  BY <1>1, Invariance, PTL DEF Spec, IdsStable
=============================================================================
