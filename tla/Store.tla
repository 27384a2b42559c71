-------------------------------- MODULE Store --------------------------------
(***************************************************************************)
(* The relational model that the ORM pragmas declare: the tables, the row  *)
(* operations the handlers issue, and the foreign keys between the tables. *)
(* A table is a set of rows.  Names of projects, workers and tasks are     *)
(* left out: no statement ever selects or decides on them.                 *)
(***************************************************************************)
EXTENDS Integers

CONSTANTS UserIDs, RoleIDs

\* enum class Perm
Perm == {"administrate", "create_project", "view_project", "modify_project",
         "delete_project", "view_role", "create_task", "assign_task",
         "create_worker", "view_worker", "view_task"}

Tables == {"Project", "Task", "Worker", "User", "Role"}

\* SQL NULL in Task.worker; AUTOINCREMENT never hands out 0
NULL == 0

TaskRow == [id : Nat, project : Nat, worker : Nat]
UserRow == [id : UserIDs, roles : SUBSET RoleIDs]
RoleRow == [name : RoleIDs, perms : SUBSET Perm]

\* The last* fields are the table's row of sqlite_sequence.
StoreType == [projects : SUBSET Nat, workers : SUBSET Nat, tasks : SUBSET TaskRow,
              users : SUBSET UserRow, roles : SUBSET RoleRow,
              lastProject : Nat, lastWorker : Nat, lastTask : Nat]

\* What create_schema leaves behind
EmptyStore == [projects |-> {}, workers |-> {}, tasks |-> {}, users |-> {}, roles |-> {},
               lastProject |-> 0, lastWorker |-> 0, lastTask |-> 0]

-----------------------------------------------------------------------------
TaskWithId(d, i) == CHOOSE r \in d.tasks : r.id = i
HasTask(d, i)    == \E r \in d.tasks : r.id = i
TasksOfProject(d, p) == {r \in d.tasks : r.project = p}
TasksOfWorker(d, w)  == {r \in d.tasks : r.worker = w}

\* What an id without AUTOINCREMENT would be
InsertProjectAfterHighest(d) ==
    LET used == {0} \cup d.projects
        new  == 1 + CHOOSE i \in used : \A j \in used : j <= i
    IN  [d EXCEPT !.projects = @ \cup {new}, !.lastProject = IF new > @ THEN new ELSE @]

InsertProject(d) ==
    [d EXCEPT !.projects = @ \cup {d.lastProject + 1}, !.lastProject = @ + 1]

InsertWorker(d) ==
    [d EXCEPT !.workers = @ \cup {d.lastWorker + 1}, !.lastWorker = @ + 1]

InsertTaskWithMemberId(d, p) ==
    [d EXCEPT !.tasks = @ \cup {[id |-> -1, project |-> p, worker |-> NULL]}]

InsertTaskAfterHighest(d, p) ==
    LET used == {0} \cup {r.id : r \in d.tasks}
        new  == 1 + CHOOSE i \in used : \A j \in used : j <= i
    IN  [d EXCEPT !.tasks = @ \cup {[id |-> new, project |-> p, worker |-> NULL]},
                  !.lastTask = IF new > @ THEN new ELSE @]

InsertTask(d, p) ==
    [d EXCEPT !.tasks = @ \cup {[id |-> d.lastTask + 1, project |-> p, worker |-> NULL]},
              !.lastTask = @ + 1]

\* UPDATE writes every column of the object, not only the changed one
UpdateTask(d, row) ==
    [d EXCEPT !.tasks = {r \in @ : r.id # row.id} \cup {row}]

DeleteProjectOnly(d, p) == [d EXCEPT !.projects = @ \ {p}]

DeleteProjectGivesIdBack(d, p) ==
    [d EXCEPT !.projects = @ \ {p}, !.tasks = {r \in @ : r.project # p}, !.lastProject = @ - 1]

\* on_delete(cascade) of Task.project
DeleteProject(d, p) ==
    [d EXCEPT !.projects = @ \ {p}, !.tasks = {r \in @ : r.project # p}]

\* The foreign keys, checked when a transaction commits (DEFERRED).
ForeignKeysHold(d) ==
    /\ \A r \in d.tasks : r.project \in d.projects /\ r.worker \in d.workers \cup {NULL}
    /\ \A u \in d.users : \A n \in u.roles : \E r \in d.roles : r.name = n
=============================================================================
