------------------------------ MODULE TaskBoard ------------------------------
(***************************************************************************)
(* What the endpoints promise to their clients: a board of projects,       *)
(* workers and tasks on which every call takes effect at one instant, or,  *)
(* when it fails, not at all; what was answered survives a restart.        *)
(* There are no tables, statements, locks or transactions here.            *)
(***************************************************************************)
EXTENDS Integers, Functions

CONSTANTS Clients, Ids, InitialAccounts

VARIABLES
    projects, workers,   \* the ids that exist
    projectOf,           \* the project of every task that exists
    workerOf,            \* the worker of every task that has one
    accounts,            \* who may use the board
    issued,              \* how many ids of each kind were ever handed out
    call,                \* what each client has asked for
    answer               \* what it was told

board == <<projects, workers, projectOf, workerOf, accounts, issued>>
boardVars == <<board, call, answer>>

Changes == {"add_project", "del_project", "add_task", "assign_task", "unassign_task",
            "add_worker"}
Questions == {"get_projects", "get_project", "get_worker", "get_task", "get_users",
              "get_workers", "debug"}
\* 0: the call names no object
Calls == [op : Changes \cup Questions, id : Ids \cup {0}, worker : Ids \cup {0}]

NoCall == [op |-> "none", id |-> 0, worker |-> 0]
NoAnswer == [kind |-> "none", val |-> {}]

Init ==
    /\ projects = {} /\ workers = {}
    /\ projectOf = << >> /\ workerOf = << >>
    /\ accounts = InitialAccounts
    /\ issued = [project |-> 0, worker |-> 0, task |-> 0]
    /\ call = [c \in Clients |-> NoCall]
    /\ answer = [c \in Clients |-> NoAnswer]

-----------------------------------------------------------------------------
Live == DOMAIN projectOf

Named(ids) == {[id |-> i] : i \in ids}

\* What a client sees of a task
TaskView(i) == [id |-> i, project |-> projectOf[i],
                worker |-> IF i \in DOMAIN workerOf THEN workerOf[i] ELSE 0]

Pending(c, op) == call[c].op = op /\ answer[c] = NoAnswer

Reply(c, kind, val) ==
    /\ answer' = [answer EXCEPT ![c] = [kind |-> kind, val |-> val]]
    /\ UNCHANGED call

Ask(c) ==
    /\ call[c] = NoCall
    /\ \E r \in Calls : call' = [call EXCEPT ![c] = r]
    /\ UNCHANGED <<board, answer>>

\* Changing the board ------------------------------------------------------------------
AddProject(c) ==
    /\ Pending(c, "add_project")
    /\ issued' = [issued EXCEPT !.project = @ + 1]
    /\ projects' = projects \cup {issued'.project}
    /\ Reply(c, "ok", Named({issued'.project}))
    /\ UNCHANGED <<workers, projectOf, workerOf, accounts>>

AddWorker(c) ==
    /\ Pending(c, "add_worker")
    /\ issued' = [issued EXCEPT !.worker = @ + 1]
    /\ workers' = workers \cup {issued'.worker}
    /\ Reply(c, "ok", Named({issued'.worker}))
    /\ UNCHANGED <<projects, projectOf, workerOf, accounts>>

AddTask(c) ==
    /\ Pending(c, "add_task")
    /\ call[c].id \in projects
    /\ issued' = [issued EXCEPT !.task = @ + 1]
    /\ projectOf' = [i \in Live \cup {issued'.task} |->
                        IF i \in Live THEN projectOf[i] ELSE call[c].id]
    /\ Reply(c, "ok", Named({issued'.task}))
    /\ UNCHANGED <<projects, workers, workerOf, accounts>>

\* A project takes its tasks with it, and the workers lose them.
DelProject(c) ==
    LET kept == {i \in Live : projectOf[i] # call[c].id} IN
    /\ Pending(c, "del_project")
    /\ call[c].id \in projects
    /\ projects' = projects \ {call[c].id}
    /\ projectOf' = Restrict(projectOf, kept)
    /\ workerOf' = Restrict(workerOf, kept \cap DOMAIN workerOf)
    /\ Reply(c, "ok", {})
    /\ UNCHANGED <<workers, accounts, issued>>

AssignTask(c) ==
    LET i == call[c].id IN
    /\ Pending(c, "assign_task")
    /\ i \in Live /\ call[c].worker \in workers
    /\ workerOf' = [j \in DOMAIN workerOf \cup {i} |->
                        IF j = i THEN call[c].worker ELSE workerOf[j]]
    /\ Reply(c, "ok", {})
    /\ UNCHANGED <<projects, workers, projectOf, accounts, issued>>

UnassignTask(c) ==
    /\ Pending(c, "unassign_task")
    /\ call[c].id \in Live
    /\ workerOf' = Restrict(workerOf, DOMAIN workerOf \ {call[c].id})
    /\ Reply(c, "ok", {})
    /\ UNCHANGED <<projects, workers, projectOf, accounts, issued>>

\* Asking about it ----------------------------------------------------------------
Get(c) ==
    LET i == call[c].id IN
    /\ \/ Pending(c, "get_projects") /\ Reply(c, "ok", Named(projects))
       \/ Pending(c, "get_workers") /\ Reply(c, "ok", Named(workers))
       \/ Pending(c, "get_users") /\ Reply(c, "ok", accounts)
       \/ Pending(c, "debug") /\ Reply(c, "ok", {})
       \/ Pending(c, "get_task") /\ i \in Live /\ Reply(c, "ok", {TaskView(i)})
       \/ /\ Pending(c, "get_project") /\ i \in projects
          /\ Reply(c, "ok", {TaskView(j) : j \in {j \in Live : projectOf[j] = i}})
       \/ /\ Pending(c, "get_worker") /\ i \in workers
          /\ Reply(c, "ok", {TaskView(j) : j \in {j \in DOMAIN workerOf : workerOf[j] = i}})
    /\ UNCHANGED board

\* What the request names is not there.
NotThere(c) ==
    LET i == call[c].id IN
    /\ \/ Pending(c, "add_task") /\ i \notin projects
       \/ Pending(c, "get_project") /\ i \notin projects
       \/ Pending(c, "get_worker") /\ i \notin workers
       \/ Pending(c, "get_task") /\ i \notin Live
       \/ Pending(c, "unassign_task") /\ i \notin Live
       \/ Pending(c, "assign_task") /\ ~ (i \in Live /\ call[c].worker \in workers)
    /\ Reply(c, "nullopt", {})
    /\ UNCHANGED board

\* Deleting a project that is not there is an error, not a nullopt.
DelNothing(c) ==
    /\ Pending(c, "del_project")
    /\ call[c].id \notin projects
    /\ Reply(c, "not_persistent", {})
    /\ UNCHANGED board

\* Failures that do not depend on the board and do not change it: a payload
\* that is no good, and getting in the way of another client.
Fail(c) ==
    /\ answer[c] = NoAnswer
    /\ \/ call[c].op \in Changes /\ Reply(c, "json", {})
       \/ /\ call[c] # NoCall
          /\ \E d \in Clients \ {c} : call[d] # NoCall /\ answer[d] = NoAnswer
          /\ Reply(c, "deadlock", {})
    /\ UNCHANGED board

Return(c) ==
    /\ answer[c] # NoAnswer
    /\ call' = [call EXCEPT ![c] = NoCall]
    /\ answer' = [answer EXCEPT ![c] = NoAnswer]
    /\ UNCHANGED board

\* The clients lose their connections, the board loses nothing.
Restart ==
    /\ call' = [c \in Clients |-> NoCall]
    /\ answer' = [c \in Clients |-> NoAnswer]
    /\ UNCHANGED board

\* Accounts are added between the calls, and none is changed or taken away.
Enroll ==
    /\ \A c \in Clients : call[c] = NoCall
    /\ accounts \subseteq accounts'
    /\ UNCHANGED <<projects, workers, projectOf, workerOf, issued, call, answer>>

Next ==
    \/ \E c \in Clients :
        \/ Ask(c) \/ Return(c) \/ Fail(c) \/ Get(c) \/ NotThere(c) \/ DelNothing(c)
        \/ AddProject(c) \/ AddWorker(c) \/ AddTask(c)
        \/ DelProject(c) \/ AssignTask(c) \/ UnassignTask(c)
    \/ Restart \/ Enroll

Spec == Init /\ [][Next]_boardVars
=============================================================================
