---------------------------- MODULE Linearizable ----------------------------
(***************************************************************************)
(* The endpoints over the shared database implement the task board: every  *)
(* call takes effect at the commit (or, when it changes nothing, at the    *)
(* end) of its transaction.                                                *)
(***************************************************************************)
EXTENDS Endpoints

\* The board that the tables of d stand for
ProjectOf(d) == [i \in {r.id : r \in d.tasks} |-> TaskWithId(d, i).project]
WorkerOf(d)  == [i \in {r.id : r \in {q \in d.tasks : q.worker # NULL}} |->
                    TaskWithId(d, i).worker]
Issued(d) == [project |-> d.lastProject, worker |-> d.lastWorker, task |-> d.lastTask]

\* What the clients have been told
Answers == [t \in Threads |-> IF pc[t] = "done" THEN out[t] ELSE NoOut]

Board == INSTANCE TaskBoard WITH
    Clients         <- Threads,
    InitialAccounts <- InitialUsers,
    projects        <- db.projects,
    workers         <- db.workers,
    projectOf       <- ProjectOf(db),
    workerOf        <- WorkerOf(db),
    accounts        <- db.users,
    issued          <- Issued(db),
    call            <- req,
    answer          <- Answers

\* Concurrent calls behave as if they ran one after the other: each answer is
\* the one the board gives at some instant during the call, a call that throws
\* has changed nothing, and a crash loses no answered change and no half of one.
LinearizesTaskBoard == Board!Spec
=============================================================================
