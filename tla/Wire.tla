--------------------------------- MODULE Wire ---------------------------------
(***************************************************************************)
(* What crosses the wire: how the numbers of a request become ids, in a    *)
(* path and in a payload, and what the answers to the GET requests say.    *)
(* A request runs in one step, as Linearizable justifies; names and users  *)
(* are left out.  The JSON libraries belong to others.                     *)
(***************************************************************************)
EXTENDS Store

CONSTANTS
    IntMax,     \* numeric_limits<int>::max()
    LongMax,    \* numeric_limits<int64_t>::max()
    PlainMax,   \* doubles up to this one are printed without an exponent
    Spellings,  \* what clients write where a number belongs
    MaxRows     \* bound on the rows ever added to a table

\* A client writes digits, a decimal fraction, a boolean or something else, or
\* leaves the member out.  Numbers are counted in halves.
SpellingType == [form : {"digits", "decimal", "boolean", "other", "missing"}, halves : Int]

ASSUME WireAssumption ==
    /\ {IntMax, LongMax, PlainMax, MaxRows} \subseteq Nat
    /\ 1 <= IntMax /\ MaxRows <= IntMax /\ IntMax < PlainMax /\ PlainMax < LongMax
    /\ Spellings \subseteq SpellingType
    /\ \A s \in Spellings : /\ s.form = "digits" => s.halves % 2 = 0
                            /\ s.form = "boolean" => s.halves \in {0, 2}

VARIABLES
    store,
    last    \* history: the last request and what became of its numbers

vars == <<store, last>>

-----------------------------------------------------------------------------
(* From a spelling to an id *)

Ints == -IntMax - 1 .. IntMax

IsWhole(s) == s.halves % 2 = 0

\* The number a spelling stands for, cut off towards zero
Number(s) == IF s.halves >= 0 THEN s.halves \div 2 ELSE -((-s.halves) \div 2)

\* std::stoi of a path segment (see ApiParse): it reads up to the point
PathId(s) == IF s.form \in {"digits", "decimal"} /\ Number(s) \in Ints THEN {Number(s)} ELSE {}

\* extract_json() parses the body, and Json::parse() parses again what the
\* first parser's value is printed as: a double that is whole is printed
\* without a point, and so is an integer again, unless it needs an exponent.
IsInteger(s) ==
    \/ s.form = "digits" /\ -LongMax - 1 <= Number(s) /\ Number(s) <= 2 * LongMax + 1
    \/ s.form = "decimal" /\ IsWhole(s) /\ -PlainMax <= Number(s) /\ Number(s) <= PlainMax

\* static_cast<int> of an integer keeps the low bits.
NarrowToShort(n) == LET span == IntMax + 1 IN ((n + span \div 2) % span) - span \div 2
Narrow(n)        == LET span == 2 * (IntMax + 1) IN ((n + IntMax + 1) % span) - IntMax - 1

\* An unchecked conversion to a wider type
GetToLong(s) == IF s.form \in {"digits", "decimal"} THEN {Number(s)} ELSE {}

\* payload.at(...).get_to(int): the ids it may read, {} for an exception.  The
\* cast of a double that fits no int is undefined.
GetTo(s) ==
    CASE s.form = "boolean" -> {Number(s)}
      [] s.form \in {"other", "missing"} -> {}
      [] IsInteger(s) -> {Narrow(Number(s))}
      [] OTHER -> IF Number(s) \in Ints THEN {Number(s)} ELSE Ints

-----------------------------------------------------------------------------
(* The answers to GET requests *)

\* NULL becomes null.
TaskJson(r) == [id |-> r.id, project |-> r.project, worker |-> r.worker]

ProjectJson(d, p) == [id |-> p, tasks |-> {TaskJson(r) : r \in TasksOfProject(d, p)}]
WorkerJson(d, w)  == [id |-> w, tasks |-> {TaskJson(r) : r \in TasksOfWorker(d, w)}]

GetProjects(d) == {[id |-> p] : p \in d.projects}
GetWorkers(d)  == {[id |-> w] : w \in d.workers}
GetProject(d, i) == {ProjectJson(d, p) : p \in {i} \cap d.projects}
GetWorker(d, i)  == {WorkerJson(d, w) : w \in {i} \cap d.workers}

\* An inner join would leave out the tasks that nobody is assigned to.
TaskDetailsInner(d, i) ==
    {[id |-> r.id, project |-> r.project, worker |-> r.worker, named |-> TRUE] :
        r \in {r \in d.tasks : r.id = i /\ r.project \in d.projects /\ r.worker \in d.workers}}

\* The view: Task, left joined with Project and with Worker, whose id and name
\* are both NULL when there is none
TaskDetails(d, i) ==
    LET Joined(ids, k) == IF k \in ids THEN k ELSE NULL
    IN  {[id |-> r.id, project |-> Joined(d.projects, r.project),
          worker |-> Joined(d.workers, r.worker), named |-> r.worker \in d.workers] :
            r \in {r \in d.tasks : r.id = i}}

TaskDetailsJson(x) ==
    [id |-> x.id, project |-> x.project,
     worker |-> IF x.worker # NULL /\ x.named THEN x.worker ELSE NULL]

GetTask(d, i) == {TaskDetailsJson(x) : x \in TaskDetails(d, i)}

-----------------------------------------------------------------------------
(* Requests *)

NothingYet == [op |-> "none", spelled |-> <<>>, named |-> <<>>, result |-> "none"]
Reply(op, spelled, named, result) ==
    last' = [op |-> op, spelled |-> spelled, named |-> named, result |-> result]

\* The member "name" is missing or no string, which is noticed first.
Nameless(op) == Reply(op, <<>>, <<>>, "exception") /\ UNCHANGED store

AddProject ==
    /\ store.lastProject < MaxRows
    /\ store' = InsertProject(store)
    /\ Reply("add_project", <<>>, <<>>, "ok")

AddWorker ==
    /\ store.lastWorker < MaxRows
    /\ store' = InsertWorker(store)
    /\ Reply("add_worker", <<>>, <<>>, "ok")

\* A member is missing or no number: an exception before the transaction.
Unreadable(op, spelled) ==
    /\ \E k \in DOMAIN spelled : GetTo(spelled[k]) = {}
    /\ Reply(op, spelled, <<>>, "exception")
    /\ UNCHANGED store

DelProject(s) ==
    \/ Unreadable("del_project", <<s>>)
    \/ \E i \in GetTo(s) :
        /\ store' = DeleteProject(store, i)
        /\ Reply("del_project", <<s>>, <<i>>, IF i \in store.projects THEN "ok" ELSE "exception")

AddTask(s) ==
    /\ store.lastTask < MaxRows
    /\ \/ Unreadable("add_task", <<s>>)
       \/ \E i \in GetTo(s) :
            IF i \in store.projects
            THEN store' = InsertTask(store, i) /\ Reply("add_task", <<s>>, <<i>>, "ok")
            ELSE UNCHANGED store /\ Reply("add_task", <<s>>, <<i>>, "nullopt")

\* The task becomes the worker's, or nobody's.
SetWorker(i, w) == store' = UpdateTask(store, [TaskWithId(store, i) EXCEPT !.worker = w])

\* As it would be with the two members mixed up
AssignTaskMixedUp(s, u) ==
    \/ Unreadable("assign_task", <<s, u>>)
    \/ \E i \in GetTo(u), w \in GetTo(s) :
        IF HasTask(store, i) /\ w \in store.workers
        THEN SetWorker(i, w) /\ Reply("assign_task", <<s, u>>, <<i, w>>, "ok")
        ELSE UNCHANGED store /\ Reply("assign_task", <<s, u>>, <<i, w>>, "nullopt")

AssignTask(s, u) ==
    \/ Unreadable("assign_task", <<s, u>>)
    \/ \E i \in GetTo(s), w \in GetTo(u) :
        IF HasTask(store, i) /\ w \in store.workers
        THEN SetWorker(i, w) /\ Reply("assign_task", <<s, u>>, <<i, w>>, "ok")
        ELSE UNCHANGED store /\ Reply("assign_task", <<s, u>>, <<i, w>>, "nullopt")

UnassignTask(s) ==
    \/ Unreadable("unassign_task", <<s>>)
    \/ \E i \in GetTo(s) :
        IF HasTask(store, i)
        THEN SetWorker(i, NULL) /\ Reply("unassign_task", <<s>>, <<i>>, "ok")
        ELSE UNCHANGED store /\ Reply("unassign_task", <<s>>, <<i>>, "nullopt")

\* get_project, get_worker and get_task name their object in the path, where
\* what is no int is a bad route.
Get(op, s) ==
    LET found(i) == CASE op = "get_project" -> GetProject(store, i)
                      [] op = "get_worker"  -> GetWorker(store, i)
                      [] op = "get_task"    -> GetTask(store, i)
    IN  /\ UNCHANGED store
        /\ \/ PathId(s) = {} /\ Reply(op, <<s>>, <<>>, "exception")
           \/ \E i \in PathId(s) :
                Reply(op, <<s>>, <<i>>, IF found(i) = {} THEN "nullopt" ELSE "ok")

-----------------------------------------------------------------------------
Init == store = EmptyStore /\ last = NothingYet

Next ==
    \/ AddProject \/ AddWorker
    \/ \E op \in {"add_project", "add_worker", "add_task"} : Nameless(op)
    \/ \E s \in Spellings : \/ DelProject(s) \/ AddTask(s) \/ UnassignTask(s)
                            \/ \E u \in Spellings : AssignTask(s, u)
                            \/ \E op \in {"get_project", "get_worker", "get_task"} : Get(op, s)

Spec == Init /\ [][Next]_vars

-----------------------------------------------------------------------------
(* Properties *)

\* Type invariant: whatever a client writes, an endpoint works on an int.
TypeOK ==
    /\ store \in StoreType
    /\ last.op \in {"none", "add_project", "add_worker", "del_project", "add_task", "assign_task",
                    "unassign_task", "get_project", "get_worker", "get_task"}
    /\ last.spelled \in UNION {[1..n -> Spellings] : n \in 0..2}
    /\ last.named \in UNION {[1..n -> Ints] : n \in 0..2}
    /\ last.result \in {"none", "ok", "nullopt", "exception"}

\* A number that fits an int names its object, in a path and in a payload alike
\* and whether it is written with a point or without, although two parsers and
\* a printer lie between it and the endpoint.  (Other numbers may name any.)
NamesWhatItSpells ==
    \A k \in DOMAIN last.named :
        LET s == last.spelled[k] IN
        s.form \in {"digits", "decimal"} /\ IsWhole(s) /\ Number(s) \in Ints
            => last.named[k] = Number(s)

\* A request changes or deletes only the task it names, or, with a project, the
\* tasks of that project; unless it writes a wide number, a fraction or a boolean,
\* for which the code takes another one.
Exact(s) == s.form \in {"other", "missing"} \/ (s.form # "boolean" /\ IsWhole(s) /\ Number(s) \in Ints)
OthersUntouched ==
    [][LET spelled == last'.spelled IN
       \A r \in store.tasks \ store'.tasks :
            /\ spelled # <<>>
            /\ (\A k \in DOMAIN spelled : Exact(spelled[k])) =>
                  (IF last'.op = "del_project" THEN r.project ELSE r.id) = Number(spelled[1])]_vars

\* The answers describe one world: the tasks get_project and get_worker list
\* are the ones of which get_task says so, assigned to somebody or not, every
\* task is in the list of its project, and what a list shows can be asked for.
AnswersAgree ==
    /\ \A r \in store.tasks : \E t \in GetTask(store, r.id) :
        /\ \E p \in GetProject(store, t.project) : t \in p.tasks
        /\ t.worker # NULL => \E w \in GetWorker(store, t.worker) : t \in w.tasks
    /\ \A x \in GetProjects(store) : \E p \in GetProject(store, x.id) :
        \A t \in p.tasks : t \in GetTask(store, t.id) /\ t.project = x.id
    /\ \A x \in GetWorkers(store) : \E w \in GetWorker(store, x.id) :
        \A t \in w.tasks : t \in GetTask(store, t.id) /\ t.worker = x.id
=============================================================================
