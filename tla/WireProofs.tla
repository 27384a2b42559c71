------------------------------ MODULE WireProofs ------------------------------
(***************************************************************************)
(* Safety of module Wire: which objects the spellings of a request name,   *)
(* what a request may touch, and that the answers describe one world.      *)
(***************************************************************************)
EXTENDS Wire, TLAPS

\* Task ids are the primary key, below the counter of AUTOINCREMENT.
TasksKeyed(d) ==
    \A r \in d.tasks : r.id <= d.lastTask /\ \A q \in d.tasks : q.id = r.id => q = r

Rows(d) == d \in StoreType /\ TasksKeyed(d) /\ ForeignKeysHold(d)

IInv == TypeOK /\ Rows(store) /\ NamesWhatItSpells

-----------------------------------------------------------------------------
(* From a spelling to an id *)

\* The low bits of a number are an int, and are the number if it is one.
LEMMA NarrowFits ==
    ASSUME NEW n \in Int PROVE Narrow(n) \in Ints /\ (n \in Ints => Narrow(n) = n)
<1> DEFINE span == 2 * (IntMax + 1)
           x == n + IntMax + 1
<1>1. IntMax \in Nat /\ span \in Nat \ {0} /\ x \in Int /\ span = 2 * IntMax + 2
  BY WireAssumption
<1>2. Narrow(n) = (x % span) - IntMax - 1
  BY DEF Narrow
<1> HIDE DEF span
<1>3. x % span \in 0..(span - 1)
  BY <1>1
<1>4. ASSUME n \in Ints PROVE x % span = x
  <2>1. 0 <= x /\ x < span
    BY <1>1, <1>4 DEF Ints
  <2> HIDE DEF x
  <2> QED
    BY <1>1, <2>1
<1> QED
  BY <1>1, <1>2, <1>3, <1>4 DEF Ints

\* Cutting off keeps a number a number, and a boolean an int.
LEMMA NumberTyped ==
    ASSUME NEW s \in Spellings
    PROVE  /\ s.form \in {"digits", "decimal", "boolean", "other", "missing"}
           /\ Number(s) \in Int
           /\ s.form = "boolean" => Number(s) \in Ints
<1>1. s.halves \in Int /\ s.form \in {"digits", "decimal", "boolean", "other", "missing"}
  BY WireAssumption DEF SpellingType
<1>2. Number(s) \in Int
  BY <1>1 DEF Number
<1>3. s.form = "boolean" => s.halves \in {0, 2} /\ IntMax \in Nat /\ 1 <= IntMax
  BY WireAssumption
<1>4. s.halves \in {0, 2} => Number(s) \in {0, 1}
  BY DEF Number
<1> QED
  BY <1>1, <1>2, <1>3, <1>4 DEF Ints

\* What NamesWhatItSpells says of one number
Names(s, i) ==
    s.form \in {"digits", "decimal"} /\ IsWhole(s) /\ Number(s) \in Ints => i = Number(s)

\* get_to(int) throws or reads an int, the one that is written if one is.
LEMMA GetToReads ==
    ASSUME NEW s \in Spellings, NEW i \in GetTo(s)
    PROVE  i \in Ints /\ Names(s, i) /\ s.form \notin {"other", "missing"}
<1>1. /\ s.form \in {"digits", "decimal", "boolean", "other", "missing"}
      /\ Number(s) \in Int /\ (s.form = "boolean" => Number(s) \in Ints)
  BY NumberTyped
<1>2. Narrow(Number(s)) \in Ints /\ (Number(s) \in Ints => Narrow(Number(s)) = Number(s))
  BY <1>1, NarrowFits
<1>3. IsInteger(s) => s.form \in {"digits", "decimal"}
  BY DEF IsInteger
<1>4. s.form \notin {"other", "missing"}
  <2> SUFFICES ASSUME s.form \in {"other", "missing"} PROVE FALSE
    OBVIOUS
  <2>1. s.form # "boolean" /\ ~IsInteger(s)
    BY <1>3
  <2>2. GetTo(s) = {}
    BY <2>1 DEF GetTo
  <2> QED
    BY <2>2
<1>5. CASE s.form = "boolean"
  <2>1. GetTo(s) = {Number(s)}
    BY <1>5, <1>3 DEF GetTo
  <2> QED
    BY <1>1, <1>5, <2>1 DEF Names
<1>6. CASE s.form # "boolean" /\ IsInteger(s)
  <2>1. GetTo(s) = {Narrow(Number(s))}
    BY <1>4, <1>6 DEF GetTo
  <2> QED
    BY <1>2, <1>4, <2>1 DEF Names
<1>7. CASE s.form # "boolean" /\ ~IsInteger(s)
  <2>1. GetTo(s) = IF Number(s) \in Ints THEN {Number(s)} ELSE Ints
    BY <1>4, <1>7 DEF GetTo
  <2> QED
    BY <1>4, <2>1 DEF Names
<1> QED
  BY <1>4, <1>5, <1>6, <1>7

\* stoi of a path segment does the same.
LEMMA PathIdReads ==
    ASSUME NEW s \in Spellings, NEW i \in PathId(s) PROVE i \in Ints /\ Names(s, i)
BY DEF PathId, Names

-----------------------------------------------------------------------------
(* The rows *)

\* add_project
LEMMA InsertProjectRows == ASSUME NEW d, Rows(d) PROVE Rows(InsertProject(d))
<1>1. d.projects \cup {d.lastProject + 1} \in SUBSET Nat /\ d.lastProject + 1 \in Nat
  BY DEF Rows, StoreType
<1>2. InsertProject(d) \in StoreType
  BY <1>1 DEF Rows, StoreType, InsertProject
<1> QED
  BY <1>2 DEF Rows, StoreType, TasksKeyed, ForeignKeysHold, InsertProject

\* add_worker
LEMMA InsertWorkerRows == ASSUME NEW d, Rows(d) PROVE Rows(InsertWorker(d))
<1>1. d.workers \cup {d.lastWorker + 1} \in SUBSET Nat /\ d.lastWorker + 1 \in Nat
  BY DEF Rows, StoreType
<1>2. InsertWorker(d) \in StoreType
  BY <1>1 DEF Rows, StoreType, InsertWorker
<1> QED
  BY <1>2 DEF Rows, StoreType, TasksKeyed, ForeignKeysHold, InsertWorker

\* add_task, for a project that is there: the new id is above all others.
LEMMA InsertTaskRows ==
    ASSUME NEW d, Rows(d), NEW i \in d.projects
    PROVE  Rows(InsertTask(d, i)) /\ d.tasks \subseteq InsertTask(d, i).tasks
<1> DEFINE new == [id |-> d.lastTask + 1, project |-> i, worker |-> NULL]
           e   == InsertTask(d, i)
<1>1. new \in TaskRow /\ new.id = d.lastTask + 1 /\ new.project = i /\ new.worker = NULL
  BY DEF Rows, StoreType, TaskRow, NULL
<1>2. /\ d \in StoreType /\ d.tasks \cup {new} \in SUBSET TaskRow
      /\ d.lastTask \in Nat /\ d.lastTask + 1 \in Nat
  BY <1>1 DEF Rows, StoreType
<1>3. e = [d EXCEPT !.tasks = d.tasks \cup {new}, !.lastTask = d.lastTask + 1]
  BY DEF InsertTask
<1> HIDE DEF new, e
<1>4. /\ e \in StoreType /\ e.tasks = d.tasks \cup {new} /\ e.lastTask = d.lastTask + 1
      /\ e.projects = d.projects /\ e.workers = d.workers /\ e.users = d.users /\ e.roles = d.roles
  BY <1>2, <1>3 DEF StoreType
<1>5. \A r \in d.tasks : r.id \in Nat
  BY DEF Rows, StoreType, TaskRow
<1>6. TasksKeyed(e)
  BY <1>1, <1>2, <1>4, <1>5 DEF Rows, TasksKeyed
<1>7. ForeignKeysHold(e)
  BY <1>1, <1>4 DEF Rows, ForeignKeysHold
<1> QED
  BY <1>4, <1>6, <1>7 DEF Rows, e

\* del_project, the tasks of the project with it
LEMMA DeleteProjectRows ==
    ASSUME NEW d, Rows(d), NEW i
    PROVE  /\ Rows(DeleteProject(d, i))
           /\ \A r \in d.tasks \ DeleteProject(d, i).tasks : r.project = i
<1> DEFINE e == DeleteProject(d, i)
<1>1. /\ e \in StoreType /\ e.tasks = {r \in d.tasks : r.project # i} /\ e.lastTask = d.lastTask
      /\ e.projects = d.projects \ {i}
      /\ e.workers = d.workers /\ e.users = d.users /\ e.roles = d.roles
  BY DEF Rows, StoreType, DeleteProject
<1> HIDE DEF e
<1>2. TasksKeyed(e) /\ ForeignKeysHold(e)
  BY <1>1 DEF Rows, TasksKeyed, ForeignKeysHold
<1> QED
  BY <1>1, <1>2 DEF Rows, e

\* assign_task and unassign_task write the row they have read.
LEMMA SetWorkerRows ==
    ASSUME Rows(store), NEW i, HasTask(store, i), NEW w \in store.workers \cup {NULL}, SetWorker(i, w)
    PROVE  Rows(store') /\ \A r \in store.tasks \ store'.tasks : r.id = i
<1> DEFINE d   == store
           old == TaskWithId(d, i)
           row == [old EXCEPT !.worker = w]
           e   == UpdateTask(d, row)
<1>1. old \in d.tasks /\ old.id = i
  BY DEF HasTask, TaskWithId
<1>2. old \in TaskRow /\ w \in Nat
  BY <1>1 DEF Rows, StoreType, NULL
<1>3. row \in TaskRow /\ row.id = i /\ row.project = old.project /\ row.worker = w
  BY <1>1, <1>2 DEF TaskRow
<1>4. store' = e
  BY DEF SetWorker
<1> HIDE DEF row
<1>5. {r \in d.tasks : r.id # i} \cup {row} \in SUBSET TaskRow
  BY <1>3 DEF Rows, StoreType
<1>6. e = [d EXCEPT !.tasks = {r \in d.tasks : r.id # i} \cup {row}]
  BY <1>3 DEF UpdateTask
<1> HIDE DEF d, e, old
<1>7. /\ e \in StoreType /\ e.tasks = {r \in d.tasks : r.id # i} \cup {row} /\ e.lastTask = d.lastTask
      /\ e.projects = d.projects /\ e.workers = d.workers /\ e.users = d.users /\ e.roles = d.roles
  BY <1>5, <1>6 DEF Rows, StoreType, d
<1>8. TasksKeyed(e) /\ ForeignKeysHold(e)
  BY <1>1, <1>3, <1>7 DEF Rows, TasksKeyed, ForeignKeysHold, d
<1>9. \A r \in d.tasks \ e.tasks : r.id = i
  BY <1>7
<1> QED
  BY <1>4, <1>7, <1>8, <1>9 DEF Rows, d

-----------------------------------------------------------------------------
(* The answers *)

\* get_task shows the row that the lists show: its project is there, and so is
\* its worker unless there is none.
LEMMA GetTaskShowsRow ==
    ASSUME NEW d, Rows(d), NEW r \in d.tasks PROVE GetTask(d, r.id) = {TaskJson(r)}
<1>1. {q \in d.tasks : q.id = r.id} = {r}
  BY DEF Rows, TasksKeyed
<1>2. r.project \in d.projects /\ r.worker \in d.workers \cup {NULL}
  BY DEF Rows, ForeignKeysHold
<1> DEFINE Joined(ids, k) == IF k \in ids THEN k ELSE NULL
           x == [id |-> r.id, project |-> Joined(d.projects, r.project),
                 worker |-> Joined(d.workers, r.worker), named |-> r.worker \in d.workers]
<1>3. TaskDetails(d, r.id) = {x}
  <2>1. TaskDetails(d, r.id) =
          {[id |-> q.id, project |-> Joined(d.projects, q.project),
            worker |-> Joined(d.workers, q.worker), named |-> q.worker \in d.workers] : q \in {r}}
    BY <1>1 DEF TaskDetails
  <2> QED
    BY <2>1
<1>4. x.id = r.id /\ x.project = r.project /\ x.worker = r.worker
  BY <1>2
<1>5. x.named <=> r.worker \in d.workers
  OBVIOUS
<1>6. TaskDetailsJson(x) = TaskJson(r)
  <2>1. (IF x.worker # NULL /\ x.named THEN x.worker ELSE NULL) = r.worker
    BY <1>2, <1>4, <1>5
  <2> HIDE DEF x
  <2> QED
    BY <1>4, <2>1 DEF TaskDetailsJson, TaskJson
<1> HIDE DEF x
<1> QED
  BY <1>3, <1>6 DEF GetTask

\* Hence the answers agree, whatever the rows are.
LEMMA RowsAgree == Rows(store) => AnswersAgree
<1> SUFFICES ASSUME Rows(store) PROVE AnswersAgree
  OBVIOUS
<1>1. ASSUME NEW r \in store.tasks
      PROVE  \E t \in GetTask(store, r.id) :
               /\ \E p \in GetProject(store, t.project) : t \in p.tasks
               /\ t.worker # NULL => \E w \in GetWorker(store, t.worker) : t \in w.tasks
  <2> DEFINE t == TaskJson(r)
  <2>1. t \in GetTask(store, r.id)
    BY GetTaskShowsRow
  <2>2. t.project = r.project /\ t.worker = r.worker
    BY DEF TaskJson
  <2>3. \E p \in GetProject(store, r.project) : t \in p.tasks
    <3>1. r.project \in store.projects
      BY DEF Rows, ForeignKeysHold
    <3>2. ProjectJson(store, r.project) \in GetProject(store, r.project)
      BY <3>1 DEF GetProject
    <3>3. t \in ProjectJson(store, r.project).tasks
      BY DEF ProjectJson, TasksOfProject
    <3> QED
      BY <3>2, <3>3
  <2>4. ASSUME r.worker # NULL PROVE \E w \in GetWorker(store, r.worker) : t \in w.tasks
    <3>1. r.worker \in store.workers
      BY <2>4 DEF Rows, ForeignKeysHold
    <3>2. WorkerJson(store, r.worker) \in GetWorker(store, r.worker)
      BY <3>1 DEF GetWorker
    <3>3. t \in WorkerJson(store, r.worker).tasks
      BY DEF WorkerJson, TasksOfWorker
    <3> QED
      BY <3>2, <3>3
  <2> HIDE DEF t
  <2> QED
    BY <2>1, <2>2, <2>3, <2>4
<1>2. ASSUME NEW x \in GetProjects(store)
      PROVE  \E p \in GetProject(store, x.id) :
               \A t \in p.tasks : t \in GetTask(store, t.id) /\ t.project = x.id
  <2>1. x.id \in store.projects
    BY DEF GetProjects
  <2>2. ProjectJson(store, x.id) \in GetProject(store, x.id)
    BY <2>1 DEF GetProject
  <2>3. ASSUME NEW t \in ProjectJson(store, x.id).tasks
        PROVE  t \in GetTask(store, t.id) /\ t.project = x.id
    <3>1. PICK r \in store.tasks : r.project = x.id /\ t = TaskJson(r)
      BY <2>3 DEF ProjectJson, TasksOfProject
    <3>2. t.id = r.id /\ t.project = r.project
      BY <3>1 DEF TaskJson
    <3> QED
      BY <3>1, <3>2, GetTaskShowsRow
  <2> QED
    BY <2>2, <2>3
<1>3. ASSUME NEW x \in GetWorkers(store)
      PROVE  \E w \in GetWorker(store, x.id) :
               \A t \in w.tasks : t \in GetTask(store, t.id) /\ t.worker = x.id
  <2>1. x.id \in store.workers
    BY DEF GetWorkers
  <2>2. WorkerJson(store, x.id) \in GetWorker(store, x.id)
    BY <2>1 DEF GetWorker
  <2>3. ASSUME NEW t \in WorkerJson(store, x.id).tasks
        PROVE  t \in GetTask(store, t.id) /\ t.worker = x.id
    <3>1. PICK r \in store.tasks : r.worker = x.id /\ t = TaskJson(r)
      BY <2>3 DEF WorkerJson, TasksOfWorker
    <3>2. t.id = r.id /\ t.worker = r.worker
      BY <3>1 DEF TaskJson
    <3> QED
      BY <3>1, <3>2, GetTaskShowsRow
  <2> QED
    BY <2>2, <2>3
<1> QED
  BY <1>1, <1>2, <1>3 DEF AnswersAgree

-----------------------------------------------------------------------------
(* Steps *)

Ops == {"add_project", "add_worker", "del_project", "add_task", "assign_task",
        "unassign_task", "get_project", "get_worker", "get_task"}

\* The numbers of a request, as written and as read
Spelled == UNION {[1..n -> Spellings] : n \in 0..2}
NamedInts == UNION {[1..n -> Ints] : n \in 0..2}

\* No number, one or two
LEMMA Tuples ==
    ASSUME NEW S
    PROVE  /\ <<>> \in UNION {[1..n -> S] : n \in 0..2}
           /\ \A x \in S : <<x>> \in UNION {[1..n -> S] : n \in 0..2}
           /\ \A x, y \in S : <<x, y>> \in UNION {[1..n -> S] : n \in 0..2}
<1>1. <<>> \in [1..0 -> S]
  OBVIOUS
<1>2. \A x \in S : <<x>> \in [1..1 -> S]
  OBVIOUS
<1>3. \A x, y \in S : <<x, y>> \in [1..2 -> S]
  OBVIOUS
<1> QED
  BY <1>1, <1>2, <1>3

\* Whatever is answered, the numbers that were named are the ones that were spelled.
LEMMA ReplyKeeps ==
    ASSUME Rows(store'), NEW op \in Ops, NEW spelled \in Spelled, NEW named \in NamedInts,
           NEW result \in {"ok", "nullopt", "exception"},
           Reply(op, spelled, named, result), \A k \in DOMAIN named : Names(spelled[k], named[k])
    PROVE  IInv'
<1>1. /\ last'.op = op /\ last'.spelled = spelled /\ last'.named = named /\ last'.result = result
  BY DEF Reply
<1>2. TypeOK'
  BY <1>1 DEF TypeOK, Rows, Ops, Spelled, NamedInts
<1>3. NamesWhatItSpells'
  BY <1>1 DEF NamesWhatItSpells, Names
<1> QED
  BY <1>2, <1>3 DEF IInv

\* A reply that names nothing
LEMMA ReplyNone ==
    ASSUME Rows(store'), NEW op \in Ops, NEW result \in {"ok", "nullopt", "exception"},
           NEW spelled \in Spelled, Reply(op, spelled, <<>>, result)
    PROVE  IInv'
<1>1. <<>> \in NamedInts /\ DOMAIN <<>> = {}
  BY Tuples DEF NamedInts
<1> QED
  BY <1>1, ReplyKeeps

\* A reply that names one object
LEMMA ReplyOne ==
    ASSUME Rows(store'), NEW op \in Ops, NEW result \in {"ok", "nullopt", "exception"},
           NEW s \in Spellings, NEW i \in Ints, Names(s, i), Reply(op, <<s>>, <<i>>, result)
    PROVE  IInv'
<1>1. <<s>> \in Spelled /\ <<i>> \in NamedInts
  BY Tuples DEF Spelled, NamedInts
<1>2. \A k \in DOMAIN <<i>> : Names(<<s>>[k], <<i>>[k])
  OBVIOUS
<1> QED
  BY <1>1, <1>2, ReplyKeeps

\* A reply that names two
LEMMA ReplyTwo ==
    ASSUME Rows(store'), NEW op \in Ops, NEW result \in {"ok", "nullopt", "exception"},
           NEW s \in Spellings, NEW u \in Spellings, NEW i \in Ints, NEW w \in Ints,
           Names(s, i), Names(u, w), Reply(op, <<s, u>>, <<i, w>>, result)
    PROVE  IInv'
<1>1. <<s, u>> \in Spelled /\ <<i, w>> \in NamedInts
  BY Tuples DEF Spelled, NamedInts
<1>2. \A k \in DOMAIN <<i, w>> : Names(<<s, u>>[k], <<i, w>>[k])
  OBVIOUS
<1> QED
  BY <1>1, <1>2, ReplyKeeps

\* What OthersUntouched says of one step
Touches ==
    \A r \in store.tasks \ store'.tasks :
        /\ last'.spelled # <<>>
        /\ (\A k \in DOMAIN last'.spelled : Exact(last'.spelled[k])) =>
              (IF last'.op = "del_project" THEN r.project ELSE r.id) = Number(last'.spelled[1])

\* Steps that take no row away
LEMMA NothingTouched == ASSUME store.tasks \subseteq store'.tasks PROVE Touches
BY DEF Touches

\* The object that a request names is the one it spells out, if it does so exactly.
LEMMA ExactNames ==
    ASSUME NEW s \in Spellings, NEW i \in GetTo(s), Exact(s) PROVE i = Number(s)
BY GetToReads, NumberTyped DEF Exact, Names

\* A request whose number is none
LEMMA UnreadableStep ==
    ASSUME IInv, NEW op \in Ops, NEW spelled \in Spelled, Unreadable(op, spelled)
    PROVE  IInv' /\ Touches
<1>1. store' = store /\ Rows(store') /\ Reply(op, spelled, <<>>, "exception")
  BY DEF Unreadable, IInv
<1> QED
  BY <1>1, ReplyNone, NothingTouched

\* add_project and add_worker, and any request without a name
LEMMA AddStep ==
    ASSUME IInv, AddProject \/ AddWorker
                 \/ \E op \in {"add_project", "add_worker", "add_task"} : Nameless(op)
    PROVE  IInv' /\ Touches
<1>1. <<>> \in Spelled
  BY Tuples DEF Spelled
<1>2. CASE AddProject
  <2>1. store' = InsertProject(store) /\ Reply("add_project", <<>>, <<>>, "ok")
    BY <1>2 DEF AddProject
  <2>2. Rows(store') /\ store'.tasks = store.tasks
    BY <2>1, InsertProjectRows DEF IInv, Rows, StoreType, InsertProject
  <2> QED
    BY <1>1, <2>1, <2>2, ReplyNone, NothingTouched DEF Ops
<1>3. CASE AddWorker
  <2>1. store' = InsertWorker(store) /\ Reply("add_worker", <<>>, <<>>, "ok")
    BY <1>3 DEF AddWorker
  <2>2. Rows(store') /\ store'.tasks = store.tasks
    BY <2>1, InsertWorkerRows DEF IInv, Rows, StoreType, InsertWorker
  <2> QED
    BY <1>1, <2>1, <2>2, ReplyNone, NothingTouched DEF Ops
<1>4. ASSUME NEW op \in {"add_project", "add_worker", "add_task"}, Nameless(op)
      PROVE  IInv' /\ Touches
  <2>1. store' = store /\ Rows(store') /\ Reply(op, <<>>, <<>>, "exception") /\ op \in Ops
    BY <1>4 DEF Nameless, IInv, Ops
  <2> QED
    BY <1>1, <2>1, ReplyNone, NothingTouched
<1> QED
  BY <1>2, <1>3, <1>4

\* The requests that name one object in their payload
LEMMA OneNumberStep ==
    ASSUME IInv, NEW s \in Spellings, DelProject(s) \/ AddTask(s) \/ UnassignTask(s)
    PROVE  IInv' /\ Touches
<1>1. <<s>> \in Spelled /\ <<s>> # <<>> /\ <<s>>[1] = s /\ DOMAIN <<s>> = {1}
  BY Tuples DEF Spelled
<1>2. CASE Unreadable("del_project", <<s>>) \/ Unreadable("add_task", <<s>>)
           \/ Unreadable("unassign_task", <<s>>)
  BY <1>1, <1>2, UnreadableStep DEF Ops
<1>3. ASSUME NEW i \in GetTo(s), store' = DeleteProject(store, i),
             NEW result \in {"ok", "exception"}, Reply("del_project", <<s>>, <<i>>, result)
      PROVE  IInv' /\ Touches
  <2>1. Rows(store') /\ \A r \in store.tasks \ store'.tasks : r.project = i
    BY <1>3, DeleteProjectRows DEF IInv
  <2>2. IInv'
    <3>1. i \in Ints /\ Names(s, i) /\ "del_project" \in Ops
      BY <1>3, GetToReads DEF Ops
    <3>2. result \in {"ok", "nullopt", "exception"}
      BY <1>3
    <3> QED
      BY <1>3, <2>1, <3>1, <3>2, ReplyOne
  <2>3. last'.op = "del_project" /\ last'.spelled = <<s>>
    BY <1>3 DEF Reply
  <2>4. Exact(s) => i = Number(s)
    BY <1>3, ExactNames
  <2> QED
    BY <1>1, <2>1, <2>2, <2>3, <2>4 DEF Touches
<1>4. ASSUME NEW i \in GetTo(s), i \in store.projects, store' = InsertTask(store, i),
             Reply("add_task", <<s>>, <<i>>, "ok")
      PROVE  IInv' /\ Touches
  <2>1. Rows(store') /\ store.tasks \subseteq store'.tasks
    BY <1>4, InsertTaskRows DEF IInv
  <2> QED
    BY <1>4, <2>1, GetToReads, ReplyOne, NothingTouched DEF Ops
<1>5. ASSUME NEW i \in GetTo(s), HasTask(store, i), SetWorker(i, NULL),
             Reply("unassign_task", <<s>>, <<i>>, "ok")
      PROVE  IInv' /\ Touches
  <2>1. Rows(store') /\ \A r \in store.tasks \ store'.tasks : r.id = i
    BY <1>5, SetWorkerRows DEF IInv
  <2>2. IInv'
    BY <1>5, <2>1, GetToReads, ReplyOne DEF Ops
  <2>3. last'.op = "unassign_task" /\ last'.spelled = <<s>>
    BY <1>5 DEF Reply
  <2>4. Exact(s) => i = Number(s)
    BY <1>5, ExactNames
  <2> QED
    BY <1>1, <2>1, <2>2, <2>3, <2>4 DEF Touches
<1>6. ASSUME NEW op \in {"add_task", "unassign_task"}, NEW i \in GetTo(s), UNCHANGED store,
             Reply(op, <<s>>, <<i>>, "nullopt")
      PROVE  IInv' /\ Touches
  <2>1. Rows(store') /\ op \in Ops
    BY <1>6 DEF IInv, Ops
  <2> QED
    BY <1>6, <2>1, GetToReads, ReplyOne, NothingTouched
<1>7. CASE DelProject(s)
  BY <1>2, <1>3, <1>7 DEF DelProject
<1>8. CASE AddTask(s)
  BY <1>2, <1>4, <1>6, <1>8 DEF AddTask
<1>9. CASE UnassignTask(s)
  BY <1>2, <1>5, <1>6, <1>9 DEF UnassignTask
<1> QED
  BY <1>7, <1>8, <1>9

\* assign_task names a task, then a worker.
LEMMA AssignTaskStep ==
    ASSUME IInv, NEW s \in Spellings, NEW u \in Spellings, AssignTask(s, u)
    PROVE  IInv' /\ Touches
<1>1. <<s, u>> \in Spelled /\ <<s, u>> # <<>> /\ <<s, u>>[1] = s /\ 1 \in DOMAIN <<s, u>>
  BY Tuples DEF Spelled
<1>2. /\ "assign_task" \in Ops
      /\ \A i \in GetTo(s) : i \in Ints /\ Names(s, i)
      /\ \A w \in GetTo(u) : w \in Ints /\ Names(u, w)
  BY GetToReads DEF Ops
<1>3. CASE Unreadable("assign_task", <<s, u>>)
  BY <1>1, <1>2, <1>3, UnreadableStep
<1>4. ASSUME NEW i \in GetTo(s), NEW w \in GetTo(u), HasTask(store, i), w \in store.workers,
             SetWorker(i, w), Reply("assign_task", <<s, u>>, <<i, w>>, "ok")
      PROVE  IInv' /\ Touches
  <2>1. Rows(store') /\ \A r \in store.tasks \ store'.tasks : r.id = i
    BY <1>4, SetWorkerRows DEF IInv
  <2>2. IInv'
    BY <1>2, <1>4, <2>1, ReplyTwo
  <2>3. last'.op = "assign_task" /\ last'.spelled = <<s, u>>
    BY <1>4 DEF Reply
  <2>4. Exact(s) => i = Number(s)
    BY <1>4, ExactNames
  <2> QED
    BY <1>1, <2>1, <2>2, <2>3, <2>4 DEF Touches
<1>5. ASSUME NEW i \in GetTo(s), NEW w \in GetTo(u), UNCHANGED store,
             Reply("assign_task", <<s, u>>, <<i, w>>, "nullopt")
      PROVE  IInv' /\ Touches
  <2>1. Rows(store')
    BY <1>5 DEF IInv
  <2> QED
    BY <1>2, <1>5, <2>1, ReplyTwo, NothingTouched
<1> QED
  BY <1>3, <1>4, <1>5 DEF AssignTask

\* The requests that name their object in the path
LEMMA GetStep ==
    ASSUME IInv, NEW op \in {"get_project", "get_worker", "get_task"}, NEW s \in Spellings, Get(op, s)
    PROVE  IInv' /\ Touches
<1>1. Rows(store') /\ store' = store /\ op \in Ops
  BY DEF IInv, Get, Ops
<1>2. <<s>> \in Spelled
  BY Tuples DEF Spelled
<1>3. CASE Reply(op, <<s>>, <<>>, "exception")
  BY <1>1, <1>2, <1>3, ReplyNone, NothingTouched
<1>4. ASSUME NEW i \in PathId(s), NEW result \in {"ok", "nullopt"}, Reply(op, <<s>>, <<i>>, result)
      PROVE  IInv' /\ Touches
  BY <1>1, <1>4, PathIdReads, ReplyOne, NothingTouched
<1> QED
  BY <1>3, <1>4 DEF Get

\* No request needs more of the rows than their keys.
LEMMA NextStep == IInv /\ [Next]_vars => IInv' /\ (vars' = vars \/ Touches)
<1> SUFFICES ASSUME IInv, [Next]_vars PROVE IInv' /\ (vars' = vars \/ Touches)
  OBVIOUS
<1>1. CASE UNCHANGED vars
  BY <1>1 DEF vars, IInv, TypeOK, NamesWhatItSpells
<1>2. CASE Next
  BY <1>2, AddStep, OneNumberStep, AssignTaskStep, GetStep DEF Next
<1> QED
  BY <1>1, <1>2

\* At first there are no rows.
LEMMA InitInv == Init => IInv
<1> SUFFICES ASSUME Init PROVE IInv
  OBVIOUS
<1>1. Rows(store)
  BY DEF Init, EmptyStore, Rows, StoreType, TasksKeyed, ForeignKeysHold
<1>2. /\ last.op = "none" /\ last.spelled = <<>> /\ last.named = <<>> /\ last.result = "none"
  BY DEF Init, NothingYet
<1>3. TypeOK
  BY <1>1, <1>2, Tuples DEF Rows, TypeOK
<1>4. NamesWhatItSpells
  BY <1>2 DEF NamesWhatItSpells
<1> QED
  BY <1>1, <1>3, <1>4 DEF IInv

-----------------------------------------------------------------------------
(* Theorems *)

\* The rows keep their keys, whatever numbers clients write.
THEOREM Invariance == Spec => []IInv
BY InitInv, NextStep, PTL DEF Spec

\* Whatever a client writes, an endpoint works on an int (get_to, stoi).
THEOREM TypeCorrect == Spec => []TypeOK
<1>1. IInv => TypeOK
  BY DEF IInv
<1> QED
  BY <1>1, Invariance, PTL

\* For all widths of the integers: a number that fits an int names the same object
\* in a path and in a payload, with a point or without (extract_json, get_to, stoi).
THEOREM SpellingsNameTheirObjects == Spec => []NamesWhatItSpells
<1>1. IInv => NamesWhatItSpells
  BY DEF IInv
<1> QED
  BY <1>1, Invariance, PTL

\* The answers of get_task, get_project and get_worker describe one world, for any
\* rows that requests can lead to (the TaskDetails view, to_json).
THEOREM AnswersAlwaysAgree == Spec => []AnswersAgree
<1>1. IInv => AnswersAgree
  BY RowsAgree DEF IInv
<1> QED
  BY <1>1, Invariance, PTL

\* A request that writes its numbers exactly changes or deletes only the task it
\* names, or the tasks of the project it names.
THEOREM OthersStayUntouched == Spec => OthersUntouched
<1>1. IInv /\ [Next]_vars =>
        [LET spelled == last'.spelled IN
         \A r \in store.tasks \ store'.tasks :
            /\ spelled # <<>>
            /\ (\A k \in DOMAIN spelled : Exact(spelled[k])) =>
                  (IF last'.op = "del_project" THEN r.project ELSE r.id) = Number(spelled[1])]_vars
  BY NextStep DEF Touches
<1> QED
  BY <1>1, Invariance, PTL DEF Spec, OthersUntouched
=============================================================================
