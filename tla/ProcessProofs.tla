---------------------------- MODULE ProcessProofs ----------------------------
(***************************************************************************)
(* Safety of module Process, with any number of starts, deaths, edits and  *)
(* requests. The first three theorems, and that answered adds are kept,    *)
(* hold for any number of processes; that a start is complete, that the    *)
(* schema is created once and that deleted projects stay deleted hold for  *)
(* the one process that is installed.                                      *)
(***************************************************************************)
EXTENDS Process, TLAPS

Whole(f) == f.version = 1 <=> f.tables

\* A statement of create_schema() that was run has left its mark in the draft.
DraftsMarked ==
    \A p \in Processes : pc[p] = "creating" =>
        /\ "tables" \notin draft[p].todo => draft[p].file.tables
        /\ "version" \notin draft[p].todo => draft[p].file.version = 1

\* Where a process has a database
HasOpened == {"fresh", "creating", "boot_admin", "boot_default", "listen", "serving"}

\* SqliteConfig and the Config it reads belong to the process.
Placed ==
    \A p \in Processes : pc[p] \in HasOpened =>
        opened[p] \in Paths /\ opened[p] = settings[p].path

\* Answers come from processes that still listen, and from the file they opened.
AnswersFromListeners ==
    \A a \in answers : pc[a.from] = "serving" /\ a.path = opened[a.from]

IInv == TypeOK /\ DraftsMarked /\ Placed /\ AnswersFromListeners /\ SchemaIsWhole

-----------------------------------------------------------------------------
(* The file *)

\* AddProject and DelProject keep the tables well formed.
LEMMA ProjectsTyped ==
    ASSUME NEW d \in StoreType, NEW i
    PROVE  /\ InsertProject(d) \in StoreType /\ d.lastProject + 1 \in Nat
           /\ DeleteProject(d, i) \in StoreType
<1>1. d.projects \cup {d.lastProject + 1} \in SUBSET Nat /\ d.lastProject + 1 \in Nat
  BY DEF StoreType
<1>2. InsertProject(d) \in StoreType
  BY <1>1 DEF StoreType, InsertProject
<1>3. DeleteProject(d, i) \in StoreType
  BY DEF StoreType, DeleteProject
<1> QED
  BY <1>1, <1>2, <1>3

\* A new store of the file leaves its schema alone.
LEMMA StoreReplaced ==
    ASSUME NEW f \in FileType, NEW d \in StoreType
    PROVE  LET g == [f EXCEPT !.store = d] IN
           /\ g \in FileType /\ g.version = f.version /\ g.tables = f.tables
           /\ g.booted = f.booted
BY DEF FileType

\* create_schema(), one statement
LEMMA CreateSchemaMarks ==
    ASSUME NEW f \in FileType
    PROVE  /\ CreateSchema(f, "tables") \in FileType /\ CreateSchema(f, "tables").tables
           /\ CreateSchema(f, "tables").version = f.version
           /\ CreateSchema(f, "version") \in FileType
           /\ CreateSchema(f, "version").version = 1
           /\ CreateSchema(f, "version").tables = f.tables
<1>1. EmptyStore \in StoreType
  BY DEF EmptyStore, StoreType
<1>2. CreateSchema(f, "tables") = [f EXCEPT !.tables = TRUE, !.booted = {}, !.store = EmptyStore]
  BY DEF CreateSchema
<1>3. CreateSchema(f, "version") = [f EXCEPT !.version = 1]
  BY DEF CreateSchema
<1>4. /\ CreateSchema(f, "tables") \in FileType
      /\ CreateSchema(f, "tables").version = f.version
  BY <1>1, <1>2 DEF FileType
<1>5. CreateSchema(f, "tables").tables
  BY <1>2 DEF FileType
<1>6. /\ CreateSchema(f, "version") \in FileType
      /\ CreateSchema(f, "version").version = 1
      /\ CreateSchema(f, "version").tables = f.tables
  BY <1>3 DEF FileType
<1> QED
  BY <1>4, <1>5, <1>6

\* SqliteDatabase's constructor ends with a whole schema, and leaves one it finds.
LEMMA OpenDatabaseWhole ==
    ASSUME NEW f \in FileType, Whole(f)
    PROVE  /\ OpenDatabase(f) \in FileType /\ Whole(OpenDatabase(f))
           /\ OpenDatabase(f).version = 1
           /\ f.version = 1 => OpenDatabase(f) = f
<1>1. CASE f.version = 0
  <2> DEFINE g == CreateSchema(f, "tables")
  <2>1. g \in FileType /\ g.tables
    BY CreateSchemaMarks
  <2>2. OpenDatabase(f) = CreateSchema(g, "version")
    BY <1>1 DEF OpenDatabase, NeedsSchema
  <2> HIDE DEF g
  <2>3. OpenDatabase(f) \in FileType /\ OpenDatabase(f).version = 1 /\ OpenDatabase(f).tables
    BY <2>1, <2>2, CreateSchemaMarks
  <2> QED
    BY <1>1, <2>3 DEF Whole
<1>2. CASE f.version # 0
  BY <1>2 DEF OpenDatabase, NeedsSchema, FileType
<1> QED
  BY <1>1, <1>2

-----------------------------------------------------------------------------
(* Initiation and consecution *)

\* A file whose schema an earlier process created
LEMMA SchemaThere ==
    ASSUME NEW f \in FileType PROVE [f EXCEPT !.version = 1, !.tables = TRUE] \in FileType
<1> DEFINE g == [f EXCEPT !.version = 1]
<1>1. g \in FileType
  BY DEF FileType
<1>2. [g EXCEPT !.tables = TRUE] = [f EXCEPT !.version = 1, !.tables = TRUE]
  OBVIOUS
<1> HIDE DEF g
<1>3. [g EXCEPT !.tables = TRUE] \in FileType
  BY <1>1 DEF FileType
<1> QED
  BY <1>2, <1>3

\* What a process has that does not run
LEMMA NothingTyped ==
    /\ NoFile \in FileType /\ NoConfig \in ConfigType
    /\ NoDraft \in [todo : SUBSET SchemaWork, file : FileType]
<1>1. EmptyStore \in StoreType
  BY DEF EmptyStore, StoreType
<1>2. NoFile \in FileType
  BY <1>1 DEF NoFile, FileType
<1> QED
  BY <1>2 DEF NoDraft, NoConfig, ConfigType

\* Nothing runs, and every file is new or has a schema.
LEMMA InitInv == Init => IInv
<1> SUFFICES ASSUME Init PROVE IInv
  OBVIOUS
<1> USE ProcessAssumption DEF Init
<1>1. [NoFile EXCEPT !.version = 1, !.tables = TRUE] \in FileType
  BY NothingTyped, SchemaThere
<1>2. files \in [Paths -> FileType]
  BY NothingTyped, <1>1
<1>3. TypeOK
  <2>1. client \in [Clients -> ClientType]
    BY DEF ClientType
  <2> QED
    BY NothingTyped, <1>2, <2>1 DEF TypeOK
<1>4. SchemaIsWhole
  BY DEF SchemaIsWhole, NoFile
<1> QED
  BY <1>3, <1>4 DEF IInv, DraftsMarked, Placed, HasOpened, AnswersFromListeners

\* A start, from reading the configuration to the transaction of the schema
LEMMA OpenInv ==
    ASSUME IInv, NEW p \in Processes,
           Start(p) \/ LoadConfig(p) \/ OpenAtStart(p) \/ BeginSchema(p)
    PROVE  IInv'
<1> USE DEF Start, LoadConfig, OpenAtStart, BeginSchema, clientVars, operatorVars
<1>1. UNCHANGED <<files, wire, answers, client, config, edits, deaths, recreated>>
  OBVIOUS
<1>2. TypeOK'
  <2>1. settings' \in [Processes -> ConfigType]
    BY ProcessAssumption DEF IInv, TypeOK
  <2>2. opened' \in [Processes -> Paths \cup {NoPath}]
    BY DEF IInv, TypeOK, ConfigType
  <2>3. draft' \in [Processes -> [todo : SUBSET SchemaWork, file : FileType]]
    <3>1. CASE BeginSchema(p)
      <4>1. opened[p] \in Paths
        BY <3>1 DEF IInv, Placed, HasOpened
      <4>2. files[opened[p]] \in FileType
        BY <4>1 DEF IInv, TypeOK
      <4> QED
        BY <3>1, <4>2 DEF IInv, TypeOK
    <3> QED
      BY <3>1 DEF IInv, TypeOK
  <2>4. pc' \in [Processes -> {"dead", "starting", "configured", "fresh", "creating",
                              "boot_admin", "boot_default", "listen", "serving"}]
    BY DEF IInv, TypeOK
  <2> QED
    BY <1>1, <2>1, <2>2, <2>3, <2>4 DEF IInv, TypeOK
<1>3. DraftsMarked'
  BY DEF IInv, TypeOK, DraftsMarked, SchemaWork
<1>4. Placed'
  BY ProcessAssumption DEF IInv, TypeOK, Placed, HasOpened, ConfigType
<1>5. AnswersFromListeners'
  <2>1. \A q \in Processes : pc[q] = "serving" => pc'[q] = "serving" /\ opened'[q] = opened[q]
    BY DEF IInv, TypeOK
  <2> QED
    BY <1>1, <2>1 DEF IInv, TypeOK, AnswerType, AnswersFromListeners
<1>6. SchemaIsWhole'
  BY <1>1 DEF IInv, SchemaIsWhole
<1> QED
  BY <1>2, <1>3, <1>4, <1>5, <1>6 DEF IInv

\* create_schema(): a statement marks the draft, and the commit publishes it whole.
LEMMA SchemaInv ==
    ASSUME IInv, NEW p \in Processes,
           (\E work \in SchemaWork : SchemaStatement(p, work)) \/ CommitSchema(p)
    PROVE  IInv'
<1>1. /\ UNCHANGED <<settings, opened, wire, answers, client, config, edits, deaths>>
      /\ pc[p] = "creating"
  BY DEF SchemaStatement, CommitSchema, clientVars, operatorVars
<1>2. /\ opened[p] \in Paths /\ draft[p].file \in FileType /\ draft[p].todo \subseteq SchemaWork
      /\ "tables" \notin draft[p].todo => draft[p].file.tables
      /\ "version" \notin draft[p].todo => draft[p].file.version = 1
  BY <1>1 DEF IInv, TypeOK, Placed, HasOpened, DraftsMarked
<1>3. ASSUME NEW work \in SchemaWork, SchemaStatement(p, work) PROVE IInv'
  <2> DEFINE d == [todo |-> draft[p].todo \ {work}, file |-> CreateSchema(draft[p].file, work)]
  <2>1. draft' = [draft EXCEPT ![p] = d] /\ UNCHANGED <<files, pc, recreated>>
    BY <1>3 DEF SchemaStatement
  <2>2. /\ d.file \in FileType /\ d.todo \subseteq SchemaWork
        /\ "tables" \notin d.todo => d.file.tables
        /\ "version" \notin d.todo => d.file.version = 1
    BY <1>2, CreateSchemaMarks DEF SchemaWork
  <2>3. d \in [todo : SUBSET SchemaWork, file : FileType]
    BY <2>2
  <2> HIDE DEF d
  <2>4. TypeOK'
    BY <1>1, <2>1, <2>3 DEF IInv, TypeOK
  <2>5. DraftsMarked'
    BY <2>1, <2>2 DEF IInv, TypeOK, DraftsMarked
  <2> QED
    BY <1>1, <2>1, <2>4, <2>5 DEF IInv, Placed, AnswersFromListeners, SchemaIsWhole
<1>4. CASE CommitSchema(p)
  <2>1. /\ files' = [files EXCEPT ![opened[p]] = draft[p].file] /\ draft[p].todo = {}
        /\ draft' = [draft EXCEPT ![p] = NoDraft] /\ pc' = [pc EXCEPT ![p] = "boot_admin"]
        /\ recreated' \in {recreated, recreated \cup {opened[p]}}
    BY <1>4 DEF CommitSchema
  <2>2. TypeOK'
    BY <1>1, <1>2, <2>1, NothingTyped DEF IInv, TypeOK
  <2>3. SchemaIsWhole'
    BY <1>2, <2>1 DEF IInv, TypeOK, SchemaIsWhole
  <2>4. DraftsMarked'
    BY <2>1 DEF IInv, TypeOK, DraftsMarked
  <2>5. Placed' /\ AnswersFromListeners'
    BY <1>1, <2>1 DEF IInv, TypeOK, Placed, HasOpened, AnswersFromListeners
  <2> QED
    BY <2>2, <2>3, <2>4, <2>5 DEF IInv
<1> QED
  BY <1>3, <1>4

\* The bootstraps, and the listener
LEMMA ReadyInv ==
    ASSUME IInv, NEW p \in Processes,
           \/ Bootstrap(p, "admin", "boot_admin", "boot_default")
           \/ Bootstrap(p, "default", "boot_default", "listen")
           \/ Listen(p)
    PROVE  IInv'
<1>1. /\ UNCHANGED <<settings, opened, draft, wire, answers, client, config, edits, deaths, recreated>>
      /\ pc[p] \in {"boot_admin", "boot_default", "listen"}
      /\ \E l \in {"boot_default", "listen", "serving"} : pc' = [pc EXCEPT ![p] = l]
  BY DEF Bootstrap, Listen, clientVars, operatorVars
<1>2. opened[p] \in Paths
  BY <1>1 DEF IInv, Placed, HasOpened
<1>3. /\ files' \in [Paths -> FileType]
      /\ \A f \in Paths : files'[f].version = files[f].version /\ files'[f].tables = files[f].tables
  <2>1. CASE files' = files
    BY <2>1 DEF IInv, TypeOK
  <2>2. ASSUME NEW which \in {"admin", "default"}, files' = [files EXCEPT ![opened[p]].booted = @ \cup {which}]
        PROVE  <1>3!:
    <3> DEFINE f == files[opened[p]]
               g == [f EXCEPT !.booted = f.booted \cup {which}]
    <3>1. f \in FileType
      BY <1>2 DEF IInv, TypeOK
    <3>2. files' = [files EXCEPT ![opened[p]] = g]
      BY <2>2
    <3> HIDE DEF f
    <3>3. g \in FileType /\ g.version = f.version /\ g.tables = f.tables
      BY <3>1 DEF FileType
    <3> USE DEF f
    <3> HIDE DEF g
    <3> QED
      BY <1>2, <3>2, <3>3 DEF IInv, TypeOK
  <2> QED
    BY <2>1, <2>2 DEF Bootstrap, Listen
<1>4. TypeOK'
  BY <1>1, <1>3 DEF IInv, TypeOK
<1>5. DraftsMarked' /\ Placed' /\ AnswersFromListeners'
  BY <1>1 DEF IInv, TypeOK, DraftsMarked, Placed, HasOpened, AnswersFromListeners
<1>6. SchemaIsWhole'
  BY <1>3 DEF IInv, SchemaIsWhole
<1> QED
  BY <1>4, <1>5, <1>6 DEF IInv

\* The end of a process takes its transaction and its connections with it.
LEMMA EndInv ==
    ASSUME IInv, NEW p \in Processes, Fail(p) \/ Die(p)
    PROVE  IInv'
<1>1. /\ pc' = [pc EXCEPT ![p] = "dead"] /\ settings' = [settings EXCEPT ![p] = NoConfig]
      /\ opened' = [opened EXCEPT ![p] = NoPath] /\ draft' = [draft EXCEPT ![p] = NoDraft]
      /\ wire' \in {wire, {}} /\ answers' = IF pc[p] = "serving" THEN {} ELSE answers
      /\ UNCHANGED <<files, client, config, edits, recreated>>
  BY DEF Fail, Die, End, operatorVars
<1>2. deaths' \in 0..MaxDeaths
  BY ProcessAssumption DEF Fail, Die, operatorVars, IInv, TypeOK
<1>3. TypeOK'
  BY <1>1, <1>2, NothingTyped DEF IInv, TypeOK
<1>4. DraftsMarked' /\ SchemaIsWhole'
  BY <1>1 DEF IInv, TypeOK, DraftsMarked, SchemaIsWhole
<1>5. Placed' /\ AnswersFromListeners'
  BY <1>1 DEF IInv, TypeOK, AnswerType, Placed, HasOpened, AnswersFromListeners
<1> QED
  BY <1>3, <1>4, <1>5 DEF IInv

\* The operator and the clients, and requests that find the file busy
LEMMA OutsideInv ==
    ASSUME IInv,
           \/ \E c \in Configs : Edit(c)
           \/ \E c \in Clients : \/ Ask(c, "idle", "adding")
                                 \/ Ask(c, "added", "deleting")
                                 \/ AskAgain(c)
           \/ \E p \in Processes, m \in wire : Refuse(p, m)
           \/ \E a \in answers : Receive(a)
    PROVE  IInv'
<1> USE DEF Edit, Ask, AskAgain, Refuse, Receive, clientVars, operatorVars
<1>1. UNCHANGED <<files, pc, settings, opened, draft, deaths, recreated>> /\ answers' \subseteq answers
  OBVIOUS
<1>2. wire' \subseteq MessageType /\ client' \in [Clients -> ClientType]
  <2>1. CASE \E c \in Clients : Ask(c, "idle", "adding") \/ Ask(c, "added", "deleting")
    <3>1. PICK c \in Clients : Ask(c, "idle", "adding") \/ Ask(c, "added", "deleting")
      BY <2>1
    <3>2. PICK to \in {"adding", "deleting"} :
            /\ client' = [client EXCEPT ![c].phase = to, ![c].sends = 1]
            /\ wire' = wire \cup {[client |-> c, op |-> to, id |-> client[c].id, copy |-> 1]}
      BY <3>1
    <3> DEFINE x == [client[c] EXCEPT !.phase = to, !.sends = 1]
    <3>3. client[c] \in ClientType
      BY DEF IInv, TypeOK
    <3>4. x \in ClientType /\ client[c].id \in Nat
      BY <3>3 DEF ClientType
    <3>5. client' = [client EXCEPT ![c] = x]
      BY <3>2
    <3> HIDE DEF x
    <3> QED
      BY <3>2, <3>4, <3>5 DEF IInv, TypeOK, MessageType
  <2>2. CASE \E c \in Clients : AskAgain(c)
    BY <2>2 DEF IInv, TypeOK, MessageType, ClientType
  <2>3. CASE \E a \in answers : Receive(a)
    BY <2>3 DEF IInv, TypeOK, AnswerType, ClientType
  <2>4. CASE \/ \E c \in Configs : Edit(c)
             \/ \E p \in Processes, m \in wire : Refuse(p, m)
    BY <2>4 DEF IInv, TypeOK
  <2> QED
    BY <2>1, <2>2, <2>3, <2>4
<1>3. config' \in Configs /\ edits' \in 0..MaxEdits
  <2>1. CASE \E c \in Configs : Edit(c)
    BY <2>1, ProcessAssumption DEF IInv, TypeOK
  <2>2. CASE UNCHANGED <<config, edits>>
    BY <2>2 DEF IInv, TypeOK
  <2> QED
    BY <2>1, <2>2
<1>4. TypeOK'
  BY <1>1, <1>2, <1>3 DEF IInv, TypeOK
<1>5. DraftsMarked' /\ Placed' /\ AnswersFromListeners' /\ SchemaIsWhole'
  BY <1>1 DEF IInv, DraftsMarked, Placed, AnswersFromListeners, SchemaIsWhole
<1> QED
  BY <1>4, <1>5 DEF IInv

\* What a request leaves of the file it works on
LEMMA HandleFile ==
    ASSUME IInv, NEW p \in Processes, NEW m \in wire, Handle(p, m)
    PROVE  /\ pc[p] = "serving" /\ settings[p].path \in Paths
           /\ \E g \in FileType :
                /\ files' = [files EXCEPT ![settings[p].path] = g] /\ Whole(g)
                /\ files[settings[p].path].version = 1 =>
                      g.version = 1 /\ g.booted = files[settings[p].path].booted
           /\ \E i \in Nat : answers' = answers \cup
                {[client |-> m.client, op |-> m.op, id |-> i, path |-> settings[p].path, from |-> p]}
<1> DEFINE path == settings[p].path
           file == OpenDatabase(files[path])
<1>1. pc[p] = "serving" /\ m.id \in Nat
  BY DEF Handle, IInv, TypeOK, MessageType
<1>2. path \in Paths
  BY <1>1 DEF IInv, Placed, HasOpened
<1>3. files[path] \in FileType /\ Whole(files[path])
  BY <1>2 DEF IInv, TypeOK, SchemaIsWhole, Whole
<1>4. file \in FileType /\ Whole(file) /\ (files[path].version = 1 => file = files[path])
  BY <1>3, OpenDatabaseWhole
<1>5. \E d \in StoreType, i \in Nat :
        /\ files' = [files EXCEPT ![path] = [file EXCEPT !.store = d]]
        /\ answers' = answers \cup
             {[client |-> m.client, op |-> m.op, id |-> i, path |-> path, from |-> p]}
  <2>1. file.store \in StoreType
    BY <1>4 DEF FileType
  <2>2. /\ InsertProject(file.store) \in StoreType /\ file.store.lastProject + 1 \in Nat
        /\ DeleteProject(file.store, m.id) \in StoreType
    BY <2>1, ProjectsTyped
  <2> QED
    BY <1>1, <2>2 DEF Handle, RequestPath
<1>6. PICK d \in StoreType : files' = [files EXCEPT ![path] = [file EXCEPT !.store = d]]
  BY <1>5
<1> DEFINE g == [file EXCEPT !.store = d]
<1> HIDE DEF file
<1>7. g \in FileType /\ g.version = file.version /\ g.tables = file.tables /\ g.booted = file.booted
  BY <1>4, StoreReplaced
<1>8. Whole(g) /\ (files[path].version = 1 => g.version = 1 /\ g.booted = files[path].booted)
  BY <1>4, <1>7 DEF Whole
<1> HIDE DEF g
<1>9. files' = [files EXCEPT ![path] = g]
  BY <1>6 DEF g
<1> QED
  BY <1>1, <1>2, <1>5, <1>7, <1>8, <1>9

\* A request leaves a whole schema, and answers from the file of its process.
LEMMA HandleInv ==
    ASSUME IInv, NEW p \in Processes, NEW m \in wire, Handle(p, m) PROVE IInv'
<1>1. PICK g \in FileType : files' = [files EXCEPT ![settings[p].path] = g] /\ Whole(g)
  BY HandleFile
<1>2. PICK i \in Nat : answers' = answers \cup
        {[client |-> m.client, op |-> m.op, id |-> i, path |-> settings[p].path, from |-> p]}
  BY HandleFile
<1>3. /\ UNCHANGED <<pc, settings, opened, draft, client, config, edits, deaths, recreated>>
      /\ wire' \subseteq wire
  BY DEF Handle, operatorVars
<1>4. pc[p] = "serving" /\ settings[p].path \in Paths /\ opened[p] = settings[p].path
  BY HandleFile DEF IInv, Placed, HasOpened
<1>5. answers' \subseteq AnswerType
  BY <1>2, <1>4 DEF IInv, TypeOK, AnswerType, MessageType
<1>6. TypeOK'
  BY <1>1, <1>3, <1>4, <1>5 DEF IInv, TypeOK
<1>7. AnswersFromListeners'
  BY <1>2, <1>3, <1>4 DEF IInv, AnswersFromListeners
<1>8. SchemaIsWhole'
  BY <1>1, <1>4 DEF IInv, TypeOK, SchemaIsWhole, Whole
<1>9. DraftsMarked' /\ Placed'
  BY <1>3 DEF IInv, DraftsMarked, Placed
<1> QED
  BY <1>6, <1>7, <1>8, <1>9 DEF IInv

\* Every step keeps the invariant.
LEMMA NextInv == IInv /\ [Next]_vars => IInv'
<1> SUFFICES ASSUME IInv, [Next]_vars PROVE IInv'
  OBVIOUS
<1>1. ASSUME NEW p \in Processes, StartUp(p) PROVE IInv'
  BY <1>1, OpenInv, SchemaInv, ReadyInv, EndInv DEF StartUp
<1>2. CASE UNCHANGED vars
  BY <1>2 DEF vars, IInv, TypeOK, DraftsMarked, Placed, AnswersFromListeners, SchemaIsWhole
<1>3. ASSUME NEW p \in Processes, Idle(p) \/ Die(p) PROVE IInv'
  BY <1>2, <1>3, EndInv DEF Idle
<1>4. ASSUME NEW p \in Processes, NEW m \in wire, Handle(p, m) PROVE IInv'
  BY <1>4, HandleInv
<1> QED
  BY <1>1, <1>2, <1>3, <1>4, OutsideInv DEF Next

\* IInv is an invariant of any number of processes.
THEOREM Invariance == Spec => []IInv
<1> QED
  BY InitInv, NextInv, PTL DEF Spec

-----------------------------------------------------------------------------
(* What holds however many processes are started *)

\* Files, processes, messages and clients stay well formed.
THEOREM TypeCorrect == Spec => []TypeOK
<1>1. IInv => TypeOK
  BY DEF IInv
<1> QED
  BY <1>1, Invariance, PTL

\* A file has all of its tables or none of them, whenever a start is cut short
\* (SqliteDatabase's constructor).
THEOREM SchemaAlwaysWhole == Spec => []SchemaIsWhole
<1>1. IInv => SchemaIsWhole
  BY DEF IInv
<1> QED
  BY <1>1, Invariance, PTL

\* Requests and Authenticator of a process use one file, whatever becomes of the
\* configuration (the lifetime of SqliteConfig and Config).
THEOREM DatabaseIsShared == Spec => []OneDatabasePerProcess
<1>1. IInv => OneDatabasePerProcess
  BY DEF IInv, AnswersFromListeners, OneDatabasePerProcess
<1> QED
  BY <1>1, Invariance, PTL

-----------------------------------------------------------------------------
(* One process *)

OneProcess == \A p, q \in Processes : p = q

\* What is behind the process at each point of its start
Advanced ==
    \A p \in Processes :
        /\ pc[p] \in {"fresh", "creating"} => files[opened[p]].version = 0
        /\ pc[p] \in {"boot_admin", "boot_default", "listen", "serving"} =>
              files[opened[p]].version = 1
        /\ pc[p] \in {"boot_default", "listen", "serving"} =>
              settings[p].auth /\ "admin" \in files[opened[p]].booted
        /\ pc[p] \in {"listen", "serving"} => "default" \in files[opened[p]].booted
        /\ pc[p] = "serving" => settings[p].http

\* Each step of a start finds what the ones before it have done.
LEMMA StartUpAdvances ==
    ASSUME OneProcess, IInv, Advanced, NEW p \in Processes, StartUp(p)
    PROVE  Advanced' /\ recreated' = recreated
<1>1. \A q \in Processes : q = p
  BY DEF OneProcess
<1>2. CASE Start(p) \/ LoadConfig(p) \/ BeginSchema(p) \/ \E work \in SchemaWork : SchemaStatement(p, work)
  BY <1>1, <1>2 DEF Start, LoadConfig, BeginSchema, SchemaStatement, clientVars, operatorVars,
     IInv, TypeOK, Advanced
<1>3. CASE OpenAtStart(p)
  <2>1. settings[p].path \in Paths
    BY <1>3 DEF OpenAtStart, IInv, TypeOK, ConfigType
  <2>2. files[settings[p].path].version \in 0..1
    BY <2>1 DEF IInv, TypeOK, FileType
  <2> QED
    BY <1>1, <1>3, <2>1, <2>2 DEF OpenAtStart, NeedsSchema, clientVars, operatorVars, IInv, TypeOK, Advanced
<1>4. CASE CommitSchema(p)
  <2>1. opened[p] \in Paths /\ draft[p].file.version = 1 /\ files[opened[p]].version = 0
    BY <1>4 DEF CommitSchema, IInv, Placed, HasOpened, DraftsMarked, Advanced
  <2> QED
    BY <1>1, <1>4, <2>1 DEF CommitSchema, clientVars, operatorVars, IInv, TypeOK, Advanced
<1>5. ASSUME NEW which \in {"admin", "default"}, NEW from, NEW to, Bootstrap(p, which, from, to),
             <<which, from, to>> \in {<<"admin", "boot_admin", "boot_default">>,
                                      <<"default", "boot_default", "listen">>}
      PROVE  Advanced' /\ recreated' = recreated
  <2> DEFINE f == files[opened[p]]
             g == [f EXCEPT !.booted = f.booted \cup {which}]
  <2>1. opened[p] \in Paths
    BY <1>5 DEF Bootstrap, IInv, Placed, HasOpened
  <2>2. f \in FileType
    BY <2>1 DEF IInv, TypeOK
  <2>3. files' = [files EXCEPT ![opened[p]] = g]
    BY <1>5 DEF Bootstrap
  <2>4. g.version = f.version /\ g.booted = f.booted \cup {which}
    BY <2>2 DEF FileType
  <2> HIDE DEF g
  <2>5. files'[opened[p]] = g
    BY <2>1, <2>3 DEF IInv, TypeOK
  <2> QED
    BY <1>1, <1>5, <2>4, <2>5 DEF Bootstrap, clientVars, operatorVars, IInv, TypeOK, Advanced
<1>6. CASE Listen(p) \/ Fail(p)
  BY <1>1, <1>6 DEF Listen, Fail, End, clientVars, operatorVars, IInv, TypeOK, Advanced
<1> QED
  BY <1>2, <1>3, <1>4, <1>5, <1>6 DEF StartUp

\* Nothing else takes back what a start has done.
LEMMA NextAdvances ==
    ASSUME OneProcess, IInv, Advanced, [Next]_vars
    PROVE  Advanced' /\ recreated' = recreated
<1>1. ASSUME NEW p \in Processes, NEW m \in wire, Handle(p, m) PROVE Advanced' /\ recreated' = recreated
  <2>1. PICK g \in FileType :
          /\ files' = [files EXCEPT ![settings[p].path] = g]
          /\ files[settings[p].path].version = 1 =>
                g.version = 1 /\ g.booted = files[settings[p].path].booted
    BY <1>1, HandleFile
  <2>2. pc[p] = "serving" /\ settings[p].path \in Paths /\ opened[p] = settings[p].path
    BY <1>1, HandleFile DEF IInv, Placed, HasOpened
  <2>3. files'[opened[p]] = g /\ g.version = 1 /\ g.booted = files[opened[p]].booted
    BY <2>1, <2>2 DEF IInv, TypeOK, Advanced
  <2>4. UNCHANGED <<pc, settings, opened, recreated>> /\ \A q \in Processes : q = p
    BY <1>1 DEF Handle, operatorVars, OneProcess
  <2>5. \A q \in Processes : /\ files'[opened[q]].version = files[opened[q]].version
                             /\ files'[opened[q]].booted = files[opened[q]].booted
    BY <2>2, <2>3, <2>4 DEF Advanced
  <2> QED
    BY <2>4, <2>5 DEF Advanced
<1>2. ASSUME NEW p \in Processes, Die(p) PROVE Advanced' /\ recreated' = recreated
  BY <1>2 DEF Die, End, OneProcess, IInv, TypeOK, Advanced
<1>3. CASE UNCHANGED <<files, pc, settings, opened, recreated>>
  BY <1>3 DEF Advanced
<1>4. ASSUME NEW p \in Processes, Idle(p) PROVE UNCHANGED <<files, pc, settings, opened, recreated>>
  BY <1>4 DEF Idle, vars
<1>5. ASSUME \/ \E c \in Configs : Edit(c)
             \/ \E c \in Clients : \/ Ask(c, "idle", "adding")
                                   \/ Ask(c, "added", "deleting")
                                   \/ AskAgain(c)
             \/ \E p \in Processes, m \in wire : Refuse(p, m)
             \/ \E a \in answers : Receive(a)
      PROVE  UNCHANGED <<files, pc, settings, opened, recreated>>
  BY <1>5 DEF Edit, Ask, AskAgain, Refuse, Receive
<1> QED
  BY <1>1, <1>2, <1>3, <1>4, <1>5, StartUpAdvances DEF Next, vars

\* With one process, the way to its listener leads through every step of the start.
LEMMA OneProcessInvariance ==
    ASSUME OneProcess PROVE Spec => [](IInv /\ Advanced /\ recreated = {})
<1>1. Init => Advanced /\ recreated = {}
  BY DEF Init, Advanced
<1>2. IInv /\ (Advanced /\ recreated = {}) /\ [Next]_vars => (Advanced /\ recreated = {})'
  BY NextAdvances
<1> QED
  BY <1>1, <1>2, Invariance, PTL DEF Spec

\* The process listens only with a complete configuration, a schema, and both
\* bootstraps behind it, whatever its earlier starts failed at (App::start).
THEOREM ServesOnlyWhenReady == ASSUME OneProcess PROVE Spec => []ServesWhenReady
<1>1. IInv /\ Advanced => ServesWhenReady
  <2> SUFFICES ASSUME IInv, Advanced, NEW p \in Processes, pc[p] = "serving"
               PROVE  /\ settings[p].auth /\ settings[p].http
                      /\ files[opened[p]].version = 1
                      /\ files[opened[p]].booted = {"admin", "default"}
    BY DEF ServesWhenReady
  <2>1. files[opened[p]] \in FileType
    BY DEF IInv, TypeOK, Placed, HasOpened
  <2>2. files[opened[p]].booted \subseteq {"admin", "default"}
    BY <2>1 DEF FileType
  <2> QED
    BY <2>2 DEF Advanced
<1> QED
  BY <1>1, OneProcessInvariance, PTL

\* The process creates the schema of no file that has one (SqliteDatabase), so no
\* row is ever dropped with its table.
THEOREM SchemaCreatedOnce == ASSUME OneProcess PROVE Spec => []NeverRecreated
<1>1. recreated = {} => NeverRecreated
  BY DEF NeverRecreated
<1> QED
  BY <1>1, OneProcessInvariance, PTL

-----------------------------------------------------------------------------
(* What clients were told about their projects *)

SingleFile == \A f, g \in Paths : f = g
SingleClient == \A c, d \in Clients : c = d

Stored(i, f) == f \in recreated \/ i \in files[f].store.projects

HasId(c) == client[c].phase \in {"added", "deleting", "deleted"}

\* The project that an answered, or still to be answered, add made is in its file;
\* deletes are under way for nothing but the project of the client that asked.
AddsStored ==
    /\ \A a \in answers :
          /\ files[a.path].version = 1 /\ client[a.client].phase # "idle"
          /\ a.op = "adding" /\ client[a.client].phase = "adding" => Stored(a.id, a.path)
          /\ a.op = "deleting" =>
                client[a.client].phase \in {"deleting", "deleted"} /\ a.id = client[a.client].id
    /\ \A c \in Clients :
          /\ HasId(c) => client[c].path \in Paths /\ files[client[c].path].version = 1
          /\ client[c].phase = "added" => Stored(client[c].id, client[c].path)
    /\ \A m \in wire :
          /\ client[m.client].phase # "idle"
          /\ m.op = "deleting" =>
                client[m.client].phase \in {"deleting", "deleted"} /\ m.id = client[m.client].id

\* An id is told to one client only, and the next project gets a higher one.
IdsDistinct ==
    \A f \in Paths \ recreated :
        /\ \A a \in answers : a.op = "adding" =>
              /\ a.id <= files[f].store.lastProject
              /\ \A b \in answers : b.op = "adding" /\ b.id = a.id => b = a
              /\ \A c \in Clients : HasId(c) => client[c].id # a.id
        /\ \A c \in Clients : HasId(c) =>
              /\ client[c].id <= files[f].store.lastProject
              /\ \A d \in Clients : HasId(d) /\ client[d].id = client[c].id => d = c

\* A project is gone when the client learns so.
DeletedGone ==
    /\ \A c \in Clients : client[c].phase = "deleted" =>
          client[c].id \notin files[client[c].path].store.projects
    /\ \A a \in answers : a.op = "deleting" =>
          a.id \notin files[a.path].store.projects

Ledger ==
    /\ AddsStored
    /\ SingleFile => IdsDistinct
    /\ SingleFile /\ recreated = {} => DeletedGone

\* Where messages come from and go to
LEMMA MessagesTyped ==
    ASSUME IInv
    PROVE  /\ \A a \in answers : /\ a.client \in Clients /\ a.path \in Paths /\ a.id \in Nat
                                 /\ a.op \in {"adding", "deleting"}
           /\ \A m \in wire : m.client \in Clients /\ m.op \in {"adding", "deleting"} /\ m.id \in Nat
           /\ \A c \in Clients : client[c].id \in Nat /\ client[c].path \in Paths \cup {NoPath}
           /\ client = [c \in Clients |-> client[c]]
           /\ \A c \in Clients : client[c] = [phase |-> client[c].phase, id |-> client[c].id,
                                              path |-> client[c].path, sends |-> client[c].sends]
           /\ \A f \in Paths : files[f].version \in 0..1 /\ files[f].store.lastProject \in Nat
BY DEF IInv, TypeOK, AnswerType, MessageType, ClientType, FileType, StoreType

\* Messages may be lost: starts, deaths and errors change nothing else of this.
LEMMA LossKeeps ==
    ASSUME IInv, Ledger, answers' \subseteq answers, wire' \subseteq wire, UNCHANGED <<client, recreated>>,
           \A f \in Paths : files'[f].store = files[f].store /\ files'[f].version = files[f].version
    PROVE  Ledger'
<1>1. AddsStored'
  BY MessagesTyped DEF Ledger, AddsStored, HasId, Stored
<1>2. ASSUME SingleFile PROVE IdsDistinct'
  BY <1>2, MessagesTyped DEF Ledger, IdsDistinct, HasId
<1>3. ASSUME SingleFile, recreated = {} PROVE DeletedGone'
  <2>1. \A c \in Clients : client[c].phase = "deleted" => client[c].path \in Paths
    BY DEF Ledger, AddsStored, HasId
  <2> QED
    BY <1>3, <2>1, MessagesTyped DEF Ledger, DeletedGone
<1> QED
  BY <1>1, <1>2, <1>3 DEF Ledger, SingleFile

\* The schema is created where nobody was answered yet, or the file counts as
\* recreated.
LEMMA CommitSchemaKeeps ==
    ASSUME IInv, Ledger, NEW p \in Processes, CommitSchema(p) PROVE Ledger'
<1> DEFINE f == opened[p]
<1>1. /\ f \in Paths /\ files' = [files EXCEPT ![f] = draft[p].file] /\ draft[p].file.version = 1
      /\ UNCHANGED <<wire, answers, client>>
  BY DEF CommitSchema, clientVars, IInv, DraftsMarked, Placed, HasOpened
<1>2. \A g \in Paths : files'[g].version = 1 \/ files'[g] = files[g]
  BY <1>1 DEF IInv, TypeOK
<1>3. \A g \in Paths \ {f} : files'[g] = files[g]
  BY <1>1 DEF IInv, TypeOK
<1>4. CASE files[f].version = 0
  <2>1. recreated' = recreated
    BY <1>4 DEF CommitSchema
  <2>2. /\ \A a \in answers : a.path # f
        /\ \A c \in Clients : HasId(c) => client[c].path # f
    BY <1>4 DEF Ledger, AddsStored
  <2>3. AddsStored'
    BY <1>1, <1>2, <1>3, <2>1, <2>2, MessagesTyped DEF Ledger, AddsStored, HasId, Stored
  <2>4. ASSUME SingleFile PROVE answers = {} /\ \A c \in Clients : ~ HasId(c)
    BY <1>1, <2>2, <2>4, MessagesTyped DEF SingleFile, Ledger, AddsStored
  <2>5. ASSUME SingleFile PROVE IdsDistinct' /\ DeletedGone'
    BY <1>1, <2>4, <2>5 DEF IdsDistinct, DeletedGone, HasId
  <2> QED
    BY <2>3, <2>5 DEF Ledger, SingleFile
<1>5. CASE files[f].version # 0
  <2>1. recreated' = recreated \cup {f}
    BY <1>5 DEF CommitSchema
  <2>2. AddsStored'
    BY <1>1, <1>2, <1>3, <2>1, MessagesTyped DEF Ledger, AddsStored, HasId, Stored
  <2>3. ASSUME SingleFile PROVE IdsDistinct'
    BY <1>1, <2>1, <2>3 DEF SingleFile, IdsDistinct
  <2> QED
    BY <2>1, <2>2, <2>3 DEF Ledger, SingleFile
<1> QED
  BY <1>4, <1>5

\* A request: the lost message and the copy keep what it names, and no answer.
LEMMA AskKeeps ==
    ASSUME IInv, Ledger, NEW c \in Clients,
           Ask(c, "idle", "adding") \/ Ask(c, "added", "deleting") \/ AskAgain(c)
    PROVE  Ledger'
<1>1. UNCHANGED <<files, answers, recreated>>
  BY DEF Ask, AskAgain, operatorVars
<1>2. PICK r \in ClientType, phase \in {"adding", "deleting"} :
        /\ client' = [client EXCEPT ![c] = r]
        /\ r.phase = phase /\ r.id = client[c].id /\ r.path = client[c].path
        /\ \/ client[c].phase = "idle" /\ phase = "adding"
           \/ client[c].phase = "added" /\ phase = "deleting"
           \/ client[c].phase = phase
        /\ \A m \in wire' \ wire : m.client = c /\ m.op = phase /\ m.id = client[c].id
  <2>1. client[c] \in ClientType
    BY DEF IInv, TypeOK
  <2>2. ASSUME NEW from, NEW phase \in {"adding", "deleting"}, Ask(c, from, phase)
        PROVE  \E r \in ClientType :
                 /\ client' = [client EXCEPT ![c] = r]
                 /\ r.phase = phase /\ r.id = client[c].id /\ r.path = client[c].path
    <3> DEFINE r == [client[c] EXCEPT !.phase = phase, !.sends = 1]
    <3>1. r \in ClientType /\ r.phase = phase /\ r.id = client[c].id /\ r.path = client[c].path
      BY <2>1 DEF ClientType
    <3>2. client' = [client EXCEPT ![c] = r]
      BY <2>2 DEF Ask
    <3> HIDE DEF r
    <3> QED
      BY <3>1, <3>2
  <2>3. ASSUME AskAgain(c)
        PROVE  \E r \in ClientType :
                 /\ client' = [client EXCEPT ![c] = r]
                 /\ r.phase = client[c].phase /\ r.id = client[c].id /\ r.path = client[c].path
    <3> DEFINE r == [client[c] EXCEPT !.sends = client[c].sends + 1]
    <3>1. /\ r \in ClientType /\ r.phase = client[c].phase
          /\ r.id = client[c].id /\ r.path = client[c].path
      BY <2>1 DEF ClientType
    <3>2. client' = [client EXCEPT ![c] = r]
      BY <2>3 DEF AskAgain
    <3> HIDE DEF r
    <3> QED
      BY <3>1, <3>2
  <2>4. ASSUME NEW from, NEW to, Ask(c, from, to)
        PROVE  /\ client[c].phase = from
               /\ \A m \in wire' \ wire : m.client = c /\ m.op = to /\ m.id = client[c].id
    BY <2>4 DEF Ask
  <2>5. ASSUME AskAgain(c)
        PROVE  /\ client[c].phase \in {"adding", "deleting"}
               /\ \A m \in wire' \ wire :
                     m.client = c /\ m.op = client[c].phase /\ m.id = client[c].id
    BY <2>5 DEF AskAgain
  <2>6. CASE Ask(c, "idle", "adding")
    BY <2>2, <2>4, <2>6
  <2>7. CASE Ask(c, "added", "deleting")
    BY <2>2, <2>4, <2>7
  <2>8. CASE AskAgain(c)
    BY <2>3, <2>5, <2>8
  <2> QED
    BY <2>6, <2>7, <2>8
<1>3. /\ client'[c].phase = phase
      /\ \A d \in Clients : client'[d].id = client[d].id /\ client'[d].path = client[d].path
      /\ \A d \in Clients \ {c} : client'[d] = client[d]
  BY <1>2 DEF IInv, TypeOK
<1>4. \A d \in Clients : HasId(d)' <=> HasId(d)
  BY <1>2, <1>3 DEF HasId
<1>5. AddsStored'
  <2>1. \A a \in answers :
          /\ files[a.path].version = 1 /\ client'[a.client].phase # "idle"
          /\ a.op = "adding" /\ client'[a.client].phase = "adding" => Stored(a.id, a.path)
          /\ a.op = "deleting" =>
                client'[a.client].phase \in {"deleting", "deleted"} /\ a.id = client'[a.client].id
    BY <1>2, <1>3, MessagesTyped DEF Ledger, AddsStored
  <2>2. \A d \in Clients :
          /\ HasId(d)' => client'[d].path \in Paths /\ files[client'[d].path].version = 1
          /\ client'[d].phase = "added" => Stored(client'[d].id, client'[d].path)
    BY <1>2, <1>3, <1>4 DEF Ledger, AddsStored
  <2>3. \A m \in wire' :
          /\ client'[m.client].phase # "idle"
          /\ m.op = "deleting" =>
                client'[m.client].phase \in {"deleting", "deleted"} /\ m.id = client'[m.client].id
    BY <1>2, <1>3, MessagesTyped DEF Ledger, AddsStored
  <2> QED
    BY <1>1, <2>1, <2>2, <2>3 DEF AddsStored, Stored, HasId
<1>6. ASSUME SingleFile PROVE IdsDistinct'
  BY <1>1, <1>3, <1>4, <1>6 DEF Ledger, IdsDistinct
<1>7. ASSUME SingleFile, recreated = {} PROVE DeletedGone'
  BY <1>1, <1>2, <1>3, <1>7 DEF Ledger, DeletedGone
<1> QED
  BY <1>1, <1>5, <1>6, <1>7 DEF Ledger, SingleFile

\* What a handler leaves in the one file that it opens
LEMMA HandleStore ==
    ASSUME IInv, NEW p \in Processes, NEW m \in wire, Handle(p, m)
    PROVE  LET path == settings[p].path
               answer(i) == [client |-> m.client, op |-> m.op, id |-> i, path |-> path, from |-> p]
           IN  /\ path \in Paths /\ \A f \in Paths \ {path} : files'[f] = files[f]
               /\ files'[path].version = 1 /\ wire' \subseteq wire /\ UNCHANGED <<client, recreated>>
               /\ \E d \in StoreType :
                    /\ files[path].version = 1 => d = files[path].store
                    /\ \/ /\ m.op = "adding"
                          /\ files'[path].store = InsertProject(d)
                          /\ answers' = answers \cup {answer(d.lastProject + 1)}
                       \/ /\ m.op = "deleting"
                          /\ files'[path].store = DeleteProject(d, m.id)
                          /\ answers' = answers \cup {answer(m.id)}
<1> DEFINE path == settings[p].path
           file == OpenDatabase(files[path])
           answer(i) == [client |-> m.client, op |-> m.op, id |-> i, path |-> path, from |-> p]
<1>1. path \in Paths
  BY HandleFile
<1>2. files[path] \in FileType /\ Whole(files[path])
  BY <1>1 DEF IInv, TypeOK, SchemaIsWhole, Whole
<1>3. file \in FileType /\ file.version = 1 /\ (files[path].version = 1 => file = files[path])
  BY <1>2, OpenDatabaseWhole
<1>4. /\ \/ /\ m.op = "adding"
            /\ files' = [files EXCEPT ![path] = [file EXCEPT !.store = InsertProject(@)]]
            /\ answers' = answers \cup {answer(file.store.lastProject + 1)}
         \/ /\ m.op = "deleting"
            /\ files' = [files EXCEPT ![path] = [file EXCEPT !.store = DeleteProject(@, m.id)]]
            /\ answers' = answers \cup {answer(m.id)}
      /\ wire' \subseteq wire /\ UNCHANGED <<client, recreated>>
  BY DEF Handle, RequestPath
<1> HIDE DEF file
<1> DEFINE d == file.store
<1>6. d \in StoreType
  BY <1>3 DEF FileType
<1>7. \A e : [file EXCEPT !.store = e].store = e /\ [file EXCEPT !.store = e].version = 1
  BY <1>3 DEF FileType
<1>8. files \in [Paths -> FileType]
  BY DEF IInv, TypeOK
<1>9. PICK e : /\ files' = [files EXCEPT ![path] = [file EXCEPT !.store = e]]
               /\ \/ m.op = "adding" /\ e = InsertProject(d)
                     /\ answers' = answers \cup {answer(d.lastProject + 1)}
                  \/ m.op = "deleting" /\ e = DeleteProject(d, m.id)
                     /\ answers' = answers \cup {answer(m.id)}
  BY <1>4
<1>10. files'[path] = [file EXCEPT !.store = e] /\ \A f \in Paths \ {path} : files'[f] = files[f]
  BY <1>1, <1>8, <1>9
<1>11. files'[path].store = e /\ files'[path].version = 1
  BY <1>7, <1>10
<1>12. files[path].version = 1 => d = files[path].store
  BY <1>3
<1> HIDE DEF d, answer, path
<1>13. \E x \in StoreType :
         /\ files[path].version = 1 => x = files[path].store
         /\ \/ /\ m.op = "adding"
               /\ files'[path].store = InsertProject(x)
               /\ answers' = answers \cup {answer(x.lastProject + 1)}
            \/ /\ m.op = "deleting"
               /\ files'[path].store = DeleteProject(x, m.id)
               /\ answers' = answers \cup {answer(m.id)}
  BY <1>6, <1>9, <1>11, <1>12
<1> QED
  BY <1>1, <1>4, <1>10, <1>11, <1>13 DEF answer, path

\* add_project and del_project, on what the ledger looks at
LEMMA ProjectsMove ==
    ASSUME NEW d \in StoreType, NEW i
    PROVE  /\ InsertProject(d).projects = d.projects \cup {d.lastProject + 1}
           /\ InsertProject(d).lastProject = d.lastProject + 1
           /\ DeleteProject(d, i).projects = d.projects \ {i}
           /\ DeleteProject(d, i).lastProject = d.lastProject
BY DEF StoreType, InsertProject, DeleteProject

\* Nobody was told of a project of a file without schema.
LEMMA NoneToldBeforeSchema ==
    ASSUME IInv, AddsStored, NEW f \in Paths, files[f].version = 0
    PROVE  /\ \A a \in answers : a.path # f
           /\ \A c \in Clients : HasId(c) => client[c].path # f
           /\ SingleFile => answers = {} /\ \A c \in Clients : ~HasId(c)
<1>1. /\ \A a \in answers : a.path # f
      /\ \A c \in Clients : HasId(c) => client[c].path # f
  BY DEF AddsStored
<1>2. ASSUME SingleFile PROVE answers = {} /\ \A c \in Clients : ~HasId(c)
  BY <1>1, <1>2, MessagesTyped DEF SingleFile, AddsStored
<1> QED
  BY <1>1, <1>2

\* add_project stores the project it answers with, under an id nobody was told.
LEMMA AddKeeps ==
    ASSUME IInv, Ledger, NEW p \in Processes, NEW m \in wire, NEW path \in Paths, NEW d \in StoreType,
           m.op = "adding", wire' \subseteq wire, UNCHANGED <<client, recreated>>,
           \A f \in Paths \ {path} : files'[f] = files[f],
           files'[path].version = 1, files[path].version = 1 => d = files[path].store,
           files'[path].store = InsertProject(d),
           answers' = answers \cup {[client |-> m.client, op |-> m.op, id |-> d.lastProject + 1,
                                     path |-> path, from |-> p]}
    PROVE  Ledger'
<1> DEFINE i == d.lastProject + 1
<1>1. /\ files'[path].store.projects = d.projects \cup {i} /\ files'[path].store.lastProject = i
      /\ d.lastProject \in Nat
  BY ProjectsMove DEF StoreType
<1>2. /\ \A f \in Paths : files[f].version = 1 =>
            files'[f].version = 1 /\ files[f].store.projects \subseteq files'[f].store.projects
      /\ i \in files'[path].store.projects
  BY <1>1
<1>3. \A f \in Paths : \A j : files[f].version = 1 /\ Stored(j, f) => Stored(j, f)'
  BY <1>2 DEF Stored
<1>4. AddsStored'
  <2>1. \A a \in answers' :
          /\ files'[a.path].version = 1 /\ client[a.client].phase # "idle"
          /\ a.op = "adding" /\ client[a.client].phase = "adding" => Stored(a.id, a.path)'
          /\ a.op = "deleting" =>
                client[a.client].phase \in {"deleting", "deleted"} /\ a.id = client[a.client].id
    <3>1. Stored(i, path)'
      BY <1>2 DEF Stored
    <3> QED
      BY <1>2, <1>3, <3>1, MessagesTyped DEF Ledger, AddsStored
  <2>2. \A c \in Clients :
          /\ HasId(c) => client[c].path \in Paths /\ files'[client[c].path].version = 1
          /\ client[c].phase = "added" => Stored(client[c].id, client[c].path)'
    BY <1>2, <1>3 DEF Ledger, AddsStored, HasId
  <2>3. \A n \in wire' :
          /\ client[n.client].phase # "idle"
          /\ n.op = "deleting" =>
                client[n.client].phase \in {"deleting", "deleted"} /\ n.id = client[n.client].id
    BY DEF Ledger, AddsStored
  <2> QED
    BY <2>1, <2>2, <2>3 DEF AddsStored, HasId, Stored
<1>5. ASSUME SingleFile PROVE IdsDistinct' /\ (recreated = {} => DeletedGone')
  <2>1. \A f \in Paths : f = path
    BY <1>5 DEF SingleFile
  <2>2. \A c \in Clients : HasId(c)' <=> HasId(c)
    BY DEF HasId
  <2>3. CASE files[path].version = 0
    <3>1. answers = {} /\ \A c \in Clients : ~HasId(c)
      BY <1>5, <2>3, NoneToldBeforeSchema DEF Ledger
    <3>2. \A a \in answers' : a.id = i /\ a.op = "adding" /\ \A b \in answers' : a = b
      BY <3>1
    <3> QED
      BY <1>1, <2>1, <2>2, <3>1, <3>2 DEF IdsDistinct, DeletedGone, HasId
  <2>4. CASE files[path].version # 0
    <3>1. d = files[path].store
      BY <2>4, MessagesTyped
    <3>2. ASSUME path \notin recreated
          PROVE  /\ \A a \in answers : a.op = "adding" => a.id < i
                 /\ \A c \in Clients : HasId(c) => client[c].id < i
      BY <1>1, <1>5, <3>1, <3>2, MessagesTyped DEF Ledger, IdsDistinct
    <3>3. IdsDistinct'
      <4> SUFFICES ASSUME path \notin recreated
                   PROVE  /\ \A a \in answers' : a.op = "adding" =>
                                /\ a.id <= i
                                /\ \A b \in answers' : b.op = "adding" /\ b.id = a.id => b = a
                                /\ \A c \in Clients : HasId(c) => client[c].id # a.id
                          /\ \A c \in Clients : HasId(c) =>
                                /\ client[c].id <= i
                                /\ \A e \in Clients : HasId(e) /\ client[e].id = client[c].id => e = c
        BY <1>1, <2>1, <2>2 DEF IdsDistinct
      <4>1. /\ \A a \in answers : a.op = "adding" =>
                  /\ \A b \in answers : b.op = "adding" /\ b.id = a.id => b = a
                  /\ \A c \in Clients : HasId(c) => client[c].id # a.id
            /\ \A c, e \in Clients : HasId(c) /\ HasId(e) /\ client[e].id = client[c].id => e = c
        BY <1>5 DEF Ledger, IdsDistinct
      <4>2. i \in Nat /\ \A a \in answers : a.id \in Nat
        BY <1>1, MessagesTyped
      <4>3. \A c \in Clients : client[c].id \in Nat
        BY MessagesTyped
      <4> HIDE DEF i
      <4>4. PICK n : /\ answers' = answers \cup {n}
                     /\ n = [client |-> m.client, op |-> m.op, id |-> i, path |-> path, from |-> p]
        BY DEF i
      <4>5. n.op = "adding" /\ n.id = i
        BY <4>4
      <4> QED
        BY <3>2, <4>1, <4>2, <4>3, <4>4, <4>5
    <3>4. ASSUME recreated = {} PROVE DeletedGone'
      <4>1. \A c \in Clients : client[c].phase = "deleted" =>
              client[c].id < i /\ client[c].id \notin d.projects
        <5>1. \A c \in Clients : client[c].phase = "deleted" => client[c].path \in Paths
          BY DEF Ledger, AddsStored, HasId
        <5> QED
          BY <1>5, <2>1, <3>1, <3>2, <3>4, <5>1 DEF Ledger, DeletedGone, HasId
      <4>2. \A a \in answers : a.op = "deleting" => a.id < i /\ a.id \notin d.projects
        <5>1. \A a \in answers : a.op = "deleting" => HasId(a.client) /\ a.id = client[a.client].id
          BY DEF Ledger, AddsStored, HasId
        <5> QED
          BY <1>5, <2>1, <3>1, <3>2, <3>4, <5>1, MessagesTyped DEF Ledger, DeletedGone
      <4>3. \A c \in Clients : client[c].phase = "deleted" => client[c].path = path
        BY <2>1 DEF Ledger, AddsStored, HasId
      <4>4. \A a \in answers : a.path = path
        BY <2>1, MessagesTyped
      <4>5. \A j \in Nat : j < i /\ j \notin d.projects => j \notin files'[path].store.projects
        BY <1>1
      <4>6. \A a \in answers' : a.op = "deleting" => a \in answers
        OBVIOUS
      <4> QED
        BY <4>1, <4>2, <4>3, <4>4, <4>5, <4>6, MessagesTyped DEF DeletedGone
    <3> QED
      BY <3>3, <3>4
  <2> QED
    BY <2>3, <2>4
<1> QED
  BY <1>4, <1>5 DEF Ledger, SingleFile

\* del_project takes away the project of the client that asked, and no other:
\* its id was told to nobody else, or there is nobody else.
LEMMA DeleteKeeps ==
    ASSUME SingleFile \/ SingleClient,
           IInv, Ledger, NEW p \in Processes, NEW m \in wire, NEW path \in Paths, NEW d \in StoreType,
           m.op = "deleting", wire' \subseteq wire, UNCHANGED <<client, recreated>>,
           \A f \in Paths \ {path} : files'[f] = files[f],
           files'[path].version = 1, files[path].version = 1 => d = files[path].store,
           files'[path].store = DeleteProject(d, m.id),
           answers' = answers \cup {[client |-> m.client, op |-> m.op, id |-> m.id,
                                     path |-> path, from |-> p]}
    PROVE  Ledger'
<1> DEFINE c0 == m.client
<1>1. /\ files'[path].store.projects = d.projects \ {m.id}
      /\ files'[path].store.lastProject = d.lastProject
  BY ProjectsMove
<1>2. /\ c0 \in Clients /\ client[c0].phase \in {"deleting", "deleted"} /\ HasId(c0)
      /\ m.id = client[c0].id
  BY MessagesTyped DEF Ledger, AddsStored, HasId
<1>3. \A f \in Paths : files[f].version = 1 => files'[f].version = 1
  OBVIOUS
<1>4. \A f \in Paths : \A j : files[f].version = 1 /\ j # m.id /\ Stored(j, f) => Stored(j, f)'
  BY <1>1 DEF Stored
<1>5. PICK n : /\ answers' = answers \cup {n}
               /\ n.client = c0 /\ n.op = "deleting" /\ n.id = m.id /\ n.path = path
  <2> DEFINE n == [client |-> m.client, op |-> m.op, id |-> m.id, path |-> path, from |-> p]
  <2>2. n.client = c0 /\ n.op = "deleting" /\ n.id = m.id /\ n.path = path
    OBVIOUS
  <2>3. answers' = answers \cup {n}
    OBVIOUS
  <2> HIDE DEF n
  <2> QED
    BY <2>2, <2>3
<1>6. \A c \in Clients : HasId(c)' <=> HasId(c)
  BY DEF HasId
<1>7. ASSUME NEW c \in Clients, NEW f \in Paths, files[f].version = 1,
             client[c].phase = "added", Stored(client[c].id, f)
      PROVE  Stored(client[c].id, f)'
  <2>1. c # c0
    BY <1>2, <1>7
  <2>2. CASE f \in recreated
    BY <2>2 DEF Stored
  <2>3. CASE f \notin recreated
    <3>1. SingleFile
      BY <1>2, <2>1 DEF SingleClient
    <3>2. client[c].id # m.id
      BY <1>2, <1>7, <2>1, <2>3, <3>1 DEF Ledger, IdsDistinct, HasId
    <3> QED
      BY <1>4, <1>7, <3>2
  <2> QED
    BY <2>2, <2>3
<1>8. ASSUME NEW a \in answers, a.op = "adding", client[a.client].phase = "adding"
      PROVE  Stored(a.id, a.path)'
  <2>1. /\ a.client \in Clients /\ a.path \in Paths /\ a.client # c0
        /\ files[a.path].version = 1 /\ Stored(a.id, a.path)
    BY <1>2, <1>8, MessagesTyped DEF Ledger, AddsStored
  <2>2. CASE a.path \in recreated
    BY <2>2 DEF Stored
  <2>3. CASE a.path \notin recreated
    <3>1. SingleFile
      BY <1>2, <2>1 DEF SingleClient
    <3>2. a.id # m.id
      BY <1>2, <1>8, <2>1, <2>3, <3>1 DEF Ledger, IdsDistinct
    <3> QED
      BY <1>4, <2>1, <3>2
  <2> QED
    BY <2>2, <2>3
<1>9. AddsStored'
  <2>1. \A a \in answers' :
          /\ files'[a.path].version = 1 /\ client[a.client].phase # "idle"
          /\ a.op = "adding" /\ client[a.client].phase = "adding" => Stored(a.id, a.path)'
          /\ a.op = "deleting" =>
                client[a.client].phase \in {"deleting", "deleted"} /\ a.id = client[a.client].id
    BY <1>2, <1>3, <1>5, <1>8, MessagesTyped DEF Ledger, AddsStored
  <2>2. \A c \in Clients :
          /\ HasId(c) => client[c].path \in Paths /\ files'[client[c].path].version = 1
          /\ client[c].phase = "added" => Stored(client[c].id, client[c].path)'
    BY <1>3, <1>7 DEF Ledger, AddsStored, HasId
  <2>3. \A n2 \in wire' :
          /\ client[n2.client].phase # "idle"
          /\ n2.op = "deleting" =>
                client[n2.client].phase \in {"deleting", "deleted"} /\ n2.id = client[n2.client].id
    BY DEF Ledger, AddsStored
  <2> QED
    BY <2>1, <2>2, <2>3 DEF AddsStored, HasId, Stored
<1>10. ASSUME SingleFile PROVE IdsDistinct' /\ (recreated = {} => DeletedGone')
  <2>1. \A f \in Paths : f = path
    BY <1>10 DEF SingleFile
  <2>2. files[path].version = 1 /\ d = files[path].store
    BY <1>2, <1>10, NoneToldBeforeSchema, MessagesTyped DEF Ledger
  <2>3. \A a \in answers' : a.op = "adding" => a \in answers
    BY <1>5
  <2>4. IdsDistinct'
    BY <1>1, <1>6, <1>10, <2>1, <2>2, <2>3 DEF Ledger, IdsDistinct
  <2>5. ASSUME recreated = {} PROVE DeletedGone'
    <3>1. \A c \in Clients : client[c].phase = "deleted" => client[c].path = path
      BY <2>1 DEF Ledger, AddsStored, HasId
    <3>2. \A a \in answers' : a.path = path
      BY <1>5, <2>1, MessagesTyped
    <3>3. \A c \in Clients : client[c].phase = "deleted" => client[c].id \notin d.projects
      BY <1>10, <2>2, <2>5, <3>1 DEF Ledger, DeletedGone
    <3>4. \A a \in answers : a.op = "deleting" => a.id \notin d.projects
      BY <1>10, <2>1, <2>2, <2>5, MessagesTyped DEF Ledger, DeletedGone
    <3> QED
      BY <1>1, <1>5, <3>1, <3>2, <3>3, <3>4 DEF DeletedGone
  <2> QED
    BY <2>4, <2>5
<1> QED
  BY <1>9, <1>10 DEF Ledger, SingleFile

\* The client believes the answer it waits for.
LEMMA ReceiveKeeps ==
    ASSUME IInv, Ledger, NEW a \in answers, Receive(a) PROVE Ledger'
<1> DEFINE c0 == a.client
           next == IF a.op = "adding" THEN "added" ELSE "deleted"
           r == [phase |-> next, id |-> a.id, path |-> a.path, sends |-> 0]
<1>1. /\ UNCHANGED <<files, wire, recreated>> /\ answers' = answers \ {a}
      /\ client' = IF client[c0].phase = a.op THEN [client EXCEPT ![c0] = r] ELSE client
  BY DEF Receive, operatorVars
<1>2. c0 \in Clients /\ a.path \in Paths /\ a.op \in {"adding", "deleting"}
  BY MessagesTyped
<1>3. CASE client[c0].phase # a.op
  BY <1>1, <1>3, LossKeeps
<1>4. CASE client[c0].phase = a.op
  <2>1. /\ client'[c0].phase = next /\ client'[c0].id = a.id /\ client'[c0].path = a.path
        /\ \A c \in Clients \ {c0} : client'[c] = client[c]
    BY <1>1, <1>2, <1>4 DEF IInv, TypeOK
  <2> HIDE DEF r
  <2>2. HasId(c0)' /\ \A c \in Clients \ {c0} : HasId(c)' <=> HasId(c)
    BY <2>1 DEF HasId
  <2>3. AddsStored'
    <3>1. \A b \in answers' :
            /\ files[b.path].version = 1 /\ client'[b.client].phase # "idle"
            /\ b.op = "adding" /\ client'[b.client].phase = "adding" => Stored(b.id, b.path)
            /\ b.op = "deleting" =>
                  client'[b.client].phase \in {"deleting", "deleted"} /\ b.id = client'[b.client].id
      BY <1>1, <1>2, <1>4, <2>1, MessagesTyped DEF Ledger, AddsStored
    <3>2. \A c \in Clients :
            /\ HasId(c)' => client'[c].path \in Paths /\ files[client'[c].path].version = 1
            /\ client'[c].phase = "added" => Stored(client'[c].id, client'[c].path)
      BY <1>1, <1>2, <1>4, <2>1, <2>2 DEF Ledger, AddsStored
    <3>3. \A m \in wire :
            /\ client'[m.client].phase # "idle"
            /\ m.op = "deleting" =>
                  client'[m.client].phase \in {"deleting", "deleted"} /\ m.id = client'[m.client].id
      BY <1>1, <1>2, <1>4, <2>1, MessagesTyped DEF Ledger, AddsStored
    <3> QED
      BY <1>1, <3>1, <3>2, <3>3 DEF AddsStored, HasId, Stored
  <2>4. ASSUME SingleFile PROVE IdsDistinct'
    <3> SUFFICES ASSUME NEW f \in Paths \ recreated
                 PROVE  /\ \A b \in answers' : b.op = "adding" =>
                              /\ b.id <= files[f].store.lastProject
                              /\ \A b2 \in answers' : b2.op = "adding" /\ b2.id = b.id => b2 = b
                              /\ \A c \in Clients : HasId(c)' => client'[c].id # b.id
                        /\ \A c \in Clients : HasId(c)' =>
                              /\ client'[c].id <= files[f].store.lastProject
                              /\ \A e \in Clients : HasId(e)' /\ client'[e].id = client'[c].id => e = c
      BY <1>1 DEF IdsDistinct
    <3>1. CASE a.op = "adding"
      BY <1>1, <1>2, <2>1, <2>2, <2>4, <3>1 DEF Ledger, IdsDistinct
    <3>2. CASE a.op = "deleting"
      <4>1. HasId(c0) /\ client[c0].id = a.id
        BY <1>4, <3>2 DEF Ledger, AddsStored, HasId
      <4>2. \A c \in Clients : (HasId(c)' <=> HasId(c)) /\ client'[c].id = client[c].id
        BY <2>1, <2>2, <4>1
      <4> QED
        BY <1>1, <2>4, <4>2 DEF Ledger, IdsDistinct
    <3> QED
      BY <1>2, <3>1, <3>2
  <2>5. ASSUME SingleFile, recreated = {} PROVE DeletedGone'
    BY <1>1, <1>2, <2>1, <2>5 DEF Ledger, DeletedGone
  <2> QED
    BY <1>1, <2>3, <2>4, <2>5 DEF Ledger, SingleFile
<1> QED
  BY <1>3, <1>4

\* A handler, whichever request it serves
LEMMA HandleKeeps ==
    ASSUME SingleFile \/ SingleClient, IInv, Ledger, NEW p \in Processes, NEW m \in wire, Handle(p, m)
    PROVE  Ledger'
<1> DEFINE path == settings[p].path
           answer(i) == [client |-> m.client, op |-> m.op, id |-> i, path |-> path, from |-> p]
<1>1. /\ path \in Paths /\ \A f \in Paths \ {path} : files'[f] = files[f]
      /\ files'[path].version = 1 /\ wire' \subseteq wire /\ UNCHANGED <<client, recreated>>
  BY HandleStore
<1>2. PICK d \in StoreType :
        /\ files[path].version = 1 => d = files[path].store
        /\ \/ /\ m.op = "adding"
              /\ files'[path].store = InsertProject(d)
              /\ answers' = answers \cup {answer(d.lastProject + 1)}
           \/ /\ m.op = "deleting"
              /\ files'[path].store = DeleteProject(d, m.id)
              /\ answers' = answers \cup {answer(m.id)}
  BY HandleStore
<1> QED
  BY <1>1, <1>2, AddKeeps, DeleteKeeps

\* Bootstrap adds users and roles only.
LEMMA BootstrapKeeps ==
    ASSUME IInv, Ledger, NEW p \in Processes, NEW which \in {"admin", "default"}, NEW from, NEW to,
           from \in HasOpened, Bootstrap(p, which, from, to)
    PROVE  Ledger'
<1> DEFINE f == files[opened[p]]
           g == [f EXCEPT !.booted = f.booted \cup {which}]
<1>1. opened[p] \in Paths
  BY DEF Bootstrap, IInv, Placed
<1>2. f \in FileType /\ files \in [Paths -> FileType]
  BY <1>1 DEF IInv, TypeOK
<1>3. files' = [files EXCEPT ![opened[p]] = g]
  BY DEF Bootstrap
<1>4. g.store = f.store /\ g.version = f.version
  BY <1>2 DEF FileType
<1> HIDE DEF g
<1>5. \A h \in Paths : files'[h].store = files[h].store /\ files'[h].version = files[h].version
  BY <1>1, <1>2, <1>3, <1>4
<1>6. UNCHANGED <<wire, answers, client, recreated>>
  BY DEF Bootstrap, clientVars
<1> QED
  BY <1>5, <1>6, LossKeeps

\* Every step keeps the ledger.
LEMMA NextKeepsLedger ==
    ASSUME SingleFile \/ SingleClient, IInv, Ledger, [Next]_vars PROVE Ledger'
<1>1. ASSUME answers' \subseteq answers, wire' \subseteq wire, UNCHANGED <<files, client, recreated>>
      PROVE  Ledger'
  BY <1>1, LossKeeps
<1>2. ASSUME NEW p \in Processes, StartUp(p) PROVE Ledger'
  <2>1. CASE \/ Start(p) \/ LoadConfig(p) \/ OpenAtStart(p) \/ BeginSchema(p) \/ Listen(p) \/ Fail(p)
             \/ \E work \in SchemaWork : SchemaStatement(p, work)
    BY <1>1, <2>1 DEF Start, LoadConfig, OpenAtStart, BeginSchema, Listen, Fail, End, SchemaStatement,
       clientVars
  <2>2. CASE \/ Bootstrap(p, "admin", "boot_admin", "boot_default")
             \/ Bootstrap(p, "default", "boot_default", "listen")
    BY <2>2, BootstrapKeeps DEF HasOpened
  <2> QED
    BY <1>2, <2>1, <2>2, CommitSchemaKeeps DEF StartUp
<1>3. CASE \/ \E p \in Processes : Idle(p) \/ Die(p)
           \/ \E c \in Configs : Edit(c)
           \/ \E p \in Processes, m \in wire : Refuse(p, m)
           \/ UNCHANGED vars
  BY <1>1, <1>3 DEF Idle, Die, End, Edit, Refuse, clientVars, vars
<1> QED
  BY <1>2, <1>3, AskKeeps, HandleKeeps, ReceiveKeeps DEF Next

\* At first nobody was told anything.
LEMMA LedgerInvariance == ASSUME SingleFile \/ SingleClient PROVE Spec => [](IInv /\ Ledger)
<1>1. Init => Ledger
  BY DEF Init, Ledger, AddsStored, IdsDistinct, DeletedGone, HasId
<1>2. IInv /\ Ledger /\ [Next]_vars => Ledger'
  BY NextKeepsLedger
<1> QED
  BY <1>1, <1>2, Invariance, PTL DEF Spec

\* A project whose add was answered is in its file until its client asks for its
\* deletion, or a second process drops the table (add_project, the transaction of
\* ProjectService::add, autoincrement): with one database file, or one client,
\* and any number of processes, deaths, lost answers and repeated requests.
THEOREM AnsweredAddsAreKept == ASSUME SingleFile \/ SingleClient PROVE Spec => []AnsweredAddsSurvive
<1>1. Ledger => AnsweredAddsSurvive
  BY DEF Ledger, AddsStored, Stored, AnsweredAddsSurvive
<1> QED
  BY <1>1, LedgerInvariance, PTL

\* A project whose deletion was answered does not come back, however often its add
\* is repeated and its process dies (del_project): with one process and one file.
THEOREM DeletedProjectsStayDeleted ==
    ASSUME OneProcess, SingleFile PROVE Spec => []DeletedStaysDeleted
<1>1. Ledger /\ recreated = {} => DeletedStaysDeleted
  BY DEF Ledger, DeletedGone, DeletedStaysDeleted
<1> QED
  BY <1>1, LedgerInvariance, OneProcessInvariance, PTL
=============================================================================
