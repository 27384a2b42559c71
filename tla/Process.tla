------------------------------- MODULE Process -------------------------------
(***************************************************************************)
(* The life of the service process: it reads its configuration once,       *)
(* opens the database and creates the schema of a fresh one, bootstraps,   *)
(* listens, serves, dies and is started again, while an operator edits the *)
(* configuration and clients repeat the requests whose answer they miss.   *)
(* Every request is one atomic change here (which Linearizable justifies), *)
(* and of the tables only Project is looked at.                            *)
(***************************************************************************)
EXTENDS Store

CONSTANTS
    Processes,      \* instances of the service: one, unless somebody starts a second
    Clients,
    Paths,          \* values of sqlite_db_path
    Configs,        \* what config.json and the files it names may hold
    Fresh,          \* TRUE: no database file exists at first
    MaxEdits,       \* bound on the operator's edits
    MaxDeaths,      \* bound on deaths that the configuration does not explain
    MaxSends,       \* bound on the copies of one request
    MaxProjects     \* bound on the projects ever added to one file

\* A configuration: whether it can be read at all, its sqlite_db_path
\* (NoPath: missing), and whether the auth_* keys and http_listen_addr are
\* there with the right types.
NoPath == "no path"
ConfigType == [loads : BOOLEAN, path : Paths \cup {NoPath}, auth : BOOLEAN, http : BOOLEAN]

ASSUME ProcessAssumption ==
    /\ Configs \subseteq ConfigType
    /\ NoPath \notin Paths
    /\ Fresh \in BOOLEAN
    /\ {MaxEdits, MaxDeaths, MaxSends, MaxProjects} \subseteq Nat

VARIABLES
    config,     \* what the configuration files hold now
    files,      \* the database files, as committed
    pc,         \* where each process is
    settings,   \* the Config object of each process
    opened,     \* the file that the Authenticator of each process has opened
    draft,      \* the transaction in which a process creates the schema
    wire,       \* requests on their way or being handled
    answers,    \* responses on their way
    client,     \* what each client is doing
    edits, deaths,
    recreated   \* history: the files whose schema was created over an existing one

vars == <<config, files, pc, settings, opened, draft, wire, answers, client, edits, deaths, recreated>>
clientVars == <<wire, answers, client>>
operatorVars == <<config, edits, deaths>>

\* A database file: its schema version, whether its tables exist, which of
\* the two bootstraps it has seen, and the rows.
FileType == [version : 0..1, tables : BOOLEAN, booted : SUBSET {"admin", "default"},
             store : StoreType]

NoFile   == [version |-> 0, tables |-> FALSE, booted |-> {}, store |-> EmptyStore]
NoDraft  == [todo |-> {}, file |-> NoFile]
NoConfig == [loads |-> FALSE, path |-> NoPath, auth |-> FALSE, http |-> FALSE]

-----------------------------------------------------------------------------
(* The database file *)

NeedsSchemaAlways(f) == TRUE
NeedsSchema(f) == f.version = 0

\* What create_schema() does: it drops the tables and creates them, and it
\* records the version.
SchemaWork == {"tables", "version"}
CreateSchema(f, work) ==
    CASE work = "tables"  -> [f EXCEPT !.tables = TRUE, !.booted = {}, !.store = EmptyStore]
      [] work = "version" -> [f EXCEPT !.version = 1]

\* SqliteDatabase(SqliteConfig const&), run for a request
OpenDatabase(f) ==
    IF NeedsSchema(f) THEN CreateSchema(CreateSchema(f, "tables"), "version") ELSE f

\* The file a request works on.  Constructors take SqliteConfig and Config by
\* reference, which makes both singletons of the process; by value they would
\* be read again for every endpoint.
RequestPathReadAgain(p) == IF config.path = NoPath THEN settings[p].path ELSE config.path
RequestPath(p) == settings[p].path

-----------------------------------------------------------------------------
(* Start-up: DI::make_injector().create<App>() and App::start *)

Start(p) ==
    /\ pc[p] = "dead"
    /\ pc' = [pc EXCEPT ![p] = "starting"]
    /\ UNCHANGED <<files, settings, opened, draft, clientVars, operatorVars, recreated>>

\* Config(ConfigPath), the first use of the singleton
LoadConfig(p) ==
    /\ pc[p] = "starting"
    /\ config.loads
    /\ settings' = [settings EXCEPT ![p] = config]
    /\ pc' = [pc EXCEPT ![p] = "configured"]
    /\ UNCHANGED <<files, opened, draft, clientVars, operatorVars, recreated>>

\* Bootstraps only what it has just created.
OpenAtStartSkipsBootstrap(p) ==
    LET path == settings[p].path IN
    /\ pc[p] = "configured"
    /\ path # NoPath
    /\ opened' = [opened EXCEPT ![p] = path]
    /\ pc' = [pc EXCEPT ![p] = IF NeedsSchema(files[path]) THEN "fresh" ELSE "listen"]
    /\ UNCHANGED <<files, settings, draft, clientVars, operatorVars, recreated>>

\* SqliteConfig, make_db, and the schema version, read in no transaction
OpenAtStart(p) ==
    LET path == settings[p].path IN
    /\ pc[p] = "configured"
    /\ path # NoPath
    /\ opened' = [opened EXCEPT ![p] = path]
    /\ pc' = [pc EXCEPT ![p] = IF NeedsSchema(files[path]) THEN "fresh" ELSE "boot_admin"]
    /\ UNCHANGED <<files, settings, draft, clientVars, operatorVars, recreated>>

\* SQLite has one write transaction per file at a time.
Locked(p) == \E q \in Processes \ {p} : opened[q] = opened[p] /\ pc[q] = "creating"

BeginSchema(p) ==
    /\ pc[p] = "fresh"
    /\ ~Locked(p)
    /\ draft' = [draft EXCEPT ![p] = [todo |-> SchemaWork, file |-> files[opened[p]]]]
    /\ pc' = [pc EXCEPT ![p] = "creating"]
    /\ UNCHANGED <<files, settings, opened, clientVars, operatorVars, recreated>>

\* Without the transaction each statement would be durable at once.
SchemaStatementOnItsOwn(p, work) ==
    /\ pc[p] = "creating"
    /\ work \in draft[p].todo
    /\ draft' = [draft EXCEPT ![p] = [todo |-> @.todo \ {work}, file |-> CreateSchema(@.file, work)]]
    /\ files' = [files EXCEPT ![opened[p]] = CreateSchema(@, work)]
    /\ UNCHANGED <<pc, settings, opened, clientVars, operatorVars, recreated>>

\* The statements of create_schema() are generated code: in any order.
SchemaStatement(p, work) ==
    /\ pc[p] = "creating"
    /\ work \in draft[p].todo
    /\ draft' = [draft EXCEPT ![p] = [todo |-> @.todo \ {work}, file |-> CreateSchema(@.file, work)]]
    /\ UNCHANGED <<files, pc, settings, opened, clientVars, operatorVars, recreated>>

CommitSchemaForgotten(p) ==
    /\ pc[p] = "creating"
    /\ draft[p].todo = {}
    /\ draft' = [draft EXCEPT ![p] = NoDraft]
    /\ pc' = [pc EXCEPT ![p] = "boot_admin"]
    /\ UNCHANGED <<files, settings, opened, clientVars, operatorVars, recreated>>

CommitSchema(p) ==
    /\ pc[p] = "creating"
    /\ draft[p].todo = {}
    /\ files' = [files EXCEPT ![opened[p]] = draft[p].file]
    /\ draft' = [draft EXCEPT ![p] = NoDraft]
    /\ recreated' = IF files[opened[p]].version = 0 THEN recreated ELSE recreated \cup {opened[p]}
    /\ pc' = [pc EXCEPT ![p] = "boot_admin"]
    /\ UNCHANGED <<settings, opened, clientVars, operatorVars>>

\* The two transactions of Authenticator's constructor (see Authenticator)
Bootstrap(p, which, from, to) ==
    /\ pc[p] = from
    /\ settings[p].auth
    /\ ~Locked(p)
    /\ files[opened[p]].tables
    /\ files' = [files EXCEPT ![opened[p]].booted = @ \cup {which}]
    /\ pc' = [pc EXCEPT ![p] = to]
    /\ UNCHANGED <<settings, opened, draft, clientVars, operatorVars, recreated>>

\* HttpConfig, HttpServer and its run()
Listen(p) ==
    /\ pc[p] = "listen"
    /\ settings[p].http
    /\ \A q \in Processes : pc[q] # "serving"
    /\ pc' = [pc EXCEPT ![p] = "serving"]
    /\ UNCHANGED <<files, settings, opened, draft, clientVars, operatorVars, recreated>>

\* The loop at the end of App::start
Idle(p) == pc[p] = "serving" /\ UNCHANGED vars

-----------------------------------------------------------------------------
(* Death *)

\* The process ends, for whatever reason: an open transaction is lost, and so
\* is what its connections carried.
End(p) ==
    /\ pc' = [pc EXCEPT ![p] = "dead"]
    /\ settings' = [settings EXCEPT ![p] = NoConfig]
    /\ opened' = [opened EXCEPT ![p] = NoPath]
    /\ draft' = [draft EXCEPT ![p] = NoDraft]
    /\ wire' = IF pc[p] = "serving" THEN {} ELSE wire
    /\ answers' = IF pc[p] = "serving" THEN {} ELSE answers
    /\ UNCHANGED <<files, client>>

\* An exception leaves main().  Function arguments are constructed in an
\* unspecified order, so a missing key may be noticed early or late.
Fail(p) ==
    /\ \/ pc[p] = "starting" /\ ~config.loads
       \/ pc[p] = "configured" /\ settings[p].path = NoPath
       \/ pc[p] \in {"configured", "boot_admin"} /\ ~settings[p].auth
       \/ pc[p] \in {"configured", "listen"} /\ ~settings[p].http
       \/ pc[p] \in {"fresh", "boot_admin", "boot_default"} /\ Locked(p)
       \/ pc[p] \in {"boot_admin", "boot_default"} /\ ~files[opened[p]].tables
       \/ pc[p] = "listen" /\ \E q \in Processes : pc[q] = "serving"
    /\ End(p)
    /\ UNCHANGED <<operatorVars, recreated>>

Die(p) ==
    /\ pc[p] # "dead"
    /\ deaths < MaxDeaths
    /\ deaths' = deaths + 1
    /\ End(p)
    /\ UNCHANGED <<config, edits, recreated>>

Edit(c) ==
    /\ edits < MaxEdits
    /\ c # config
    /\ config' = c
    /\ edits' = edits + 1
    /\ UNCHANGED <<files, pc, settings, opened, draft, clientVars, deaths, recreated>>
-----------------------------------------------------------------------------
(* Requests: add_project and del_project of an authorised client *)

Up == \E p \in Processes : pc[p] = "serving"

Ask(c, from, to) ==
    /\ Up
    /\ client[c].phase = from
    /\ client' = [client EXCEPT ![c].phase = to, ![c].sends = 1]
    /\ wire' = wire \cup {[client |-> c, op |-> to, id |-> client[c].id, copy |-> 1]}
    /\ UNCHANGED <<files, pc, settings, opened, draft, answers, operatorVars, recreated>>

\* The client gave up waiting, lost its connection, or was answered an error.
AskAgain(c) ==
    /\ Up
    /\ client[c].phase \in {"adding", "deleting"}
    /\ client[c].sends < MaxSends
    /\ client' = [client EXCEPT ![c].sends = @ + 1]
    /\ wire' = wire \cup {[client |-> c, op |-> client[c].phase, id |-> client[c].id,
                           copy |-> client[c].sends + 1]}
    /\ UNCHANGED <<files, pc, settings, opened, draft, answers, operatorVars, recreated>>

\* An endpoint is made, with its own SqliteDatabase, and called.  To delete
\* what is gone is an error (500) and changes nothing; the client learns the same.
Handle(p, m) ==
    LET path == RequestPath(p)
        file == OpenDatabase(files[path])
        answer(i) == [client |-> m.client, op |-> m.op, id |-> i, path |-> path, from |-> p]
    IN  /\ pc[p] = "serving"
        /\ m \in wire
        /\ ~\E q \in Processes : pc[q] = "creating" /\ opened[q] = path
        /\ \/ /\ m.op = "adding"
              /\ file.store.lastProject < MaxProjects
              /\ files' = [files EXCEPT ![path] = [file EXCEPT !.store = InsertProject(@)]]
              /\ answers' = answers \cup {answer(file.store.lastProject + 1)}
           \/ /\ m.op = "deleting"
              /\ files' = [files EXCEPT ![path] = [file EXCEPT !.store = DeleteProject(@, m.id)]]
              /\ answers' = answers \cup {answer(m.id)}
        /\ wire' = wire \ {m}
        /\ UNCHANGED <<pc, settings, opened, draft, client, operatorVars, recreated>>

\* A second process is creating the schema: SQLite is busy, the answer a 500.
Refuse(p, m) ==
    /\ pc[p] = "serving"
    /\ m \in wire
    /\ \E q \in Processes : pc[q] = "creating" /\ opened[q] = RequestPath(p)
    /\ wire' = wire \ {m}
    /\ UNCHANGED <<files, pc, settings, opened, draft, answers, client, operatorVars, recreated>>

\* The client takes the first answer to what it asked and ignores the others.
Receive(a) ==
    LET c == a.client
        next == IF a.op = "adding" THEN "added" ELSE "deleted"
    IN  /\ a \in answers
        /\ answers' = answers \ {a}
        /\ client' = IF client[c].phase = a.op
                     THEN [client EXCEPT ![c] = [phase |-> next, id |-> a.id, path |-> a.path, sends |-> 0]]
                     ELSE client
        /\ UNCHANGED <<files, pc, settings, opened, draft, wire, operatorVars, recreated>>
-----------------------------------------------------------------------------
Init ==
    /\ config \in Configs
    /\ files = [f \in Paths |-> IF Fresh THEN NoFile
                                ELSE [NoFile EXCEPT !.version = 1, !.tables = TRUE]]
    /\ pc = [p \in Processes |-> "dead"]
    /\ settings = [p \in Processes |-> NoConfig]
    /\ opened = [p \in Processes |-> NoPath]
    /\ draft = [p \in Processes |-> NoDraft]
    /\ wire = {}
    /\ answers = {}
    /\ client = [c \in Clients |-> [phase |-> "idle", id |-> 0, path |-> NoPath, sends |-> 0]]
    /\ edits = 0
    /\ deaths = 0
    /\ recreated = {}

StartUp(p) ==
    \/ Start(p) \/ LoadConfig(p) \/ OpenAtStart(p) \/ BeginSchema(p)
    \/ \E work \in SchemaWork : SchemaStatement(p, work)
    \/ CommitSchema(p)
    \/ Bootstrap(p, "admin", "boot_admin", "boot_default")
    \/ Bootstrap(p, "default", "boot_default", "listen")
    \/ Listen(p)
    \/ Fail(p)

Next ==
    \/ \E p \in Processes : StartUp(p) \/ Idle(p) \/ Die(p)
    \/ \E c \in Configs : Edit(c)
    \/ \E c \in Clients : \/ Ask(c, "idle", "adding")
                          \/ Ask(c, "added", "deleting")
                          \/ AskAgain(c)
    \/ \E p \in Processes, m \in wire : Handle(p, m) \/ Refuse(p, m)
    \/ \E a \in answers : Receive(a)

Spec == Init /\ [][Next]_vars
FairSpec == Spec /\ \A p \in Processes : WF_vars(StartUp(p))
-----------------------------------------------------------------------------
(* Properties *)

\* Type invariant.
MessageType == [client : Clients, op : {"adding", "deleting"}, id : Nat, copy : Nat]
AnswerType == [client : Clients, op : {"adding", "deleting"}, id : Nat, path : Paths, from : Processes]
ClientType == [phase : {"idle", "adding", "added", "deleting", "deleted"}, id : Nat,
               path : Paths \cup {NoPath}, sends : Nat]

TypeOK ==
    /\ config \in Configs
    /\ files \in [Paths -> FileType]
    /\ pc \in [Processes -> {"dead", "starting", "configured", "fresh", "creating",
                            "boot_admin", "boot_default", "listen", "serving"}]
    /\ settings \in [Processes -> ConfigType]
    /\ opened \in [Processes -> Paths \cup {NoPath}]
    /\ draft \in [Processes -> [todo : SUBSET SchemaWork, file : FileType]]
    /\ wire \subseteq MessageType
    /\ answers \subseteq AnswerType
    /\ client \in [Clients -> ClientType]
    /\ edits \in 0..MaxEdits
    /\ deaths \in 0..MaxDeaths
    /\ recreated \subseteq Paths

\* A file whose version says that the schema is there has all of its tables,
\* wherever a start was cut short: create_schema() and its commit in
\* SqliteDatabase's constructor are all or nothing.
SchemaIsWhole == \A f \in Paths : files[f].version = 1 <=> files[f].tables

\* A process that listens has read a complete configuration, and its database
\* has a schema and both bootstraps behind it, whatever earlier starts failed at.
\* (One process; a second one that starts on a fresh file may undo it.)
ServesWhenReady ==
    \A p \in Processes : pc[p] = "serving" =>
        /\ settings[p].auth /\ settings[p].http
        /\ files[opened[p]].version = 1
        /\ files[opened[p]].booted = {"admin", "default"}

\* The schema of a file is never created a second time, which would drop its
\* rows.  (One process.)
NeverRecreated == recreated = {}

\* A project whose id was answered to the client that added it stays until that
\* client asks for its deletion: through deaths, failed starts, edits, repeated
\* requests and late answers, the deletes of other clients included.  Only two
\* processes that start on the same fresh file could lose it.  (One client, or one
\* file: a delete that arrives after the service was moved to another file names a
\* project of that one.)
AnsweredAddsSurvive ==
    \A c \in Clients : client[c].phase = "added" =>
        \/ client[c].id \in files[client[c].path].store.projects
        \/ client[c].path \in recreated

\* A project whose deletion was answered does not come back, although copies
\* of the requests that added and deleted it may still be under way.  (One file.)
DeletedStaysDeleted ==
    \A c \in Clients : client[c].phase = "deleted" =>
        client[c].id \notin files[client[c].path].store.projects

\* The endpoints of a process work on the database that its Authenticator reads
\* the permissions from, even when the configuration was edited in the meantime.
OneDatabasePerProcess == \A a \in answers : a.path = opened[a.from]

\* When the operator leaves a complete configuration in place and nothing kills
\* the process any more, the service comes up and stays up.
Complete(c) == c.loads /\ c.path # NoPath /\ c.auth /\ c.http
ComesUp == <>[](Complete(config)) => <>[]Up
=============================================================================
