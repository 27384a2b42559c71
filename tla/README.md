# Verification of the 586 back end

TLA+ models of the project-management service in `src/`, model-checked with TLC
and, where noted, proved with TLAPS. Paths below are relative to the repository;
`lib/` abbreviates `src/src/lib/`.

## 1. The system

A single process (C++ REST SDK listener, ODB over SQLite) serves a JSON API to
manage projects, workers and tasks. Handler threads of the SDK's pool each run
`HttpHandler::handle` from the beginning to the end of one request:

    listener -> HttpHandler::handle
                  verify_auth  -> getjwt -> Authenticator::auth  -> database (transaction 1)
                  extract body (waits)
                  ApiRouter::route -> path parser -> requirements met_by permissions?
                                   -> IEndpoint::call             -> database (transaction 2)
                  exceptions -> 400 / 500

The threads share nothing but the database file, so most of what is difficult happens
there: two requests interleave statement by statement, and one request is two
transactions with the second relying on what the first has read. The rest is in
the life of the process: what a start finds when the last one was cut short,
what stays as it was when the configuration is edited, and which requests a client repeats.

At start Boost.DI constructs, in this order, `Config` (which reads `config.json`
and the files it names), `SqliteConfig`, a `SqliteDatabase` (which creates the
schema of a fresh file), `AuthConfig`, `Authenticator` (which bootstraps),
`HttpConfig` and `HttpServer`; then `App::start` opens the listener. Constructors
take the configuration objects by reference, which makes them singletons of the process:
a request gets a `SqliteDatabase` of its own, but from the `SqliteConfig` of the start.

| component | code | state | operations | interacts with |
|---|---|---|---|---|
| schema and rows | `lib/data/new.h`, `new.xml`, `lib/auth/perm.h` | tables Project, Task, Worker, User, Role; id sequences | insert, update, delete with cascade, foreign keys at commit | all users of the database |
| database layer | `lib/idatabase/*` | connection, current transaction of the thread, locks | transaction, find, query, persist, update, erase, commit, rollback | ODB, SQLite (external) |
| endpoints | `lib/iendpoint/*`, `lib/data/json.h` | none but locals during `call()` | thirteen calls, six of which change the tables | database layer |
| authenticator | `lib/auth/authenticator.cpp` | AuthConfig, a database | `bootstrap_admin`, `bootstrap_default` at start, `auth` per request | database layer, JWT library |
| requirements | `lib/auth/requirements.*` | none | `met_by` | router |
| path parser, router | `lib/server/apiparse.*`, `lib/irouter/apirouter.cpp` | the route table | `parse`, `route` | endpoints, requirements |
| HTTP handler | `lib/ihandler/httphandler.cpp`, `getjwt.cpp`, `lib/http.cpp`, `lib/iserver/*`, `lib/app/*` | none but locals during `handle()` | `handle` | all of the above |
| configuration | `lib/config/*` | JSON files, one `Config` object per process | read at start, look up a key | database layer, authenticator, listener |
| dependency injection | `lib/di.h`, `src/src/mvc/main.cpp` | the singletons | construct the service, construct an endpoint | all of the above |
| the rest | `lib/util/*`, tests, `src/external` | none | | |

### What is hard here

* **Interleaving of statements.** `add_task` finds a project and then inserts a
  row that refers to it; `assign_task` loads a task, finds a worker and writes the
  whole row back; `get_project` reads a list of task ids and loads the tasks one
  by one while the payload is built.
* **Lock upgrades.** Two calls that have read the Task table and want to write it
  wait for each other. SQLite's unlock-notify refuses one, and that client gets a
  500 although its request was fine. With `add_task` (its inverse container reads
  Task), `assign_task` and `unassign_task` this takes only two clients.
* **Deferred constraints** that fail at the commit, after the answer was computed.
* **Start-up in two transactions**, which a kill may separate, with a
  configuration that may be edited between starts.
* **Nested transactions.** `get_default_role` begins a transaction inside
  `get_perms`.
* **Check, then act.** The permissions are read in one transaction, the endpoint
  runs in another one, and the thread waits for the body in between.
* **Starts that are cut short.** The schema version is read outside the transaction
  that creates the schema, and a missing key is noticed only when the object
  that needs it is constructed, after the database was created.
* **Retries.** A client that misses an answer asks again; nothing identifies a request,
  and the copies may be handled late or after a restart.
* **A pool that waits for itself.** `body.wait()` keeps a thread of the pool on which
  the body will have to be read.
* **Numbers.** A leeway goes through four integer types, times are turned into clock
  ticks, and an id in a payload passes two parsers, a printer and an unchecked cast.
* **Prefix parsing.** Routes are tried in order and end-of-path is not a parser
  of its own.

`PROJECT.json` lists each of these as a hazard at its line, with the properties
that cover it, or why none does yet.

### What makes each component correct

* database layer and endpoints: what a call has read stays true to its end; only
  failures that the request deserves, or a deadlock refusal; ids are never reused;
  each call takes effect at one instant or not at all; every call ends.
* authenticator: the bootstrap user is an administrator when the service is up; as long as
  no name stands for both roles, nobody is privileged who never was the bootstrap user, and
  the default role has no permissions; nobody loses a permission, and nobody but the bootstrap
  user gains one; `auth` leaves no transaction behind, however it ends.
* parser and router: a path is accepted exactly by its route; order does not matter.
* handler: the requirement check holds at the moment the endpoint runs;
  transactions never nest across components; a GET never writes; every request gets a
  response.
* verification of tokens: a token is accepted exactly in its window, and an expired one
  stays expired.
* process: a database has a whole schema or none; a process that listens is ready; what was
  answered stays true through starts, deaths, edits and retries; the service comes up.
* pool: requests that have come whole are answered though others never do.
* serialisation: a number that fits names its object, and the answers describe one world.

## 2. The modules

    Store  <-  Database  <-  Endpoints  <-  Linearizable  <-  MCEndpoints
                        \               \     (INSTANCE TaskBoard)
                         \               EndpointsProofs  <-  LinearizableProofs
                          <- Authenticator <- MCAuthenticator, AuthenticatorProofs
    Store  <-  Process <- MCProcess, ProcessProofs
    Store  <-  Wire <- MCWire, WireProofs
    Jwt <- MCJwt, JwtProofs          Pool <- MCPool
    ApiParse <- Routing <- MCApiParse       ListenerProofs (EXTENDS Routing, Pool)
    Server (EXTENDS Database; INSTANCE Authenticator, Linearizable, ApiParse) <- MCServer,
                ServerProofs (INSTANCE LinearizableProofs, AuthenticatorProofs, ListenerProofs)

**Store** – the relational model of the ODB pragmas. A store is a record of five
tables (sets of rows) and the three rows of `sqlite_sequence` behind
AUTOINCREMENT. Operators insert, update (every column, as ODB does), delete with
`on_delete(cascade)`, and state the foreign keys. Names of things are left out: no
statement selects by them.

**Database** – `IDatabase::transaction` and its statements, as actions over the
committed image `db`, the shared-cache image `image`, the table locks `rlock`,
`wlock`, and `current`, the threads with a current transaction. What belongs to ODB
and SQLite is external to the repository and modelled from how this code uses
them and from its defaults: the `SqliteDatabase` objects open one file in ODB's default shared-cache
mode; BEGIN is deferred and takes no lock; a read takes a table read lock to the
end of the transaction, a write a table write lock, with one writer at a time;
the blocked statement that would close a cycle throws; foreign keys are checked at
the commit; a transaction object that dies uncommitted rolls back; a second begin
on a thread throws `already_in_transaction`. `LoseCache` is the death of the process.

**Endpoints** – every `IEndpoint::call`. `pc[t]` is the place between two
statements; `task` and `tasks` are the objects and lazy pointers in memory, `out`
the answer or exception. Each SQL statement is an action that waits until
`Ready`; `Reads` and `Writes` say which tables the statement touches, so that the
wait-for graph (`WaitsFor`) can be computed for `Deadlock`. `find` of an object
and the select of its inverse container are one action: the locks of both are
taken before control returns to the endpoint. `ParseError` is any `payload.at` or
`get_to` that throws before the transaction begins. `GetRoles` exists in the
source, but no route leads to it and it has no action.

**TaskBoard** – the abstract specification: what clients are promised. Projects,
workers and tasks as sets and functions, each call one atomic action, no tables,
locks, statements or transactions. It says of failures that a call either finds its
objects or answers `nullopt` (`not_persistent` for `del_project`), that a malformed
payload is `json`, and that `deadlock` happens only while another call is in
progress; none of these changes anything. A restart loses no answered change. Accounts are
there to be listed by `get_users`; they are added only between calls (`Enroll`), and none is taken away.

**Linearizable** – the refinement mapping from Endpoints to TaskBoard (`ProjectOf`, `WorkerOf`, `Issued`,
`Answers`; the accounts are the committed users); a call takes effect in the step that sets its answer.
Both Endpoints alone and, with the ids that paths can name, the whole of Server are mapped this way.

**Authenticator** – start-up and `auth`. `phase` is the process, `config` the
configuration it was started with (chosen anew by each `Start`, as an edited file
would be). The two bootstraps are a transaction each; a crash *inside* one is a
crash before its commit. `auth` is `AcceptToken`/`RejectToken`, `FindUser`, and the
nested begin `GetDefaultRole`, after which the code never reaches the creation of the
user. `used` is a history variable: the configurations so far, which
`NoEscalation` and `AdministratorExists` speak of. `NoEscalation` and `OthersUndisturbed` are stated so
that they allow what the repository's README promises and the code does not do (section 3, Findings): giving
the default role to everybody on first login, and the admin role to the bootstrap user upon any login.
Both hold of the model changed in this way as well. `NoEscalation` therefore has the condition `KeptApart`:
an operator who gives the admin role's name to the default role asks for privileged users.
`AdministratorExists` is about the code as it is, where only the bootstrap creates users: if others had
accounts, a bootstrap user taken from them would be an administrator only after its next login.

**ApiParse** – the parser combinators as functions from a position to the results
they may give, the route table of `ApiRouter`, and `Route`. `IntSegment` follows
`std::stoi`: it takes a leading number, ignores what follows in the segment, and
fails on what does not fit (`IntMax`). The combinators recurse over type lists in the source; here
`Then` takes a parser and the rest, and `Done` ends a list, so that nothing folds over a sequence.

**Routing** – every path, segment by segment (`split_path`), and what the router should find for it.

**Server** – the request path on several threads. It owns `stage`, `http`,
`actor`, `rsp`, and runs the actions of Authenticator and Endpoints over
one database, with the calls that ApiParse yields. `ServesTaskBoard` is the promise to the clients as a
whole: what TaskBoard says holds of the service from its first start on, which begins with an empty file and bootstraps
its own accounts. `RouteOf` caches `Route` for the requests of the model. The
sequence of exceptions and responses is that of `handle`: `AuthError` and router
errors 400, anything else 500, a `nullopt` answer 200 with tag `Err`, and a
payload that is only extracted for POST, so that a changing endpoint asked for by GET
fails in its parser. A request whose URI does not decode or whose body does not come through as text is
`Unreadable` and answered 500.

**Process** – the process from `main` on. `pc[p]` is how far the start has come,
`settings[p]` its `Config` singleton, `opened[p]` the file of its `Authenticator`,
`draft[p]` the transaction in which it creates the schema, statement by statement.
`Fail` is an exception that leaves `main`: as arguments of constructors are evaluated in an
order C++ does not fix, a missing key may be noticed before or after its neighbours.
`Die` is any other end. `Edit` is the operator; `Ask`, `AskAgain` and `Receive` are
clients, whose messages are lost with the process that has their connections. A request is one
atomic step, `Handle`, which `LinearizesTaskBoard` justifies; only projects are
followed. `recreated` is a history variable.

**Jwt** – `verify_auth`, with the time claims of a token, the clock, and the
conversions of `auth_jwt_leeway_secs`, with widths as constants. Decoding, signatures and `verify` belong
to jwt-cpp 0.3.1 and are modelled from the vendored header.

**Pool** – requests on the threads of the SDK's pool, whose jobs are to run the
handler and to read bodies. `HandleRequest` and `Resume` are the two halves of
`handle()` around `body.wait()`. A connection takes its next request only when the body of the last one
has been read (`Leave`).

**Wire** – a request's numbers, from what a client writes (`SpellingType`, counted in
halves to have fractions) to the id an endpoint works on, and the answers of the GET
requests, each translated from its own `to_json` or view. The SDK parses a body
and prints it again, so that `2.0` becomes an integer; nlohmann's `get_to(int)` narrows
integers, truncates fractions, takes booleans, and for a double that fits no int is undefined
(any int).

**EndpointsProofs, LinearizableProofs, AuthenticatorProofs, ListenerProofs, ServerProofs, ProcessProofs,
JwtProofs, WireProofs** – see section 5.

## 3. The runs

| run | question | instance | size |
|---|---|---|---|
| `endpoints` | are concurrent calls stable, free of surprise failures, id-stable and linearizable to TaskBoard, across crashes? | 2 threads, all 13 operations, ids {1,2} | 1.06 M states |
| `authenticator` | bootstrap and logins with arbitrarily edited configurations: who is privileged, and is there an administrator? | 2 threads, 3 users, 3 role names, 5 configurations | 61 k |
| `first_login` (violation) | is a user without account given the default role upon first login? | as above | |
| `admin_role_upon_login` (violation) | is the bootstrap user given the admin role upon any login? | as `authenticator` | |
| `api_parse` | does each path reach exactly its route? | all paths of up to 4 segments over 9 names and numbers | 7 k |
| `server` | the whole path: authorisation at the time of use, transactions, GET; is the service as a whole a task board? | 2 threads, 2 users, 2 configurations, 46 requests, restarts | 654 k |
| `server_live` | does every request get a response? | 2 threads, 10 requests for the changing endpoints and a reader of all tables, fair | 187 k |
| `process` | interrupted starts, edits, retries: is the schema whole, is a listener ready, do answers stay true? | 1 process, 2 clients, 1 path, 5 configurations, fresh file | 305 k |
| `process_pair` | what does a second process, or an edit that moves the database, break? does the service come up? | 2 processes, 1 client, 2 paths, 6 configurations, fair | 834 k |
| `jwt` | is a token accepted exactly in its window? | 133 tokens with every combination of time claims, ints of 4 bits, a clock of 7, 7 leeways | 103 k |
| `pool` | are whole requests answered while other bodies never come, unless every thread waits for one? | 3 connections, 2 threads, any number of POSTs, fair | 19 k |
| `wire` | does every number name what it spells, and do the answers agree? | 10 spellings, ints of 3 bits, 2 rows a table | 62 k |

Bounds and why they are enough:

* **Two threads.** Locks conflict pairwise, and every property but liveness speaks
  of one thread against "the others"; the proofs of section 5 cover any number.
* **`MaxRows` = 1** refuses add requests for a table to which a row was ever
  added; as it is tested when the request arrives, two concurrent requests may
  still add two. So `endpoints` has two projects, tasks and workers, deletes and adds
  after a delete. `Ids` contains ids that exist, existed, or never did.
* **Three users** are one bootstrap user, one former bootstrap user and one without an account.
  The five configurations include a new name for the default role, swapped names and one name for both roles.
* **`MaxPath` = 4** exceeds the longest route by one segment; `IntMax` = 9 puts one
  number out of range. The run explores paths, not time: a path of length 4 is not
  extended, hence `CHECK_DEADLOCK FALSE` there, and only there. Process and Pool have an `Idle`
  step, the loop at the end of `App::start`.
* Thread **symmetry** is used in `endpoints` and `server`, client symmetry in `process`: runs
  without liveness properties, none of whose properties singles a thread or client out.
* `process` lets the operator edit, the process die and the client repeat a small number of
  times each (`MaxEdits`, `MaxDeaths`, `MaxSends`), because each start reads the
  configuration afresh and a third copy of a request meets nothing a second has not; `MaxProjects` exceeds the number of
  clients, so that copies add objects of their own. A configuration
  is unreadable, complete, or lacks one kind of key.
* `process_pair` has one edit and one death, since starting on different configurations already
  separates the two processes, and one client, because `AnsweredAddsSurvive` with two files needs
  it: a delete handled after a move names a project of the other file. `server_live` leaves
  `unassign_task` out, which locks what `assign_task` does.
* `jwt` has small widths (`IntMax`, `LongMax`, `Tick`) so that narrowing and overflow happen
  within the clock's `MaxNow`; the formulas take the widths as they come.
* `pool` has more connections than threads, so that the threads can all be taken by POSTs while a request
  is left, and a thread can be left to a third request while one POST waits for ever. Neither the code nor the model bounds the POSTs under
  way. With as many waiting POSTs as threads the service stops, which the code does nothing against (no timeout is set):
  this is the one exception in `Served`, `Exhausted` for good.
* `wire` has a number of each kind: an id, one that is not there, one that narrows to an
  id, a fraction, a double beyond printing, a boolean, no number.
* `server` uses four endpoints (a change, a delete with an id in the payload, a read
  with an id in the path, a read without requirement) because `endpoints` has
  covered all of them; the requests have each credential with each path and method, and each
  broken body, and a URI that does not decode, once.

### Findings

* **First login** (`first_login`): the README promises that a user who logs in for the
  first time is given the default role. `get_perms` calls `get_default_role` inside its own
  transaction, the nested begin throws, and the answer is a 500. This happens on
  every login of such a user; there is no other way to create one, so only bootstrap users
  ever exist. `NothingLeftBehind` shows that the failure is at least clean.
* **Admin role upon login** (`admin_role_upon_login`): the README says the admin role is given to
  the bootstrap user "upon any login". The code gives it only when it creates
  that user, at start-up. After `auth_admin_role` is renamed an existing bootstrap user
  stays without the new role.

## 4. Fairness

`FairSpec` of Server asks for weak fairness of what needs no lock and strong fairness of the steps that may
wait for one. A runnable thread runs, which the operating system provides; a blocked one is
woken by unlock-notify whenever its blocker ends its transaction, which makes it ready
again and again but not continuously; that it is not overtaken for ever is the strong part. SQLite's pending-lock
rule, which stops new readers while a writer waits, is not modelled; the two threads of
`server_live` do not depend on it. Weak fairness of `Local` includes the return of
`body.wait()`, so `EveryRequestAnswered` assumes that the bodies of POSTs come; what happens when they do
not is the subject of Pool. Crashes and arrivals are not fair: nothing forces a
crash, and a client may never call again. `EveryRequestAnswered` fails when a
transaction outlives its call (its mutant), and when the deadlock refusal is taken out of the model.

`FairSpec` of Process asks for weak fairness of a start's steps: the installed unit has
`Restart=on-failure` (`src/project-notes.md`), so a process that ended is started again, and a
process that runs gets on; of two instances in `process_pair` each has a supervisor. (systemd's default start limit gives up after five failures in ten seconds; `ComesUp`
is about supervision without it, or an operator who resets it.) Nothing is assumed of clients, edits or
deaths. `FairSpec` of Pool asks for weak fairness of the pool's threads: taking a job, running the handler, waking up
when the body is there. No client is forced to send a body.

## 5. Proofs

TLAPS checks these for every set of threads, ids, users, roles and every bound,
subject only to the named assumptions of the modules (ids are integers, bounds are
natural numbers, initial accounts satisfy the foreign key, configurations have the right type).

**EndpointsProofs.** `TypeCorrect`, `ReadsAreStable`, `FailuresAreExpected`, `IdsAreStable`.
`ReadsStayTrue` is not inductive: nothing in it says why another thread cannot commit a
change. The strengthening has two layers:

* `DatabaseInv`: the lock invariant, kept by every operation of Database whatever the statements are. Two threads never have conflicting locks;
  a thread with locks has a current transaction; without a writer, `image` equals
  `db`; a writer's `image` differs from `db` only in the tables it has locked. So a step of
  another thread changes in `db` only tables on which this thread has no read lock.
* Per thread, *the locks cover what was read*: at each `pc` the tables on which the
  remembered values depend are in `rlock[t]`, and the values agree with `db`. For a thread with
  a write pending, `image` is `db` after exactly the operator of its endpoint, which
  preserves the foreign keys (`FailuresAreExpected`) and the id sequences (`IdsAreStable`).

**AuthenticatorProofs.** `TypeCorrect`, `NobodyEscalates`, `AuthCleansUp`,
`UsersAreUndisturbed`, `AdministratorAlways`. The invariant says that `auth` never writes (so `image`
equals `db`), that every user in the table is the bootstrap user of a configuration used so far and every user's roles exist,
that every role is one that a configuration used so far named, with the permissions the bootstrap gives it
(`RolesConfigured`: what `NoEscalation` says of default roles is not inductive, since a start may turn an old name into one), and
that a thread has a transaction exactly between `get_perms`'s begin and its end. Nobody is disturbed
because roles are only added, under new names, and users keep their roles; in this code not even the
bootstrap user gains anything by an edit (`PermsKept` with the empty set), which is more than `OthersUndisturbed` asks. `AdministratorAlways` adds that, as long as the configurations used so far agree on the name of
the administrator's role and give it to no other role, every user has it. `AdministratorExists`
has that condition because the property fails without it: after the names of the two roles were
exchanged, the new administrator's role is an existing one without permissions.

**ProcessProofs.** For any number of processes, files and clients: `TypeCorrect`,
`SchemaAlwaysWhole`, `DatabaseIsShared`. The invariant adds to these properties that a statement of
`create_schema` that was run has left its mark in the draft, so that the commit publishes a whole schema; that
a process with a database has the one its settings name; and that answers under way come from processes
that still listen (`End` drops the others). For one process, as it is installed: `ServesOnlyWhenReady` and
`SchemaCreatedOnce`, from an invariant of what is behind the process at each point of its start; they
assume `OneProcess`, because a second process on the same fresh file breaks both.

Both theorems on what clients were told rest on the `Ledger`, an invariant that TLC checked on the instances of
`process` and `process_pair` before it was proved:

* `AddsStored`: a project whose add is answered, or was answered and not yet deleted by its client, is in its
  file, if that file was never recreated; requests to delete are under way only for the project of the
  client that sends them. Without the part about answers on their way the step `Receive` could not be shown to keep it.
* `IdsDistinct`: no id is told twice, and all are at most `lastProject`. Repeated requests add
  several projects for one client; this is why a delete of one does not take another client's.
* `DeletedGone`: a project is already gone while the answer that says so is on its way.

`AnsweredAddsAreKept` holds for any number of processes. It assumes `SingleFile` or `SingleClient`: with two
files and two clients TLC finds a trace of 30 steps in which the operator moves the database to another file,
both files hand out id 1, and a delete meant for the first is carried out on the second. Nothing
in the documents promises otherwise, so it is a hypothesis and no finding. `DeletedProjectsStayDeleted` assumes
`OneProcess` (a recreated file starts its ids afresh) and `SingleFile`.

**LinearizableProofs.** `Linearizability`: `Spec => LinearizesTaskBoard`, for any number of threads, ids and rows.
Initial states map to initial states; `Call` maps to the board's `Ask`, every step that sets an answer to
one of the board's replies or, at a commit, to the change it stands for, `Finish` to `Return`, `Crash` to
`Restart`, and every other step stutters. The invariant of EndpointsProofs is not enough, since it speaks of
what was read and not of what will be said. `BoardInv` adds that an id names at most one task and only one
below the counter (`Numbered`); that a call has a request, a transaction and an answer exactly when it should
(`Serving`); that a lookup that failed still fails (`TaskLookedUp`, `OwnerRead`); and that the change waiting for a commit
is exactly its endpoint's row operation on the *committed* tables together with the id that will be
answered (`Prepared`), although it was made on the image, statements earlier. The last one is where the
write lock is used: another thread's commit in between would invalidate it. The lemmas are stated of one step of one
thread (`StepOnBoard`), of the steps of somebody who is in no call (`OutsideBoard`, `UntouchedBoard`) and of
a change of the accounts while nobody is (`QuietBoard`), because the service needs the last three, too.

**ServerProofs.** `TypeCorrect`, `AuthorizationHolds`, `TransactionsDoNotOverlap`, `GetIsSafe`,
`EndpointsKeepTheirPromises`, `UsersAreUndisturbed`, `NobodyEscalates`, `ServiceImplementsTaskBoard`. The module
instantiates LinearizableProofs, which includes EndpointsProofs, AuthenticatorProofs and ListenerProofs (`EP`, `AP`, `LP`) and uses their lemmas about single steps; `SameStep` and its neighbours identify the
actions of the instances. `ServerInv` contains the endpoints' invariant, which the steps of the authenticator must keep
too, and per thread the following:

* `Transactions`: a thread has a transaction only in the middle of `get_perms` or of `call`;
* `AccountsCommitted`: the users and roles of the image are the committed ones, since after the bootstrap nobody
  writes them. So what `auth` computes from a read inside its transaction is still true after it ended.
* `AuthState`, `ActorState`, `Admitted`: the permissions a thread carries, from `FlattenRoles` to `met_by`,
  are those of its user in the tables *now*. `AuthorizedNow` alone is not inductive, it says nothing of a
  thread that has been authenticated and not yet admitted.
* `StoppedByPayload`: a GET that names a changing endpoint is at its parser or done.

`UsersAreUndisturbed` and `NobodyEscalates` carry the authenticator's results over to the service in which endpoints
run between logins. `ComponentsAssumption` collects what the components assume of their constants.

`ServiceImplementsTaskBoard`: `Spec => ServesTaskBoard`. That the endpoints implement the board is not enough: they were
alone there, with a set of requests of their own and accounts that never change. Of every step of the service it is shown that it
is a step of the board or none, and that `BoardInv` survives it (`ServerOnBoard`), using `ServerInv`:

* the router calls endpoints only with requests of theirs (`CallIsRequest`). This is about the grammar: an id in a
  path is an int that the path spells, and the endpoints that take one are those whose route has one (`RouteGivesIds`);
* a thread in `auth` is in no call, its transaction reads only, and its end gives back only its own locks;
* the bootstrap writes users and roles when nobody has a request, and only adds: `Enroll`, or nothing on the board;
* a crash, in whichever stage, is the board's `Restart`.

**ListenerProofs.** `RouterAcceptsItsRoutes` and `RouterHidesNoRoute`, for all paths, of whatever length, over all alphabets.
`EndpointReads` computes what one route yields (`Parsed`: results of at most one position, because no route repeats anything);
`RoutesRead` says that for a table without two routes of one name the first match of `Dyn` is the only one, so that its order
disappears; `ApiNames` adds the "api" before and the end of the path after it. Both theorems are instances of it, for the table and the reversed
table. The proof shows where the design is fragile: a second route with the name of another one, such as an
optional argument, would break `NamesDiffer` and could be hidden. The one induction over data, the length of a path, is
the behaviour of Routing itself.
`PoolIsTyped`, for any number of connections and threads: that a connection without a request has no body is
not inductive. `JobsAreDue`, its strengthening, says that the queue is exactly what `at` and `body` say is due, without
repetition, so that a job of an earlier request of a connection cannot mark the body of the next one as read.

**JwtProofs.** `TypeCorrect`, `WindowIsExact`, `ExpiredIsExpired`, for all widths, ticks, leeways and
tokens. `SignedFits`, `SignedUnsignedFits` and `TicksFit` say that a conversion leaves what fits alone, that the way of a
negative leeway through `size_t` leads back, and that sums of ticks are ticks of sums. `WindowIsExact` needs that the
verdict is about the present clock (`VerdictCurrent`). `ExpiredIsExpired` needs no bound on the
numbers: the invariant `WindowKept` says that a token that was accepted can have failed at its end
only, and time does not take that back, wherever an overflow has put the end.

**WireProofs.** `TypeCorrect`, `SpellingsNameTheirObjects`, `AnswersAlwaysAgree`, `OthersStayUntouched`, for all widths,
spellings and rows. `NarrowFits` and `GetToReads` say what a number becomes; the invariant adds to the properties that
task ids are keys below their counter and that foreign keys hold, without which `get_task` could
show two tasks or one without its project (`GetTaskShowsRow`).

**Only model-checked:** the liveness properties (`EveryRequestAnswered`, `ComesUp`, `Served`), which need `ENABLED` and
are out of the prover's reach, and the two violations, which are counterexamples. Every safety property that a passing run checks
is stated by a theorem; those of `process_pair` under the assumptions named with ProcessProofs.

## 6. Not modelled

* The system clock is never set back in Jwt: `NoSecondLife` would not survive it.
* The leeway given as a JSON fraction (undefined when it fits no int); the files of the
  configuration being edited while they are being read.
* A database file deleted under the running process: the open file lives on in the shared
  cache until the process ends.
* Names, users and roles in Wire; `get_users` answers the table in Endpoints.
* SQLite's pending-lock rule, see section 4: it would only strengthen the fairness that is assumed.
* I/O errors of SQLite, a full disk, a corrupt file: the code has one answer (500), the
  transaction is rolled back like in every other exception.
* Splitting of header and URI strings; layout of JSON; colours, console output; the compile-time
  wiring of dependency injection; vendored libraries; the tests. (The README says the
  tests read `config.tests.json`; `src/src/test/main.cpp` reads `config.test.json`.)

## 7. Plan

Written in this order, the most important behaviour first: Store, Database,
Endpoints, TaskBoard, Linearizable, Authenticator, ApiParse, Routing, Server, Process, Jwt, Pool, Wire,
the runs above and the eight proof modules.

What could come next: the answers of the whole service as a refinement of Wire's rows as well, so that the numbers of a
payload reach Server; and the requests of Process, which are one atomic step, replaced by those of Server.
