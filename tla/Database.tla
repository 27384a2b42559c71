------------------------------ MODULE Database ------------------------------
(***************************************************************************)
(* IDatabase::transaction() and the statements of struct Transaction, over *)
(* ODB and SQLite as this code configures them: one database file opened   *)
(* by every SqliteDatabase object of the process in the (default) shared   *)
(* cache, one current transaction per thread, read locks on a table held   *)
(* to the end of the transaction, one write transaction at a time, a       *)
(* blocked statement waits and the one that would close a cycle throws.    *)
(***************************************************************************)
EXTENDS Store

CONSTANT Threads

VARIABLES
    db,       \* the committed contents of the database file
    image,    \* the cache: db plus the changes of the open write transaction
    rlock,    \* rlock[t]: tables on which t holds a read lock
    wlock,    \* wlock[t]: tables on which t holds a write lock
    current   \* threads that have a current transaction

dbVars == <<db, image, rlock, wlock, current>>

\* The process opens a database file that holds d.
DatabaseInit(d) ==
    /\ db = d
    /\ image = d
    /\ rlock = [t \in Threads |-> {}]
    /\ wlock = [t \in Threads |-> {}]
    /\ current = {}

-----------------------------------------------------------------------------
(* Locks *)

\* The threads a statement of t has to wait for, if it reads tables R and
\* writes tables W.
Blockers(t, R, W) ==
    {u \in Threads \ {t} : \/ wlock[u] \cap (R \cup W) # {}
                           \/ W # {} /\ wlock[u] # {}
                           \/ rlock[u] \cap W # {}}

\* t waits, directly or not, for itself (waits[u]: the threads u waits for).
OnCycle(t, waits) ==
    \A S \in SUBSET Threads :
        (waits[t] \subseteq S /\ \A u \in S : waits[u] \subseteq S) => t \in S

-----------------------------------------------------------------------------
(* Transactions *)

Release(t) ==
    /\ rlock' = [rlock EXCEPT ![t] = {}]
    /\ wlock' = [wlock EXCEPT ![t] = {}]
    /\ current' = current \ {t}

\* BEGIN is deferred: it takes no lock.  A thread that already has a current
\* transaction gets already_in_transaction instead.
Begin(t) ==
    /\ t \notin current
    /\ current' = current \cup {t}
    /\ UNCHANGED <<db, image, rlock, wlock>>

Select(t, R) ==
    /\ t \in current
    /\ Blockers(t, R, {}) = {}
    /\ rlock' = [rlock EXCEPT ![t] = @ \cup R]
    /\ UNCHANGED <<db, image, wlock, current>>

Modify(t, W, d) ==
    /\ t \in current
    /\ Blockers(t, {}, W) = {}
    /\ wlock' = [wlock EXCEPT ![t] = @ \cup W]
    /\ image' = d
    /\ UNCHANGED <<db, rlock, current>>

\* If it threw away what any connection to the shared cache has not committed
RollbackOfAll(t) ==
    /\ image' = db
    /\ Release(t)
    /\ UNCHANGED db

\* The destructor of a transaction that was not committed.
Rollback(t) ==
    /\ image' = IF wlock[t] = {} THEN image ELSE db
    /\ Release(t)
    /\ UNCHANGED db

\* COMMIT of a transaction whose image satisfies the deferred foreign keys.
Commit(t) ==
    /\ t \in current
    /\ ForeignKeysHold(image)
    /\ db' = image
    /\ Release(t)
    /\ UNCHANGED image

\* The process dies: only what is committed survives.
LoseCache ==
    /\ image' = db
    /\ rlock' = [t \in Threads |-> {}]
    /\ wlock' = [t \in Threads |-> {}]
    /\ current' = {}
    /\ UNCHANGED db
=============================================================================
