-------------------------------- MODULE Pool --------------------------------
(***************************************************************************)
(* The thread pool on which the listener runs the handler, and             *)
(* extract_req_json(), whose body.wait() keeps a thread of that pool while *)
(* the body is read by a job for the same pool.  The pool, its queue and   *)
(* the reading of bodies belong to the C++ REST SDK.                       *)
(***************************************************************************)
EXTENDS Naturals, FiniteSets, Sequences, Functions

CONSTANTS
    Requests,   \* connections, each with at most one request under way
    Size        \* threads in the pool (40 in the SDK)

ASSUME PoolAssumption == Size \in Nat \ {0}

VARIABLES
    method,     \* HTTP method of each request
    at,         \* where each request is
    body,       \* how much of its body is there
    jobs        \* what the pool has to do, in order

vars == <<method, at, body, jobs>>

Methods == {"GET", "POST"}
Handle(r) == [do |-> "handle", for |-> r]
Read(r)   == [do |-> "read", for |-> r]

\* Requests that keep a thread
Busy == {r \in Requests : at[r] \in {"handled", "waiting"}}
UnderWay == {r \in Requests : at[r] \in {"queued", "handled", "waiting"}}

-----------------------------------------------------------------------------
(* Clients.  Nothing forces a client to send the body it has announced. *)

Arrive(r, m) ==
    /\ at[r] = "none"
    /\ method' = [method EXCEPT ![r] = m]
    /\ at' = [at EXCEPT ![r] = "queued"]
    /\ body' = [body EXCEPT ![r] = "announced"]
    /\ jobs' = Append(jobs, Handle(r))

\* All of the body has come, or the connection has broken.
BodyComes(r) ==
    /\ r \in UnderWay
    /\ body[r] = "announced"
    /\ body' = [body EXCEPT ![r] = "sent"]
    /\ jobs' = Append(jobs, Read(r))
    /\ UNCHANGED <<method, at>>

-----------------------------------------------------------------------------
(* The pool *)

\* A thread that is free takes the next job.
TakeHandle ==
    /\ Cardinality(Busy) < Size
    /\ jobs # <<>> /\ Head(jobs).do = "handle"
    /\ at' = [at EXCEPT ![Head(jobs).for] = "handled"]
    /\ jobs' = Tail(jobs)
    /\ UNCHANGED <<method, body>>

TakeRead ==
    /\ Cardinality(Busy) < Size
    /\ jobs # <<>> /\ Head(jobs).do = "read"
    /\ body' = [body EXCEPT ![Head(jobs).for] = "read"]
    /\ jobs' = Tail(jobs)
    /\ UNCHANGED <<method, at>>

\* Which methods handle() extracts a body for
NeedsBodyAlways(m) == TRUE
NeedsBody(m) == m = "POST"

\* HttpHandler::handle up to the body: authentication fails and is answered,
\* or the body is awaited if the method has one.
HandleRequest(r) ==
    /\ at[r] = "handled"
    /\ \/ at' = [at EXCEPT ![r] = "answered"]
       \/ /\ NeedsBody(method[r])
          /\ at' = [at EXCEPT ![r] = "waiting"]
    /\ UNCHANGED <<method, body, jobs>>

\* body.wait() returns; the rest of handle(), down to req.reply().
Resume(r) ==
    /\ at[r] = "waiting"
    /\ body[r] = "read"
    /\ at' = [at EXCEPT ![r] = "answered"]
    /\ UNCHANGED <<method, body, jobs>>

\* If a connection took its next request before the last one's body was read.
LeaveAtOnce(r) ==
    /\ at[r] = "answered"
    /\ at' = [at EXCEPT ![r] = "none"]
    /\ body' = [body EXCEPT ![r] = "none"]
    /\ method' = [method EXCEPT ![r] = "GET"]
    /\ UNCHANGED jobs

\* The connection is done with its request.
Leave(r) ==
    /\ at[r] = "answered"
    /\ Read(r) \notin Range(jobs)
    /\ at' = [at EXCEPT ![r] = "none"]
    /\ body' = [body EXCEPT ![r] = "none"]
    /\ method' = [method EXCEPT ![r] = "GET"]
    /\ UNCHANGED jobs

\* The main thread, in the loop at the end of App::start
Idle == UNCHANGED vars

-----------------------------------------------------------------------------
Init ==
    /\ method = [r \in Requests |-> "GET"]
    /\ at = [r \in Requests |-> "none"]
    /\ body = [r \in Requests |-> "none"]
    /\ jobs = <<>>

Next ==
    \/ TakeHandle \/ TakeRead \/ Idle
    \/ \E r \in Requests : \/ \E m \in Methods : Arrive(r, m)
                           \/ BodyComes(r) \/ HandleRequest(r) \/ Resume(r) \/ Leave(r)

Spec == Init /\ [][Next]_vars

\* Threads run; clients need not.
FairSpec ==
    /\ Spec
    /\ WF_vars(TakeHandle) /\ WF_vars(TakeRead)
    /\ \A r \in Requests : WF_vars(HandleRequest(r)) /\ WF_vars(Resume(r))

-----------------------------------------------------------------------------
(* Properties *)

\* Type invariant: a connection without a request has no body either, and no
\* job of the pool speaks of it.
TypeOK ==
    /\ method \in [Requests -> Methods]
    /\ at \in [Requests -> {"none", "queued", "handled", "waiting", "answered"}]
    /\ body \in [Requests -> {"none", "announced", "sent", "read"}]
    /\ jobs \in Seq([do : {"handle", "read"}, for : Requests])
    /\ \A r \in Requests : at[r] = "none" <=> body[r] = "none"

\* body.wait() has taken every thread, and nobody is left to read a body.
Exhausted == Cardinality({r \in Requests : at[r] = "waiting"}) = Size

\* Every GET is answered, whatever becomes of its body, and so is every POST whose
\* body has come, although other clients never send theirs.  There is only one way
\* to miss this: all threads of the pool are in body.wait() (extract_req_json), and
\* stay there.
Served ==
    \/ <>[]Exhausted
    \/ \A r \in Requests :
          (r \in UnderWay /\ (method[r] = "GET" \/ body[r] \in {"sent", "read"}))
              ~> at[r] = "answered"
=============================================================================
