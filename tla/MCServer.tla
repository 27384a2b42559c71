------------------------------- MODULE MCServer -------------------------------
(* Two handler threads, the bootstrap user and a user without an account, and *)
(* requests for endpoints that change, read and need no permission.           *)
EXTENDS Server, TLC

CONSTANTS alice, bob, admin, default

OneConfig == {[adminRole |-> admin, defaultRole |-> default, bootstrapUser |-> alice]}
TwoConfigs == OneConfig \cup {[adminRole |-> admin, defaultRole |-> default, bootstrapUser |-> bob]}

Changing == {"add_project", "del_project", "add_task", "assign_task", "unassign_task", "add_worker"}
Named    == {"get_project", "get_worker", "get_task"}
Lists    == {"get_projects", "get_workers", "get_users", "debug"}

Texts == {"api", "1", "x"} \cup Changing \cup Named \cup Lists
Leading == [s \in Texts |-> IF s = "1" THEN {1} ELSE {}]

Paths == {<<"api", "add_project">>, <<"api", "del_project">>, <<"api", "get_project", "1">>,
          <<"api", "get_users">>, <<"api", "x">>}

Body(kind) == [kind |-> kind, id |-> 1, worker |-> 1]
Http(method, scheme, token, path, kind) ==
    [method |-> method, scheme |-> scheme, token |-> token, path |-> path,
     decodes |-> TRUE, body |-> Body(kind)]

Credentials == {<<"none", {}>>, <<"bearer", {}>>, <<"bearer", {alice}>>, <<"bearer", {bob}>>}

\* Every path with every credential, as a GET (whose body would be good, if it
\* were read) and as a POST; and what else goes wrong, once each.
Requests ==
    {Http(m, c[1], c[2], p, "complete") : m \in {"GET", "POST"}, c \in Credentials, p \in Paths}
    \cup {Http("POST", "bearer", {alice}, <<"api", "del_project">>, k) : k \in {"unreadable", "invalid", "incomplete"}}
    \cup {[Http("GET", "bearer", {alice}, <<"api", "get_users">>, "complete") EXCEPT !.decodes = FALSE]}
    \cup {Http("POST", "basic", {alice}, <<"api", "get_users">>, "complete"),
          Http("OPTIONS", "none", {}, <<"api", "x">>, "complete")}

\* For liveness: the endpoints that change something (unassign_task locks what assign_task
\* does), a reader of all tables, and the ways to fail before that
LiveRequests ==
    {Http("POST", "bearer", {alice}, <<"api", o>>, "complete") : o \in Changing \ {"unassign_task"}}
    \cup {Http("GET", c[1], c[2], <<"api", "get_task", "1">>, "complete") : c \in Credentials}
    \cup {Http("POST", "bearer", {alice}, <<"api", "del_project">>, "unreadable")}

Symmetry == Permutations(Threads)
=============================================================================
