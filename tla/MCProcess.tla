----------------------------- MODULE MCProcess -----------------------------
(* Instances of Process for TLC *)
EXTENDS Process, TLC

CONSTANTS p1, p2, c1, c2, f1, f2

Good(f) == [loads |-> TRUE, path |-> f, auth |-> TRUE, http |-> TRUE]

\* What an edit may leave behind: a file that is not JSON, and files whose path,
\* auth_* keys or http_listen_addr are missing
Broken == {[Good(f1) EXCEPT !.loads = FALSE], [Good(f1) EXCEPT !.path = NoPath],
           [Good(f1) EXCEPT !.auth = FALSE], [Good(f1) EXCEPT !.http = FALSE]}

OneFile  == {Good(f1)} \cup Broken
TwoFiles == {Good(f1), Good(f2)} \cup Broken

Symmetry == Permutations(Clients) \cup Permutations(Processes)
=============================================================================
