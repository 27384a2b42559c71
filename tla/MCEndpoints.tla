----------------------------- MODULE MCEndpoints -----------------------------
(* Two handler threads and one account over an otherwise empty database. *)
EXTENDS Linearizable, TLC

CONSTANTS admin, admins

MCUsers == {[id |-> admin, roles |-> {admins}]}
MCRoles == {[name |-> admins, perms |-> {"administrate"}]}

\* No property singles a thread out, and none of the run that uses it is a liveness property.
Symmetry == Permutations(Threads)
=============================================================================
