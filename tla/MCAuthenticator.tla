--------------------------- MODULE MCAuthenticator ---------------------------
(* Two handler threads, three users, and an administrator who edits the *)
(* configuration file between restarts. *)
EXTENDS Authenticator

CONSTANTS alice, bob, admin, default, guest

Config(role, other, user) ==
    [adminRole |-> role, defaultRole |-> other, bootstrapUser |-> user]

\* Only the bootstrap user is ever changed.
SameRoles == {Config(admin, default, alice), Config(admin, default, bob)}

\* The default role gets another name, the names of the roles are exchanged, or one
\* role is used for both.
AnyRoles ==
    SameRoles \cup {Config(admin, guest, bob), Config(default, admin, bob), Config(admin, admin, alice)}
=============================================================================
