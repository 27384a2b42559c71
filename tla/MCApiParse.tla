----------------------------- MODULE MCApiParse -----------------------------
(* Every path over a small alphabet, up to a length *)
EXTENDS Routing

Numbers == {"7", "7x", "-2", "99"}
Texts == {"api", "get_project", "get_projects", "get_users", "x"} \cup Numbers

\* With IntMax = 9, "99" is out of range.
Leading == [s \in Texts |-> CASE s \in {"7", "7x"} -> {7} [] s = "-2" -> {-2}
                              [] s = "99" -> {99} [] OTHER -> {}]
=============================================================================
