------------------------------ MODULE ApiParse ------------------------------
(***************************************************************************)
(* The parser combinators of server/apiparse.h and the grammar that        *)
(* ApiRouter builds from them.  For a given path a parser is a function    *)
(* from the position it starts at to its results: {} (nullopt), or one     *)
(* record with the position behind what it consumed and the tuple of the   *)
(* values it produced.                                                     *)
(***************************************************************************)
EXTENDS Integers, Sequences

CONSTANTS
    Segments,      \* the texts of path segments
    LeadingInt,    \* the integer that a text begins with: {} or {n}
    IntMax         \* numeric_limits<int>::max()

ASSUME LeadingIntAssumption == LeadingInt \in [Segments -> SUBSET Int]
ASSUME IntMaxAssumption == IntMax \in Nat

Nullopt == {}
Result(next, vals) == {[next |-> next, vals |-> vals]}

Positions(path) == 1 .. Len(path) + 1
AtEnd(path, i) == i = Len(path) + 1

\* std::stoi ignores what follows the number and throws when there is none or
\* when it is no int.
Stoi(segment) == {n \in LeadingInt[segment] : -IntMax - 1 <= n /\ n <= IntMax}

-----------------------------------------------------------------------------
(* Parsers of one segment *)

Lit(path, text) ==
    [i \in Positions(path) |->
        IF ~ AtEnd(path, i) /\ path[i] = text THEN Result(i + 1, << >>) ELSE Nullopt]

\* Int
IntSegment(path) ==
    [i \in Positions(path) |->
        IF AtEnd(path, i) THEN Nullopt
        ELSE UNION {Result(i + 1, <<n>>) : n \in Stoi(path[i])}]

-----------------------------------------------------------------------------
(* Combinators of parsers of the same path *)

\* A tuple of one value is that value.
Flatten(vals) == IF Len(vals) = 1 THEN vals[1] ELSE vals

\* All<>: nothing is left to parse.
Done(path) == [i \in Positions(path) |-> Result(i, << >>)]

\* All<T, Ts...>: T, then All<Ts...> from where T ended; tuple_cat joins the values.
Join(r, s) == [next |-> s.next, vals |-> r.vals \o s.vals]

Then(path, first, rest) ==
    [i \in Positions(path) |-> UNION {{Join(r, s) : s \in rest[r.next]} : r \in first[i]}]

\* Any and Dyn: the first one that succeeds, and no other is tried afterwards.
Choice(r) == [next |-> r.next, vals |-> <<Flatten(r.vals)>>]

Dyn(path, ps) ==
    [i \in Positions(path) |->
        UNION {{Choice(r) : r \in ps[k][i]} :
               k \in {k \in DOMAIN ps : \A j \in 1 .. k - 1 : ps[j][i] = Nullopt}}]

\* Cons, New and Endpoint: an object made from the values.
Object(type, r) == [next |-> r.next, vals |-> <<[type |-> type, args |-> r.vals]>>]

Make(path, type, p) == [i \in Positions(path) |-> {Object(type, r) : r \in p[i]}]

RootPrefix(path, p) == {Flatten(r.vals) : r \in p[1]}

\* The whole path has to be consumed.
Root(path, p) == {Flatten(r.vals) : r \in {r \in p[1] : AtEnd(path, r.next)}}

-----------------------------------------------------------------------------
(* The API of ApiRouter *)

RouteTableMisspelled == <<
    [op |-> "get_project",   id |-> FALSE], [op |-> "get_project",   id |-> TRUE],
    [op |-> "get_users",     id |-> FALSE] >>

\* In the order of the source; id: whether an Int follows
RouteTable == <<
    [op |-> "get_projects",  id |-> FALSE], [op |-> "get_project",   id |-> TRUE],
    [op |-> "get_worker",    id |-> TRUE],  [op |-> "get_task",      id |-> TRUE],
    [op |-> "add_project",   id |-> FALSE], [op |-> "del_project",   id |-> FALSE],
    [op |-> "get_users",     id |-> FALSE], [op |-> "add_task",      id |-> FALSE],
    [op |-> "assign_task",   id |-> FALSE], [op |-> "unassign_task", id |-> FALSE],
    [op |-> "add_worker",    id |-> FALSE], [op |-> "get_workers",   id |-> FALSE],
    [op |-> "debug",         id |-> FALSE] >>

Endpoint(path, e) ==
    Make(path, e.op,
         Then(path, Lit(path, e.op),
              IF e.id THEN Then(path, IntSegment(path), Done(path)) ELSE Done(path)))

Routes(path, table) == Dyn(path, [k \in DOMAIN table |-> Endpoint(path, table[k])])

Api(path, table) ==
    Root(path, Then(path, Lit(path, "api"), Then(path, Routes(path, table), Done(path))))

\* api.parse(path): {} or the endpoint with its arguments
Route(path) == Api(path, RouteTable)
=============================================================================
