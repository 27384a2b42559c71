------------------------------- MODULE Routing -------------------------------
(***************************************************************************)
(* What ApiRouter does with every path: the state is the path of a request *)
(* as its segments come in, and the properties say which endpoint, if any, *)
(* the grammar of ApiParse finds for it.                                   *)
(***************************************************************************)
EXTENDS ApiParse, SequencesExt

CONSTANT MaxPath   \* bound: the longest path

ASSUME MaxPathAssumption == MaxPath \in Nat

VARIABLE path

PathInit == path = << >>

NextSegment(segment) ==
    /\ Len(path) < MaxPath
    /\ path' = Append(path, segment)

PathNext == \E s \in Segments : NextSegment(s)

PathSpec == PathInit /\ [][PathNext]_path

-----------------------------------------------------------------------------
(* Properties *)

\* What may follow the name of endpoint e, and the arguments it is then given
Arguments(e, rest) ==
    IF ~ e.id THEN IF rest = << >> THEN {<< >>} ELSE {}
    ELSE IF Len(rest) # 1 THEN {}
    ELSE {<<n>> : n \in LeadingInt[rest[1]] \cap (-IntMax - 1 .. IntMax)}

\* The routes of a table that path p is for, with their arguments
Named(p, table) ==
    IF Len(p) < 2 \/ p[1] # "api" THEN {}
    ELSE UNION {{[type |-> e.op, args |-> a] : a \in Arguments(e, SubSeq(p, 3, Len(p)))} :
                e \in {e \in ToSet(table) : e.op = p[2]}}

\* The router accepts exactly these paths, each as a whole: "api", the name of an
\* endpoint and, when it takes an id, one segment that begins with an int; and it
\* hands that id to that endpoint.
AcceptsItsRoutes == Route(path) = Named(path, RouteTable)

\* Dyn commits to the first route that matches a prefix of the path and Root does
\* not come back to try another: no route hides one that is listed after it.
NoRouteHidesAnother == Api(path, Reverse(RouteTable)) = Route(path)
=============================================================================
