---------------------------- MODULE ListenerProofs ----------------------------
(***************************************************************************)
(* What happens to a request before it comes to an endpoint.  The router   *)
(* finds for every path, however long, what module Routing says.  The      *)
(* threads of the pool work on well-formed requests only.                  *)
(***************************************************************************)
EXTENDS Routing, Pool, SequenceTheorems, TLAPS

\* A table of routes, some or all of those of the API
Ops == {RouteTable[k].op : k \in DOMAIN RouteTable}
TableType == Seq([op : Ops, id : BOOLEAN])

\* No two routes of a table have the same name.
NamesDiffer(table) == \A j, k \in DOMAIN table : table[j].op = table[k].op => j = k

-----------------------------------------------------------------------------
(* What the parsers yield *)

\* A literal consumes the segment that is spelled like it.
LEMMA LitReads ==
    ASSUME NEW p \in Seq(Segments), NEW i \in 1 .. Len(p), NEW text
    PROVE  Lit(p, text)[i] = IF p[i] = text THEN {[next |-> i + 1, vals |-> << >>]} ELSE {}
BY DEF Lit, Positions, AtEnd, Result, Nullopt

\* At the end of the path there is nothing to consume.
LEMMA LitAtEnd ==
    ASSUME NEW p \in Seq(Segments), NEW text
    PROVE  Lit(p, text)[Len(p) + 1] = {}
BY DEF Lit, Positions, AtEnd, Nullopt

\* Int consumes a segment that begins with an int.
LEMMA IntReads ==
    ASSUME NEW p \in Seq(Segments), NEW i \in 1 .. Len(p)
    PROVE  IntSegment(p)[i] = {[next |-> i + 1, vals |-> <<n>>] : n \in Stoi(p[i])}
BY DEF IntSegment, Positions, AtEnd, Result

\* Neither is there for Int.
LEMMA IntAtEnd ==
    ASSUME NEW p \in Seq(Segments)
    PROVE  IntSegment(p)[Len(p) + 1] = {}
BY DEF IntSegment, Positions, AtEnd, Nullopt

\* What a parser adds to the result r of the one before it
After(r, rest) == {Join(r, s) : s \in rest[r.next]}

\* The second parser starts where the first one ended, for each of its results.
LEMMA ThenContinues ==
    ASSUME NEW p, NEW first, NEW rest, NEW i \in Positions(p)
    PROVE  Then(p, first, rest)[i] = UNION {After(r, rest) : r \in first[i]}
BY DEF Then, After

\* A first parser with one result, and one without any
LEMMA ThenAfterOne ==
    ASSUME NEW p, NEW first, NEW rest, NEW i \in Positions(p), NEW r, first[i] = {r}
    PROVE  Then(p, first, rest)[i] = After(r, rest)
<1>1. Then(p, first, rest)[i] = UNION {After(q, rest) : q \in first[i]}
  BY ThenContinues
<1> QED
  BY <1>1

\* What the first parser refuses the second one never sees.
LEMMA ThenAfterNone ==
    ASSUME NEW p, NEW first, NEW rest, NEW i \in Positions(p), first[i] = {}
    PROVE  Then(p, first, rest)[i] = {}
BY ThenContinues

\* The end of a list of parsers adds nothing.
LEMMA ThenDone ==
    ASSUME NEW p, NEW first, NEW i \in Positions(p),
           \A r \in first[i] : r.next \in Positions(p) /\ Join(r, [next |-> r.next, vals |-> << >>]) = r
    PROVE  Then(p, first, Done(p))[i] = first[i]
<1>1. ASSUME NEW r \in first[i] PROVE After(r, Done(p)) = {r}
  <2> DEFINE end == [next |-> r.next, vals |-> << >>]
  <2>1. Done(p)[r.next] = {end}
    BY DEF Done, Result
  <2>2. Join(r, end) = r
    OBVIOUS
  <2> HIDE DEF end
  <2> QED BY <2>1, <2>2 DEF After
<1>2. Then(p, first, Done(p))[i] = UNION {After(r, Done(p)) : r \in first[i]}
  BY ThenContinues
<1>3. UNION {After(r, Done(p)) : r \in first[i]} = UNION {{r} : r \in first[i]}
  BY <1>1
<1> QED
  BY <1>2, <1>3

\* The results of an endpoint's parser behind "api"
Arg(n) == [next |-> 4, vals |-> <<n>>]

Parsed(p, e) ==
    IF Len(p) < 2 \/ p[2] # e.op THEN {}
    ELSE IF ~ e.id THEN {Object(e.op, [next |-> 3, vals |-> << >>])}
    ELSE IF Len(p) < 3 THEN {}
    ELSE {Object(e.op, Arg(n)) : n \in Stoi(p[3])}

LEMMA EndpointReads ==
    ASSUME NEW p \in Seq(Segments), Len(p) >= 1, NEW e \in [op : Ops, id : BOOLEAN]
    PROVE  Endpoint(p, e)[2] = Parsed(p, e)
<1> DEFINE tail == IF e.id THEN Then(p, IntSegment(p), Done(p)) ELSE Done(p)
           lit == Lit(p, e.op)
           whole == Then(p, lit, tail)
           named == [next |-> 3, vals |-> << >>]
<1>0. Len(p) \in Nat /\ 2 \in Positions(p)
  BY DEF Positions
<1>1. Endpoint(p, e)[2] = {Object(e.op, r) : r \in whole[2]}
  BY <1>0 DEF Endpoint, Make
<1>2. CASE Len(p) < 2 \/ p[2] # e.op
  <2>1. lit[2] = {}
    <3>1. CASE Len(p) < 2
      BY <1>0, <3>1, LitAtEnd
    <3>2. CASE Len(p) >= 2
      <4>1. 2 \in 1 .. Len(p)
        BY <1>0, <3>2
      <4>2. p[2] # e.op
        BY <1>0, <1>2, <3>2
      <4> QED BY <4>1, <4>2, LitReads
    <3> QED BY <1>0, <3>1, <3>2
  <2> HIDE DEF lit, tail
  <2>2. whole[2] = {}
    BY <1>0, <2>1, ThenAfterNone
  <2> QED
    BY <1>1, <1>2, <2>2 DEF Parsed
<1>3. CASE Len(p) >= 2 /\ p[2] = e.op
  <2>1. lit[2] = {named} /\ 3 \in Positions(p)
    <3>1. 2 \in 1 .. Len(p) /\ 2 + 1 = 3
      BY <1>0, <1>3
    <3>2. lit[2] = {[next |-> 2 + 1, vals |-> << >>]}
      BY <1>3, <3>1, LitReads
    <3> QED BY <1>0, <1>3, <3>1, <3>2 DEF Positions
  <2>2. whole[2] = {Join(named, s) : s \in tail[3]}
    <3> HIDE DEF lit, tail
    <3>1. whole[2] = After(named, tail)
      <4>1. lit[2] = {named}
        BY <2>1
      <4> HIDE DEF named
      <4> QED BY <1>0, <4>1, ThenAfterOne
    <3> HIDE DEF lit, tail, whole
    <3> QED BY <3>1 DEF After
  <2>3. CASE ~ e.id
    <3>1. tail[3] = {named}
      BY <2>1, <2>3 DEF Done, Result
    <3>2. Join(named, named) = named
      BY DEF Join
    <3> HIDE DEF named, whole, tail
    <3>3. whole[2] = {named}
      BY <2>2, <3>1, <3>2
    <3>4. Endpoint(p, e)[2] = {Object(e.op, named)}
      BY <1>1, <3>3
    <3> QED
      BY <1>0, <1>3, <2>3, <3>4 DEF Parsed, named
  <2>4. CASE e.id
    <3>1. CASE Len(p) < 3
      <4>1. IntSegment(p)[3] = {}
        BY <1>0, <1>3, <3>1, IntAtEnd
      <4>2. tail[3] = {}
        BY <2>1, <2>4, <4>1, ThenAfterNone
      <4> HIDE DEF named, whole, tail
      <4> QED
        BY <1>0, <1>1, <1>3, <2>2, <2>4, <3>1, <4>2 DEF Parsed
    <3>2. CASE Len(p) >= 3
      <4>1. IntSegment(p)[3] = {Arg(n) : n \in Stoi(p[3])} /\ 4 \in Positions(p)
        <5>1. 3 \in 1 .. Len(p) /\ 3 + 1 = 4
          BY <1>0, <3>2
        <5>2. IntSegment(p)[3] = {[next |-> 3 + 1, vals |-> <<n>>] : n \in Stoi(p[3])}
          BY <5>1, IntReads
        <5> QED BY <1>0, <5>1, <5>2 DEF Arg, Positions
      <4>2. \A n : Join(Arg(n), [next |-> Arg(n).next, vals |-> << >>]) = Arg(n)
        BY DEF Join, Arg
      <4>3. \A n : Join(named, Arg(n)) = Arg(n) /\ Arg(n).next = 4
        BY DEF Join, Arg
      <4>4. tail[3] = {Arg(n) : n \in Stoi(p[3])}
        <5>1. \A r \in IntSegment(p)[3] :
                 r.next \in Positions(p) /\ Join(r, [next |-> r.next, vals |-> << >>]) = r
          BY <4>1, <4>2, <4>3
        <5>2. tail = Then(p, IntSegment(p), Done(p))
          BY <2>4
        <5> HIDE DEF tail
        <5>3. tail[3] = IntSegment(p)[3]
          BY <2>1, <5>1, <5>2, ThenDone
        <5> QED BY <4>1, <5>3
      <4> HIDE DEF named, whole, tail
      <4>5. whole[2] = {Arg(n) : n \in Stoi(p[3])}
        BY <2>2, <4>3, <4>4
      <4>6. Endpoint(p, e)[2] = {Object(e.op, Arg(n)) : n \in Stoi(p[3])}
        BY <1>1, <4>5
      <4> QED
        BY <1>0, <1>3, <2>4, <3>2, <4>6 DEF Parsed
    <3> QED BY <1>0, <3>1, <3>2
  <2> QED BY <2>3, <2>4
<1> QED BY <1>0, <1>2, <1>3

-----------------------------------------------------------------------------
(* Choosing among the routes *)

\* An object passes through Dyn as it is.
LEMMA ChoiceOfObject ==
    ASSUME NEW type, NEW r
    PROVE  Choice(Object(type, r)) = Object(type, r)
<1> DEFINE o == [type |-> type, args |-> r.vals]
<1>1. Object(type, r) = [next |-> r.next, vals |-> <<o>>]
  BY DEF Object
<1> HIDE DEF o
<1>2. Flatten(<<o>>) = o
  BY DEF Flatten
<1> QED
  BY <1>1, <1>2 DEF Choice

\* What is in the results of an endpoint's parser
LEMMA ParsedResults ==
    ASSUME NEW p \in Seq(Segments), NEW e
    PROVE  /\ \A r \in Parsed(p, e) : Choice(r) = r /\ e.op = p[2] /\ r.next \in Positions(p)
           /\ \A r \in Parsed(p, e) : \E q : r = Object(e.op, q)
<1>1. \A r \in Parsed(p, e) : Choice(r) = r
  BY ChoiceOfObject DEF Parsed
<1>2. \A r \in Parsed(p, e) : e.op = p[2]
  BY DEF Parsed
<1>3. \A n : Object(e.op, Arg(n)).next = 4
  BY DEF Object, Arg
<1>4. Object(e.op, [next |-> 3, vals |-> << >>]).next = 3
  BY DEF Object
<1>5. Len(p) \in Nat
  OBVIOUS
<1>6. \A r \in Parsed(p, e) : r.next \in Positions(p)
  BY <1>3, <1>4, <1>5 DEF Parsed, Positions
<1>7. \A r \in Parsed(p, e) : \E q : r = Object(e.op, q)
  BY DEF Parsed
<1> QED
  BY <1>1, <1>2, <1>6, <1>7

\* No two routes match the same path, hence the first one is the only one.
LEMMA RoutesRead ==
    ASSUME NEW p \in Seq(Segments), Len(p) >= 1, NEW table \in TableType, NamesDiffer(table)
    PROVE  Routes(p, table)[2] = UNION {Parsed(p, table[k]) : k \in DOMAIN table}
<1> DEFINE ps == [k \in DOMAIN table |-> Endpoint(p, table[k])]
           first == {k \in DOMAIN ps : \A j \in 1 .. k - 1 : ps[j][2] = Nullopt}
<1>1. DOMAIN table = 1 .. Len(table) /\ Len(table) \in Nat
  BY DEF TableType
<1>2. \A k \in DOMAIN table : table[k] \in [op : Ops, id : BOOLEAN]
  BY <1>1, ElementOfSeq DEF TableType
<1>3. \A k \in DOMAIN table : ps[k][2] = Parsed(p, table[k])
  BY <1>2, EndpointReads
<1>4. ASSUME NEW k \in DOMAIN table, Parsed(p, table[k]) # {} PROVE k \in first
  <2>1. ASSUME NEW j \in 1 .. k - 1 PROVE ps[j][2] = {}
    <3>1. j \in DOMAIN table /\ j # k
      BY <1>1
    <3>2. table[j].op # table[k].op
      BY <3>1 DEF NamesDiffer
    <3>3. Parsed(p, table[j]) = {}
      BY <1>4, <3>2, ParsedResults
    <3> QED BY <1>3, <3>1, <3>3
  <2> QED BY <2>1 DEF Nullopt
<1>5. 2 \in Positions(p)
  BY DEF Positions
<1>6. Routes(p, table)[2] = UNION {{Choice(r) : r \in ps[k][2]} : k \in first}
  <2> HIDE DEF ps
  <2> QED BY <1>5 DEF Routes, Dyn, ps
<1>7. \A k \in first : {Choice(r) : r \in ps[k][2]} = Parsed(p, table[k])
  <2> TAKE k \in first
  <2>1. ps[k][2] = Parsed(p, table[k])
    BY <1>3
  <2> HIDE DEF ps
  <2> QED BY <2>1, ParsedResults
<1> HIDE DEF ps, first
<1>8. Routes(p, table)[2] = UNION {Parsed(p, table[k]) : k \in first}
  BY <1>6, <1>7
<1>9. first \subseteq DOMAIN table
  BY DEF first, ps
<1> QED
  BY <1>4, <1>8, <1>9

-----------------------------------------------------------------------------
(* The whole path *)

\* Int yields the int that a segment begins with, when it fits.
LEMMA StoiIsBounded ==
    ASSUME NEW s \in Segments
    PROVE  Stoi(s) = LeadingInt[s] \cap (-IntMax - 1 .. IntMax)
<1>1. LeadingInt[s] \subseteq Int /\ IntMax \in Int
  BY LeadingIntAssumption, IntMaxAssumption
<1>2. \A n \in Int : n \in -IntMax - 1 .. IntMax <=> -IntMax - 1 <= n /\ n <= IntMax
  BY <1>1
<1> QED
  BY <1>1, <1>2 DEF Stoi

\* What is behind the first two segments of a path
LEMMA RestOfPath ==
    ASSUME NEW p \in Seq(Segments), Len(p) >= 2
    PROVE  /\ Len(p) \in Nat /\ Len(SubSeq(p, 3, Len(p))) = Len(p) - 2
           /\ SubSeq(p, 3, Len(p)) = << >> <=> Len(p) = 2
           /\ Len(p) = 3 => SubSeq(p, 3, Len(p))[1] = p[3]
<1> DEFINE n == Len(p)
           rest == SubSeq(p, 3, n)
<1>1. n \in Nat /\ n >= 2
  OBVIOUS
<1>0. \A m \in Nat : m >= 2 => (IF 3 <= m THEN m - 3 + 1 ELSE 0) = m - 2
  OBVIOUS
<1>2. Len(rest) = n - 2
  <2>1. \A i \in 3 .. n : p[i] \in Segments
    OBVIOUS
  <2>2. Len(rest) = IF 3 <= n THEN n - 3 + 1 ELSE 0
    BY <1>1, <2>1, SubSeqProperties
  <2> HIDE DEF rest, n
  <2> QED BY <1>0, <1>1, <2>2
<1>3. rest \in Seq(Segments)
  BY <1>1
<1>4. rest = << >> <=> Len(rest) = 0
  BY <1>3, EmptySeq
<1>5. n = 3 => rest[1] = p[3]
  BY <1>1
<1> HIDE DEF rest
<1>6. rest = << >> <=> n = 2
  BY <1>1, <1>2, <1>4
<1> QED
  BY <1>1, <1>2, <1>5, <1>6 DEF rest

\* What Root makes of the results of one route: it keeps those that consumed the path.
LEMMA RootOfRoute ==
    ASSUME NEW p \in Seq(Segments), Len(p) >= 2, NEW e
    PROVE  {Flatten(r.vals) : r \in {r \in Parsed(p, e) : AtEnd(p, r.next)}} =
             IF e.op = p[2]
             THEN {[type |-> e.op, args |-> a] : a \in Arguments(e, SubSeq(p, 3, Len(p)))}
             ELSE {}
<1> DEFINE rest == SubSeq(p, 3, Len(p))
           named == [next |-> 3, vals |-> << >>]
           made(a) == [type |-> e.op, args |-> a]
<1>0. Len(p) \in Nat /\ Len(p) >= 2
  OBVIOUS
<1>1. /\ Len(p) \in Nat /\ Len(rest) = Len(p) - 2
      /\ rest = << >> <=> Len(p) = 2
      /\ Len(p) = 3 => rest[1] = p[3]
  BY RestOfPath
<1>2. /\ Object(e.op, named).next = 3 /\ Flatten(Object(e.op, named).vals) = made(<< >>)
      /\ \A n : Object(e.op, Arg(n)).next = 4 /\ Flatten(Object(e.op, Arg(n)).vals) = made(<<n>>)
  <2> DEFINE unit(o) == <<o>>
  <2>1. \A o : Flatten(unit(o)) = o
    BY DEF Flatten
  <2>2. \A r : Object(e.op, r).vals = unit(made(r.vals)) /\ Object(e.op, r).next = r.next
    BY DEF Object
  <2>3. named.vals = << >> /\ named.next = 3 /\ \A n : Arg(n).vals = <<n>> /\ Arg(n).next = 4
    BY DEF Arg
  <2> HIDE DEF unit, made, named
  <2> QED BY <2>1, <2>2, <2>3
<1>3. CASE e.op # p[2]
  BY <1>3 DEF Parsed
<1>4. CASE e.op = p[2] /\ ~ e.id
  <2>1. Parsed(p, e) = {Object(e.op, named)}
    BY <1>1, <1>4 DEF Parsed
  <2>2. Arguments(e, rest) = IF Len(p) = 2 THEN {<< >>} ELSE {}
    BY <1>1, <1>4 DEF Arguments
  <2> HIDE DEF made, named, rest
  <2>3. AtEnd(p, Object(e.op, named).next) <=> Len(p) = 2
    BY <1>1, <1>2 DEF AtEnd
  <2>4. {Flatten(r.vals) : r \in {r \in Parsed(p, e) : AtEnd(p, r.next)}} =
          IF Len(p) = 2 THEN {made(<< >>)} ELSE {}
    BY <1>2, <2>1, <2>3
  <2> QED
    BY <1>4, <2>2, <2>4 DEF made, rest
<1>5. CASE e.op = p[2] /\ e.id
  <2>1. Parsed(p, e) = IF Len(p) < 3 THEN {} ELSE {Object(e.op, Arg(n)) : n \in Stoi(p[3])}
    BY <1>1, <1>5 DEF Parsed
  <2>2. Arguments(e, rest) = IF Len(p) # 3 THEN {} ELSE {<<n>> : n \in Stoi(p[3])}
    <3>1. CASE Len(p) # 3
      BY <1>1, <1>5, <3>1 DEF Arguments
    <3>2. CASE Len(p) = 3
      <4>1. Len(rest) = 1 /\ rest[1] = p[3] /\ p[3] \in Segments
        BY <1>1, <3>2
      <4> HIDE DEF rest
      <4>2. Stoi(p[3]) = LeadingInt[rest[1]] \cap (-IntMax - 1 .. IntMax)
        BY <4>1, StoiIsBounded
      <4> QED
        BY <1>5, <3>2, <4>1, <4>2 DEF Arguments
    <3> QED BY <3>1, <3>2
  <2> HIDE DEF made, named, rest
  <2>3. \A n : AtEnd(p, Object(e.op, Arg(n)).next) <=> Len(p) = 3
    <3>0. \A n \in Nat : 4 = n + 1 <=> n = 3
      OBVIOUS
    <3>1. AtEnd(p, 4) <=> Len(p) = 3
      BY <1>0, <3>0 DEF AtEnd
    <3>2. \A n : Object(e.op, Arg(n)).next = 4
      BY <1>2
    <3> QED BY <3>1, <3>2
  <2>4. {Flatten(r.vals) : r \in {r \in Parsed(p, e) : AtEnd(p, r.next)}} =
          IF Len(p) # 3 THEN {} ELSE {made(<<n>>) : n \in Stoi(p[3])}
    <3>1. CASE Len(p) # 3
      BY <2>1, <2>3, <3>1
    <3>2. CASE Len(p) = 3
      <4>1. Parsed(p, e) = {Object(e.op, Arg(n)) : n \in Stoi(p[3])}
        BY <2>1, <3>2
      <4>2. {r \in Parsed(p, e) : AtEnd(p, r.next)} = Parsed(p, e)
        BY <2>3, <3>2, <4>1
      <4>3. {Flatten(r.vals) : r \in Parsed(p, e)} = {made(<<n>>) : n \in Stoi(p[3])}
        BY <1>2, <4>1
      <4> QED BY <3>2, <4>2, <4>3
    <3> QED BY <3>1, <3>2
  <2> QED
    BY <1>5, <2>2, <2>4 DEF made, rest
<1> QED BY <1>3, <1>4, <1>5

\* Neither what was consumed before an object nor what comes behind it adds to it.
LEMMA JoinObject ==
    ASSUME NEW type, NEW q, NEW n
    PROVE  /\ Join(Object(type, q), [next |-> Object(type, q).next, vals |-> << >>]) = Object(type, q)
           /\ Join([next |-> n, vals |-> << >>], Object(type, q)) = Object(type, q)
<1> DEFINE o == [type |-> type, args |-> q.vals]
           r == [next |-> q.next, vals |-> <<o>>]
<1>1. Object(type, q) = r
  BY DEF Object
<1> HIDE DEF o
<1>2. <<o>> \o << >> = <<o>> /\ << >> \o <<o>> = <<o>>
  OBVIOUS
<1>3. /\ Join(r, [next |-> r.next, vals |-> << >>]) = r
      /\ Join([next |-> n, vals |-> << >>], r) = r
  BY <1>2 DEF Join
<1> QED
  BY <1>1, <1>3

\* The grammar as a whole: a path leads to the routes of the table that name it.
LEMMA ApiNames ==
    ASSUME NEW p \in Seq(Segments), NEW table \in TableType, NamesDiffer(table)
    PROVE  Api(p, table) = Named(p, table)
<1> DEFINE lit == Lit(p, "api")
           routes == Routes(p, table)
           inner == Then(p, routes, Done(p))
           whole == Then(p, lit, inner)
           start == [next |-> 2, vals |-> << >>]
           kept(set) == {Flatten(r.vals) : r \in {r \in set : AtEnd(p, r.next)}}
<1>1. Len(p) \in Nat /\ 1 \in Positions(p)
  BY DEF Positions
<1>2. Api(p, table) = kept(whole[1])
  BY DEF Api, Root
<1>3. kept({}) = {}
  OBVIOUS
<1>4. CASE Len(p) = 0 \/ p[1] # "api"
  <2>1. lit[1] = {}
    <3>1. CASE Len(p) = 0
      <4>1. Len(p) + 1 = 1
        BY <3>1
      <4> QED BY <4>1, LitAtEnd
    <3>2. CASE Len(p) # 0
      <4>1. 1 \in 1 .. Len(p)
        BY <1>1, <3>2
      <4> QED BY <1>4, <3>2, <4>1, LitReads
    <3> QED BY <3>1, <3>2
  <2> HIDE DEF lit, inner
  <2>2. whole[1] = {}
    BY <1>1, <2>1, ThenAfterNone
  <2>3. Named(p, table) = {}
    BY <1>1, <1>4 DEF Named
  <2> HIDE DEF whole, kept
  <2> QED
    BY <1>2, <1>3, <2>2, <2>3
<1>5. CASE Len(p) # 0 /\ p[1] = "api"
  <2> DEFINE results == UNION {Parsed(p, table[k]) : k \in DOMAIN table}
  <2>1. Len(p) >= 1 /\ 1 \in 1 .. Len(p) /\ 2 \in Positions(p)
    BY <1>1, <1>5 DEF Positions
  <2>2. lit[1] = {start}
    <3>1. 1 + 1 = 2
      OBVIOUS
    <3>2. lit[1] = {[next |-> 1 + 1, vals |-> << >>]}
      BY <1>5, <2>1, LitReads
    <3> QED BY <3>1, <3>2
  <2>3. routes[2] = results
    BY <2>1, RoutesRead
  <2>4. \A r \in results : r.next \in Positions(p) /\ \E t, q : r = Object(t, q)
    BY ParsedResults
  <2> HIDE DEF lit, routes, results
  <2>5. inner[2] = results
    <3>1. \A r \in routes[2] :
             r.next \in Positions(p) /\ Join(r, [next |-> r.next, vals |-> << >>]) = r
      <4> TAKE r \in routes[2]
      <4>1. PICK t, q : r = Object(t, q)
        BY <2>3, <2>4
      <4> QED BY <2>3, <2>4, <4>1, JoinObject
    <3> QED BY <2>1, <2>3, <3>1, ThenDone
  <2> HIDE DEF inner
  <2>6. whole[1] = results
    <3>1. whole[1] = After(start, inner)
      <4> HIDE DEF start
      <4> QED BY <1>1, <2>2, ThenAfterOne
    <3>2. After(start, inner) = {Join(start, r) : r \in inner[2]}
      BY DEF After
    <3>3. \A r \in results : Join(start, r) = r
      <4> TAKE r \in results
      <4>1. PICK t, q : r = Object(t, q)
        BY <2>4
      <4> QED BY <4>1, JoinObject
    <3> HIDE DEF whole, start
    <3> QED BY <2>5, <3>1, <3>2, <3>3
  <2> HIDE DEF whole
  <2>7. kept(results) = UNION {kept(Parsed(p, table[k])) : k \in DOMAIN table}
    BY DEF results
  <2>8. CASE Len(p) = 1
    <3>1. results = {}
      BY <2>8 DEF results, Parsed
    <3>2. Named(p, table) = {}
      BY <2>8 DEF Named
    <3> HIDE DEF kept
    <3> QED BY <1>2, <1>3, <2>6, <3>1, <3>2
  <2>9. CASE Len(p) >= 2
    <3> DEFINE made(e) == {[type |-> e.op, args |-> a] : a \in Arguments(e, SubSeq(p, 3, Len(p)))}
    <3>1. \A k \in DOMAIN table :
             kept(Parsed(p, table[k])) = IF table[k].op = p[2] THEN made(table[k]) ELSE {}
      BY <2>9, RootOfRoute
    <3>2. Named(p, table) = UNION {made(e) : e \in {e \in ToSet(table) : e.op = p[2]}}
      BY <1>1, <1>5, <2>9 DEF Named
    <3>3. ToSet(table) = {table[k] : k \in DOMAIN table}
      BY DEF ToSet
    <3> HIDE DEF kept, made
    <3>4. UNION {kept(Parsed(p, table[k])) : k \in DOMAIN table} =
            UNION {made(e) : e \in {e \in ToSet(table) : e.op = p[2]}}
      BY <3>1, <3>3
    <3> QED BY <1>2, <2>6, <2>7, <3>2, <3>4
  <2>10. \A n \in Nat : n # 0 => n = 1 \/ n >= 2
    OBVIOUS
  <2> QED BY <1>1, <1>5, <2>8, <2>9, <2>10
<1> QED BY <1>4, <1>5

-----------------------------------------------------------------------------
(* The routes of the API *)

\* Thirteen routes with thirteen names
LEMMA RouteTableType ==
    RouteTable \in TableType /\ NamesDiffer(RouteTable) /\ Len(RouteTable) = 13
<1>1. Len(RouteTable) = 13 /\ DOMAIN RouteTable = 1 .. 13
  BY DEF RouteTable
<1>2. RouteTable \in TableType
  <2> DEFINE E == [op : Ops, id : BOOLEAN]
             plain(op) == [op |-> op, id |-> FALSE]
             withId(op) == [op |-> op, id |-> TRUE]
             t(k) == RouteTable[k]
  <2>1. /\ t(1) = plain("get_projects") /\ t(2) = withId("get_project")
        /\ t(3) = withId("get_worker") /\ t(4) = withId("get_task")
        /\ t(5) = plain("add_project") /\ t(6) = plain("del_project")
        /\ t(7) = plain("get_users") /\ t(8) = plain("add_task")
        /\ t(9) = plain("assign_task") /\ t(10) = plain("unassign_task")
        /\ t(11) = plain("add_worker") /\ t(12) = plain("get_workers")
        /\ t(13) = plain("debug")
    BY DEF RouteTable
  <2>2. \A op : /\ plain(op).op = op /\ withId(op).op = op
                /\ op \in Ops => plain(op) \in E /\ withId(op) \in E
    OBVIOUS
  <2>3. RouteTable = [k \in 1 .. 13 |-> t(k)]
    BY DEF RouteTable
  <2>4. \A k \in 1 .. 13 : t(k).op \in Ops
    BY <1>1 DEF Ops
  <2> HIDE DEF E, plain, withId, t
  <2>5. ASSUME NEW k \in 1 .. 13 PROVE \E op : t(k) = plain(op) \/ t(k) = withId(op)
    BY <2>1
  <2>6. \A k \in 1 .. 13 : t(k) \in E
    BY <2>2, <2>4, <2>5
  <2>7. [k \in 1 .. 13 |-> t(k)] \in Seq(E)
    BY <2>6
  <2> QED BY <2>3, <2>7 DEF E, TableType
<1>3. NamesDiffer(RouteTable)
  BY <1>1 DEF RouteTable, NamesDiffer
<1> QED
  BY <1>1, <1>2, <1>3

\* The same routes, listed the other way round
LEMMA ReversedRoutes ==
    /\ Reverse(RouteTable) \in TableType /\ NamesDiffer(Reverse(RouteTable))
    /\ ToSet(Reverse(RouteTable)) = ToSet(RouteTable)
<1> DEFINE t == RouteTable
           back == Reverse(t)
<1>1. t \in TableType /\ NamesDiffer(t) /\ Len(t) = 13 /\ DOMAIN t = 1 .. 13
  BY RouteTableType DEF TableType
<1> HIDE DEF t
<1>2. back = [i \in 1 .. 13 |-> t[14 - i]]
  BY <1>1 DEF Reverse
<1>3. \A i \in 1 .. 13 : 14 - i \in 1 .. 13 /\ 14 - (14 - i) = i
  OBVIOUS
<1>4. \A i \in 1 .. 13 : t[i] \in [op : Ops, id : BOOLEAN]
  BY <1>1, ElementOfSeq DEF TableType
<1> HIDE DEF back
<1>5. back \in TableType
  BY <1>2, <1>3, <1>4 DEF TableType
<1>6. NamesDiffer(back)
  <2> SUFFICES ASSUME NEW j \in 1 .. 13, NEW k \in 1 .. 13, back[j].op = back[k].op
               PROVE  j = k
    BY <1>2 DEF NamesDiffer
  <2>1. 14 - j = 14 - k
    BY <1>1, <1>2, <1>3 DEF NamesDiffer
  <2> QED BY <2>1
<1>7. ToSet(back) = ToSet(t)
  <2>1. \A i \in 1 .. 13 : back[i] = t[14 - i]
    BY <1>2
  <2>2. \A i \in 1 .. 13 : t[i] = back[14 - i]
    BY <1>3, <2>1
  <2> QED
    BY <1>1, <1>2, <1>3, <2>1, <2>2 DEF ToSet
<1> QED
  BY <1>5, <1>6, <1>7 DEF back, t

\* The segments of a path come one by one.
LEMMA PathIsTyped == PathSpec => [](path \in Seq(Segments))
<1> DEFINE Typed == path \in Seq(Segments)
<1>1. PathInit => Typed
  BY DEF PathInit
<1>2. Typed /\ [PathNext]_path => Typed'
  BY DEF PathNext, NextSegment
<1> HIDE DEF Typed
<1>3. PathSpec => []Typed
  BY <1>1, <1>2, PTL DEF PathSpec
<1> QED
  BY <1>3 DEF Typed

\* An endpoint is given the id of the path when its route has one, and nothing else.
LEMMA RouteGivesIds ==
    ASSUME NEW p \in Seq(Segments), NEW e \in Api(p, RouteTable)
    PROVE  \/ /\ e.type \in {"get_project", "get_worker", "get_task"}
              /\ \E s \in Segments : \E n \in Stoi(s) : e.args = <<n>>
           \/ /\ e.type \in {"get_projects", "add_project", "del_project", "get_users", "add_task",
                             "assign_task", "unassign_task", "add_worker", "get_workers", "debug"}
              /\ e.args = << >>
<1> DEFINE rest == SubSeq(p, 3, Len(p))
<1>1. Api(p, RouteTable) = Named(p, RouteTable)
  BY RouteTableType, ApiNames
<1>2. PICK r \in ToSet(RouteTable) : \E a \in Arguments(r, rest) : e = [type |-> r.op, args |-> a]
  BY <1>1 DEF Named
<1>3. PICK a \in Arguments(r, rest) : e = [type |-> r.op, args |-> a]
  BY <1>2
<1>4. Len(p) \in Nat /\ rest \in Seq(Segments)
  BY SubSeqProperties
<1>5. IF r.id THEN r.op \in {"get_project", "get_worker", "get_task"}
      ELSE r.op \in {"get_projects", "add_project", "del_project", "get_users", "add_task",
                     "assign_task", "unassign_task", "add_worker", "get_workers", "debug"}
  BY DEF ToSet, RouteTable
<1>6. CASE r.id
  <2>1. Len(rest) = 1 /\ \E n \in LeadingInt[rest[1]] \cap (-IntMax - 1 .. IntMax) : a = <<n>>
    BY <1>6 DEF Arguments
  <2>2. rest[1] \in Segments
    BY <1>4, <2>1, ElementOfSeq
  <2>3. \E n \in Stoi(rest[1]) : a = <<n>>
    BY <2>1, <2>2, LeadingIntAssumption, IntMaxAssumption DEF Stoi
  <2> QED
    BY <1>3, <1>5, <1>6, <2>2, <2>3
<1>7. CASE ~ r.id
  <2>1. a = << >>
    BY <1>7 DEF Arguments
  <2> QED
    BY <1>3, <1>5, <1>7, <2>1
<1> QED
  BY <1>6, <1>7

\* For paths of every length over every alphabet: the router accepts exactly the
\* paths of its table, each as a whole, and gives the endpoint the int that the
\* segment for the id begins with.
THEOREM RouterAcceptsItsRoutes == PathSpec => []AcceptsItsRoutes
<1>1. path \in Seq(Segments) => AcceptsItsRoutes
  BY RouteTableType, ApiNames DEF AcceptsItsRoutes, Route
<1> QED
  BY <1>1, PathIsTyped, PTL

\* For every path the order in which ApiRouter lists its routes does not matter,
\* although Dyn never tries another route after one has matched.
THEOREM RouterHidesNoRoute == PathSpec => []NoRouteHidesAnother
<1>1. ASSUME path \in Seq(Segments) PROVE NoRouteHidesAnother
  <2>1. Api(path, RouteTable) = Named(path, RouteTable)
    BY <1>1, RouteTableType, ApiNames
  <2>2. Api(path, Reverse(RouteTable)) = Named(path, Reverse(RouteTable))
    BY <1>1, ReversedRoutes, ApiNames
  <2>3. Named(path, Reverse(RouteTable)) = Named(path, RouteTable)
    BY ReversedRoutes DEF Named
  <2> QED
    BY <2>1, <2>2, <2>3 DEF NoRouteHidesAnother, Route
<1> QED
  BY <1>1, PathIsTyped, PTL

-----------------------------------------------------------------------------
(* The pool.  A body is read for the request it belongs to, because the    *)
(* queue holds no job that is left over from an earlier one.               *)

\* The queue holds exactly the work that is due, each job once.
JobsAreDue ==
    /\ \A i, j \in DOMAIN jobs : jobs[i] = jobs[j] => i = j
    /\ \A r \in Requests : /\ Handle(r) \in Range(jobs) <=> at[r] = "queued"
                           /\ Read(r) \in Range(jobs) <=> body[r] = "sent"

PoolInv == TypeOK /\ JobsAreDue

\* The jobs are distinct.
LEMMA JobsDiffer ==
    /\ \A r, q : Handle(r) = Handle(q) => r = q
    /\ \A r, q : Read(r) = Read(q) => r = q
    /\ \A r, q : Handle(r) # Read(q)
BY DEF Handle, Read

\* A new job at the end of the queue
LEMMA JobIsAdded ==
    ASSUME NEW J, NEW s \in Seq(J), NEW j \in J, j \notin Range(s),
           \A m, n \in DOMAIN s : s[m] = s[n] => m = n
    PROVE  LET t == Append(s, j) IN
           /\ t \in Seq(J) /\ \A m, n \in DOMAIN t : t[m] = t[n] => m = n
           /\ Range(t) = Range(s) \cup {j}
<1> DEFINE t == Append(s, j)
<1>1. /\ t \in Seq(J) /\ Len(s) \in Nat /\ DOMAIN s = 1 .. Len(s)
      /\ DOMAIN t = 1 .. Len(s) + 1
      /\ \A m \in 1 .. Len(s) : t[m] = s[m]
      /\ t[Len(s) + 1] = j
  OBVIOUS
<1> HIDE DEF t
<1>2. \A m \in DOMAIN t : m \in DOMAIN s \/ m = Len(s) + 1
  BY <1>1
<1>3. \A m \in DOMAIN s : s[m] # j
  BY DEF Range
<1>4. \A m, n \in DOMAIN t : t[m] = t[n] => m = n
  BY <1>1, <1>2, <1>3
<1>5. Range(t) = Range(s) \cup {j}
  BY <1>1, <1>2 DEF Range
<1> QED
  BY <1>1, <1>4, <1>5 DEF t

\* The first job leaves the queue.
LEMMA JobIsTaken ==
    ASSUME NEW J, NEW s \in Seq(J), s # << >>,
           \A m, n \in DOMAIN s : s[m] = s[n] => m = n
    PROVE  LET t == Tail(s) IN
           /\ t \in Seq(J) /\ Head(s) \in J /\ Head(s) \in Range(s)
           /\ \A m, n \in DOMAIN t : t[m] = t[n] => m = n
           /\ Range(t) = Range(s) \ {Head(s)}
<1> DEFINE t == Tail(s)
<1>1. /\ t \in Seq(J) /\ Len(s) \in Nat /\ Len(s) >= 1 /\ DOMAIN s = 1 .. Len(s)
      /\ DOMAIN t = 1 .. Len(s) - 1
      /\ \A m \in 1 .. Len(s) - 1 : t[m] = s[m + 1]
      /\ Head(s) = s[1] /\ Head(s) \in J
  OBVIOUS
<1> HIDE DEF t
<1>2. \A m \in DOMAIN t : m + 1 \in DOMAIN s /\ m + 1 # 1 /\ t[m] = s[m + 1]
  BY <1>1
<1>3. \A n \in DOMAIN s : n = 1 \/ (n - 1 \in DOMAIN t /\ t[n - 1] = s[n])
  BY <1>1
<1>4. \A m, n \in DOMAIN t : t[m] = t[n] => m = n
  <2> SUFFICES ASSUME NEW m \in DOMAIN t, NEW n \in DOMAIN t, t[m] = t[n] PROVE m = n
    OBVIOUS
  <2>1. m + 1 = n + 1
    BY <1>2
  <2> QED BY <1>1, <2>1
<1>5. 1 \in DOMAIN s
  BY <1>1
<1>6. Range(t) \subseteq Range(s) \ {Head(s)}
  BY <1>1, <1>2, <1>5 DEF Range
<1>7. Range(s) \ {Head(s)} \subseteq Range(t)
  BY <1>1, <1>3 DEF Range
<1> QED
  BY <1>1, <1>4, <1>5, <1>6, <1>7 DEF t, Range

\* At the start nothing is under way.
LEMMA PoolStarts == Init => PoolInv
<1> SUFFICES ASSUME Init PROVE PoolInv
  OBVIOUS
<1>1. TypeOK
  BY DEF Init, TypeOK, Methods
<1>2. Range(jobs) = {}
  BY DEF Init, Range
<1>3. JobsAreDue
  BY <1>2 DEF Init, JobsAreDue
<1> QED
  BY <1>1, <1>3 DEF PoolInv

\* A request arrives.
LEMMA ArriveKeepsPool ==
    ASSUME PoolInv, NEW r \in Requests, NEW m \in Methods, Arrive(r, m)
    PROVE  PoolInv'
<1> DEFINE JobType == [do : {"handle", "read"}, for : Requests]
<1>1. at[r] = "none" /\ body[r] = "none" /\ Handle(r) \notin Range(jobs)
  BY DEF Arrive, PoolInv, TypeOK, JobsAreDue
<1>2. Handle(r) \in JobType
  BY DEF Handle
<1>3. /\ jobs' \in Seq(JobType) /\ \A i, j \in DOMAIN jobs' : jobs'[i] = jobs'[j] => i = j
      /\ Range(jobs') = Range(jobs) \cup {Handle(r)}
  <2>1. jobs \in Seq(JobType) /\ \A i, j \in DOMAIN jobs : jobs[i] = jobs[j] => i = j
    BY DEF PoolInv, TypeOK, JobsAreDue
  <2>2. jobs' = Append(jobs, Handle(r))
    BY DEF Arrive
  <2> HIDE DEF JobType
  <2> QED BY <1>1, <1>2, <2>1, <2>2, JobIsAdded
<1>4. TypeOK'
  BY <1>3 DEF Arrive, PoolInv, TypeOK
<1>5. JobsAreDue'
  <2> SUFFICES ASSUME NEW q \in Requests
               PROVE  /\ Handle(q) \in Range(jobs') <=> at'[q] = "queued"
                      /\ Read(q) \in Range(jobs') <=> body'[q] = "sent"
    BY <1>3 DEF JobsAreDue
  <2>1. /\ Handle(q) \in Range(jobs') <=> q = r \/ Handle(q) \in Range(jobs)
        /\ Read(q) \in Range(jobs') <=> Read(q) \in Range(jobs)
    BY <1>3, JobsDiffer
  <2> QED
    BY <1>1, <2>1 DEF Arrive, PoolInv, TypeOK, JobsAreDue
<1> QED
  BY <1>4, <1>5 DEF PoolInv

\* The body of a request comes.
LEMMA BodyComesKeepsPool ==
    ASSUME PoolInv, NEW r \in Requests, BodyComes(r)
    PROVE  PoolInv'
<1> DEFINE JobType == [do : {"handle", "read"}, for : Requests]
<1>1. at[r] # "none" /\ body[r] = "announced" /\ Read(r) \notin Range(jobs)
  BY DEF BodyComes, UnderWay, PoolInv, TypeOK, JobsAreDue
<1>2. Read(r) \in JobType
  BY DEF Read
<1>3. /\ jobs' \in Seq(JobType) /\ \A i, j \in DOMAIN jobs' : jobs'[i] = jobs'[j] => i = j
      /\ Range(jobs') = Range(jobs) \cup {Read(r)}
  <2>1. jobs \in Seq(JobType) /\ \A i, j \in DOMAIN jobs : jobs[i] = jobs[j] => i = j
    BY DEF PoolInv, TypeOK, JobsAreDue
  <2>2. jobs' = Append(jobs, Read(r))
    BY DEF BodyComes
  <2> HIDE DEF JobType
  <2> QED BY <1>1, <1>2, <2>1, <2>2, JobIsAdded
<1>4. TypeOK'
  BY <1>1, <1>3 DEF BodyComes, PoolInv, TypeOK
<1>5. JobsAreDue'
  <2> SUFFICES ASSUME NEW q \in Requests
               PROVE  /\ Handle(q) \in Range(jobs') <=> at'[q] = "queued"
                      /\ Read(q) \in Range(jobs') <=> body'[q] = "sent"
    BY <1>3 DEF JobsAreDue
  <2>1. /\ Read(q) \in Range(jobs') <=> q = r \/ Read(q) \in Range(jobs)
        /\ Handle(q) \in Range(jobs') <=> Handle(q) \in Range(jobs)
    BY <1>3, JobsDiffer
  <2> QED
    BY <1>1, <2>1 DEF BodyComes, PoolInv, TypeOK, JobsAreDue
<1> QED
  BY <1>4, <1>5 DEF PoolInv

\* A free thread takes a job.
LEMMA TakeKeepsPool ==
    ASSUME PoolInv, TakeHandle \/ TakeRead
    PROVE  PoolInv'
<1> DEFINE JobType == [do : {"handle", "read"}, for : Requests]
           r == Head(jobs).for
<1>1. /\ jobs' \in Seq(JobType) /\ Head(jobs) \in JobType /\ Head(jobs) \in Range(jobs)
      /\ \A i, j \in DOMAIN jobs' : jobs'[i] = jobs'[j] => i = j
      /\ Range(jobs') = Range(jobs) \ {Head(jobs)}
  <2>1. jobs \in Seq(JobType) /\ \A i, j \in DOMAIN jobs : jobs[i] = jobs[j] => i = j
    BY DEF PoolInv, TypeOK, JobsAreDue
  <2>2. jobs # << >> /\ jobs' = Tail(jobs)
    BY DEF TakeHandle, TakeRead
  <2> HIDE DEF JobType
  <2> QED BY <2>1, <2>2, JobIsTaken
<1>2. r \in Requests
  BY <1>1
<1>3. CASE TakeHandle
  <2>1. Head(jobs) = Handle(r)
    BY <1>1, <1>3 DEF TakeHandle, Handle
  <2>2. at[r] = "queued"
    BY <1>1, <1>2, <2>1 DEF PoolInv, JobsAreDue
  <2> HIDE DEF r
  <2>3. at' = [at EXCEPT ![r] = "handled"] /\ UNCHANGED <<method, body>>
    BY <1>3 DEF TakeHandle, r
  <2>4. TypeOK'
    BY <1>1, <1>2, <2>2, <2>3 DEF PoolInv, TypeOK
  <2>5. JobsAreDue'
    <3> SUFFICES ASSUME NEW q \in Requests
                 PROVE  /\ Handle(q) \in Range(jobs') <=> at'[q] = "queued"
                        /\ Read(q) \in Range(jobs') <=> body'[q] = "sent"
      BY <1>1 DEF JobsAreDue
    <3>1. /\ Handle(q) \in Range(jobs') <=> q # r /\ Handle(q) \in Range(jobs)
          /\ Read(q) \in Range(jobs') <=> Read(q) \in Range(jobs)
      BY <1>1, <2>1, JobsDiffer
    <3> QED
      BY <2>3, <3>1 DEF PoolInv, TypeOK, JobsAreDue
  <2> QED
    BY <2>4, <2>5 DEF PoolInv
<1>4. CASE TakeRead
  <2>1. Head(jobs) = Read(r)
    BY <1>1, <1>4 DEF TakeRead, Read
  <2>2. body[r] = "sent"
    BY <1>1, <1>2, <2>1 DEF PoolInv, JobsAreDue
  <2> HIDE DEF r
  <2>3. body' = [body EXCEPT ![r] = "read"] /\ UNCHANGED <<method, at>>
    BY <1>4 DEF TakeRead, r
  <2>4. TypeOK'
    BY <1>1, <1>2, <2>2, <2>3 DEF PoolInv, TypeOK
  <2>5. JobsAreDue'
    <3> SUFFICES ASSUME NEW q \in Requests
                 PROVE  /\ Handle(q) \in Range(jobs') <=> at'[q] = "queued"
                        /\ Read(q) \in Range(jobs') <=> body'[q] = "sent"
      BY <1>1 DEF JobsAreDue
    <3>1. /\ Read(q) \in Range(jobs') <=> q # r /\ Read(q) \in Range(jobs)
          /\ Handle(q) \in Range(jobs') <=> Handle(q) \in Range(jobs)
      BY <1>1, <2>1, JobsDiffer
    <3> QED
      BY <2>3, <3>1 DEF PoolInv, TypeOK, JobsAreDue
  <2> QED
    BY <2>4, <2>5 DEF PoolInv
<1> QED BY <1>3, <1>4

\* A thread goes on with its request, or the connection is done with it.
LEMMA HandlingKeepsPool ==
    ASSUME PoolInv, NEW r \in Requests, HandleRequest(r) \/ Resume(r) \/ Leave(r)
    PROVE  PoolInv'
<1>1. CASE HandleRequest(r)
  BY <1>1 DEF HandleRequest, PoolInv, TypeOK, JobsAreDue
<1>2. CASE Resume(r)
  BY <1>2 DEF Resume, PoolInv, TypeOK, JobsAreDue
<1>3. CASE Leave(r)
  <2>1. TypeOK'
    BY <1>3 DEF Leave, PoolInv, TypeOK, Methods
  <2>2. JobsAreDue'
    BY <1>3 DEF Leave, PoolInv, TypeOK, JobsAreDue
  <2> QED
    BY <2>1, <2>2 DEF PoolInv
<1> QED BY <1>1, <1>2, <1>3

\* Every step keeps the invariant of the pool.
LEMMA PoolInvariant == Spec => []PoolInv
<1>1. PoolInv /\ [Next]_vars => PoolInv'
  <2> SUFFICES ASSUME PoolInv, [Next]_vars PROVE PoolInv'
    OBVIOUS
  <2>1. CASE UNCHANGED vars
    BY <2>1 DEF vars, PoolInv, TypeOK, JobsAreDue
  <2>2. CASE TakeHandle \/ TakeRead
    BY <2>2, TakeKeepsPool
  <2>3. ASSUME NEW r \in Requests, NEW m \in Methods, Arrive(r, m) PROVE PoolInv'
    BY <2>3, ArriveKeepsPool
  <2>4. ASSUME NEW r \in Requests, BodyComes(r) PROVE PoolInv'
    BY <2>4, BodyComesKeepsPool
  <2>5. ASSUME NEW r \in Requests, HandleRequest(r) \/ Resume(r) \/ Leave(r) PROVE PoolInv'
    BY <2>5, HandlingKeepsPool
  <2> QED
    BY <2>1, <2>2, <2>3, <2>4, <2>5 DEF Next, Idle
<1> QED
  BY <1>1, PoolStarts, PTL DEF Spec

\* For every number of connections and threads: the state of the pool is one of the
\* states that its handlers can be in.
THEOREM PoolIsTyped == Spec => []TypeOK
<1>1. PoolInv => TypeOK
  BY DEF PoolInv
<1> QED
  BY <1>1, PoolInvariant, PTL
=============================================================================
