------------------------------- MODULE MCJwt -------------------------------
(* Instance of Jwt for TLC: 4-bit ints, 7-bit clock, two ticks a second *)
EXTENDS Jwt

GoodToken == [alg |-> "RS256", signed |-> TRUE, sub |-> TRUE, iss |-> "ours",
              exp |-> Absent, iat |-> Absent, nbf |-> Absent]

\* 40 seconds are more ticks than the clock can express.
Claims == {Absent, Date(0), Date(5), Date(9), Date(40)}

AllTokens ==
    {[GoodToken EXCEPT !.exp = e, !.iat = i, !.nbf = n] : e, i, n \in Claims}
    \cup {[GoodToken EXCEPT !.exp = Malformed], [GoodToken EXCEPT !.iat = Malformed],
          [GoodToken EXCEPT !.nbf = Malformed], [GoodToken EXCEPT !.alg = "other"],
          [GoodToken EXCEPT !.signed = FALSE], [GoodToken EXCEPT !.sub = FALSE],
          [GoodToken EXCEPT !.iss = "other"], [GoodToken EXCEPT !.iss = "absent"]}

\* 12 narrows to -4, 16 to 0
SomeLeeways == {-8, -3, 0, 2, 7, 12, 16}
=============================================================================
