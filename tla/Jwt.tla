--------------------------------- MODULE Jwt ---------------------------------
(***************************************************************************)
(* verify_auth() over time: one bearer token is presented again and again  *)
(* while the clock runs and the service is restarted with other values of  *)
(* auth_jwt_leeway_secs.  Integers keep their widths: the leeway goes from *)
(* a JSON number to an int, to a size_t and to signed seconds, and the     *)
(* times of a token from seconds to the finer units of the system clock.   *)
(***************************************************************************)
EXTENDS Integers

CONSTANTS
    IntMax,     \* numeric_limits<int>::max()
    LongMax,    \* the same of time_t and of clock ticks, which are as wide as size_t
    Tick,       \* clock ticks in a second (10^9)
    Leeways,    \* values of auth_jwt_leeway_secs in the configuration
    Tokens,     \* tokens a client may hold
    MaxNow      \* bound on the clock

\* A time claim of a token: not there, not an integer, or a number of seconds
Absent    == [is |-> "absent", at |-> 0]
Malformed == [is |-> "malformed", at |-> 0]
Date(n)   == [is |-> "date", at |-> n]
ClaimType == {Absent, Malformed} \cup [is : {"date"}, at : Int]

TokenType == [alg : {"RS256", "other"}, signed : BOOLEAN, sub : BOOLEAN,
              iss : {"ours", "other", "absent"},
              exp : ClaimType, iat : ClaimType, nbf : ClaimType]

ASSUME JwtAssumption ==
    /\ IntMax \in Nat /\ LongMax \in Nat /\ IntMax <= LongMax
    /\ Tick \in Nat \ {0}
    /\ Leeways \subseteq Int
    /\ Tokens \subseteq TokenType
    /\ MaxNow \in Nat

VARIABLES
    now,        \* std::chrono::system_clock::now(), which is not set back
    configured, \* the JSON number behind auth_jwt_leeway_secs at the last start
    token,      \* what the client presents
    verdict,    \* the outcome of the last call of verify_auth()
    window      \* history: before, during or after the time the token was accepted

vars == <<now, configured, token, verdict, window>>

-----------------------------------------------------------------------------
(* Conversions *)

\* Conversions to the unsigned and to the signed type of a width: max is the
\* highest value of the signed one.
Unsigned(x, max) == x % (2 * (max + 1))
Signed(x, max)   == ((x + max + 1) % (2 * (max + 1))) - max - 1

\* Config::get_int, whose get<int>() narrows
GetInt(number) == Signed(number, IntMax)

\* AuthConfig casts the int to size_t, jwt-cpp the size_t to signed seconds;
\* through an unsigned int a negative number would not come back.
LeewayThroughUnsignedInt(number) == Signed(Unsigned(GetInt(number), IntMax), LongMax)
LeewaySeconds(number) == Signed(Unsigned(GetInt(number), LongMax), LongMax)

\* Seconds as ticks.  Overflow is undefined; what is compiled wraps.
Ticks(seconds) == Signed(seconds * Tick, LongMax)

-----------------------------------------------------------------------------
(* verify_auth() *)

\* The clock read into an int
ExpiredInInts(t, leeway) ==
    t.exp.is = "date" /\ Signed(now, IntMax) > Signed(Ticks(t.exp.at) + Ticks(leeway), LongMax)
Expired(t, leeway) ==
    t.exp.is = "date" /\ now > Signed(Ticks(t.exp.at) + Ticks(leeway), LongMax)

Early(claim, leeway) ==
    claim.is = "date" /\ now < Signed(Ticks(claim.at) - Ticks(leeway), LongMax)

\* Whatever fails first is thrown, and every exception becomes an AuthError.
VerifyAuth(t, leeway) ==
    /\ t.alg = "RS256" /\ t.signed
    /\ Malformed \notin {t.exp, t.iat, t.nbf}
    /\ ~Expired(t, leeway)
    /\ ~Early(t.iat, leeway) /\ ~Early(t.nbf, leeway)
    /\ t.iss = "ours"
    /\ t.sub

\* Without the second catch block a std::bad_cast would leave verify_auth().
PresentUncaught ==
    LET ok == VerifyAuth(token, LeewaySeconds(configured)) IN
    /\ verdict' = IF ok THEN "accepted"
                  ELSE IF token.exp = Malformed THEN "bad_cast" ELSE "AuthError"
    /\ window' = IF ok THEN "during" ELSE IF window = "during" THEN "after" ELSE window
    /\ UNCHANGED <<now, configured, token>>

\* A request with the token in its header
Present ==
    LET ok == VerifyAuth(token, LeewaySeconds(configured)) IN
    /\ verdict' = IF ok THEN "accepted" ELSE "AuthError"
    /\ window' = IF ok THEN "during" ELSE IF window = "during" THEN "after" ELSE window
    /\ UNCHANGED <<now, configured, token>>

Tock ==
    /\ now < MaxNow
    /\ now' = now + 1
    /\ verdict' = "none"
    /\ UNCHANGED <<configured, token, window>>

\* The service is started again with another leeway.
Restart(number) ==
    /\ configured' = number
    /\ verdict' = "none"
    /\ window' = "before"
    /\ UNCHANGED <<now, token>>

Init ==
    /\ now = 0
    /\ configured \in Leeways
    /\ token \in Tokens
    /\ verdict = "none"
    /\ window = "before"

Next == Present \/ Tock \/ \E number \in Leeways : Restart(number)

Spec == Init /\ [][Next]_vars

-----------------------------------------------------------------------------
(* Properties *)

\* Type invariant; with it, verify_auth() throws nothing but AuthError.
TypeOK ==
    /\ now \in 0..MaxNow
    /\ configured \in Leeways
    /\ token \in Tokens
    /\ verdict \in {"none", "accepted", "AuthError"}
    /\ window \in {"before", "during", "after"}

\* What the README says of the leeway, in whole numbers: a good token is
\* accepted from its iat and nbf, less the leeway, to its exp plus the leeway.
Fits(x, max) == -max - 1 <= x /\ x <= max
Within(t, leeway) ==
    /\ t.alg = "RS256" /\ t.signed /\ t.iss = "ours" /\ t.sub
    /\ Malformed \notin {t.exp, t.iat, t.nbf}
    /\ t.exp # Absent => now <= (t.exp.at + leeway) * Tick
    /\ t.iat # Absent => (t.iat.at - leeway) * Tick <= now
    /\ t.nbf # Absent => (t.nbf.at - leeway) * Tick <= now

\* The conversions and verify() accept a token exactly then, for negative
\* leeways too, as long as the configured number fits an int and no time of the
\* token is beyond what the clock can express.
NoOverflow(t, leeway) ==
    /\ Fits(leeway, IntMax)
    /\ \A claim \in {t.exp, t.iat, t.nbf} : claim.is = "date" =>
          \A x \in {claim.at, leeway, claim.at + leeway, claim.at - leeway} : Fits(x * Tick, LongMax)

AcceptsItsWindow ==
    verdict # "none" /\ NoOverflow(token, configured) =>
        (verdict = "accepted" <=> Within(token, configured))

\* While the service runs, a token that was accepted and then refused is never
\* accepted again: an expired token stays expired, overflow or not.
NoSecondLife == [][window = "after" /\ window' # "before" => verdict' # "accepted"]_vars
=============================================================================
