------------------------------ MODULE JwtProofs ------------------------------
(***************************************************************************)
(* Safety of module Jwt, for all widths of the integers, all ticks, all    *)
(* leeways and all tokens.                                                 *)
(***************************************************************************)
EXTENDS Jwt, TLAPS

\* What verify_auth() asks of a token whatever time it is
Sound(t) ==
    /\ t.alg = "RS256" /\ t.signed
    /\ Malformed \notin {t.exp, t.iat, t.nbf}
    /\ t.iss = "ours"
    /\ t.sub

Leeway == LeewaySeconds(configured)

Begun(t) == ~Early(t.iat, Leeway) /\ ~Early(t.nbf, Leeway)

\* The verdict is about the present, ...
VerdictCurrent == verdict # "none" => (verdict = "accepted" <=> VerifyAuth(token, Leeway))

\* ... and a token that was accepted can have failed at nothing but its end.
WindowKept ==
    /\ window \in {"during", "after"} => Sound(token) /\ Begun(token)
    /\ window = "after" => Expired(token, Leeway)

IInv == TypeOK /\ VerdictCurrent /\ WindowKept

-----------------------------------------------------------------------------
(* Conversions *)

\* What fits a type is left alone by a conversion to it.
LEMMA SignedFits == ASSUME NEW max \in Nat, NEW x \in Int, Fits(x, max) PROVE Signed(x, max) = x
<1> DEFINE span == 2 * (max + 1)
           y == x + max + 1
<1>1. span \in Nat \ {0} /\ y \in Int /\ 0 <= y /\ y < span
  BY DEF Fits
<1>2. Signed(x, max) = (y % span) - max - 1
  BY DEF Signed
<1> HIDE DEF span
<1>3. y % span = y
  <2> HIDE DEF y
  <2> QED
    BY <1>1
<1> QED
  BY <1>2, <1>3

\* The way through the unsigned type and back
LEMMA SignedUnsignedFits ==
    ASSUME NEW max \in Nat, NEW x \in Int, Fits(x, max)
    PROVE  Signed(Unsigned(x, max), max) = x
<1> DEFINE span == 2 * (max + 1)
<1>1. span \in Nat \ {0} /\ span = 2 * max + 2
  OBVIOUS
<1>2. Unsigned(x, max) = x % span
  BY DEF Unsigned
<1>3. \A y : Signed(y, max) = ((y + max + 1) % span) - max - 1
  BY DEF Signed
<1> HIDE DEF span
<1>4. CASE 0 <= x
  <2>1. x < span
    BY <1>1 DEF Fits
  <2>2. x % span = x
    BY <1>1, <1>4, <2>1
  <2> QED
    BY <1>2, <2>2, SignedFits
<1>5. CASE x < 0
  <2>1. 0 <= x + span /\ x + span < span /\ x + span \in Int
    BY <1>1, <1>5 DEF Fits
  <2>2. x % span = x + span
    BY <1>1, <2>1
  <2> DEFINE y == x + span + max + 1
  <2>3. y \in Int /\ span <= y /\ y < 2 * span
    BY <1>1, <2>1, <1>5 DEF Fits
  <2>4. y % span = y - span
    <3> HIDE DEF y
    <3> QED
      BY <1>1, <2>3
  <2> QED
    BY <1>1, <1>2, <1>3, <2>2, <2>4
<1> QED
  BY <1>4, <1>5

\* Seconds come out as the ticks that they are, and so do sums and differences.
LEMMA TicksFit ==
    ASSUME NEW at \in Int, NEW leeway \in Int,
           \A x \in {at, leeway, at + leeway, at - leeway} : Fits(x * Tick, LongMax)
    PROVE  /\ Signed(Ticks(at) + Ticks(leeway), LongMax) = (at + leeway) * Tick
           /\ Signed(Ticks(at) - Ticks(leeway), LongMax) = (at - leeway) * Tick
<1>1. Tick \in Int /\ LongMax \in Nat
  BY JwtAssumption
<1>2. /\ at * Tick \in Int /\ leeway * Tick \in Int
      /\ at * Tick + leeway * Tick = (at + leeway) * Tick
      /\ at * Tick - leeway * Tick = (at - leeway) * Tick
  BY <1>1
<1>3. Ticks(at) = at * Tick /\ Ticks(leeway) = leeway * Tick
  BY <1>1, <1>2, SignedFits DEF Ticks
<1>4. /\ (at + leeway) * Tick \in Int /\ Fits((at + leeway) * Tick, LongMax)
      /\ (at - leeway) * Tick \in Int /\ Fits((at - leeway) * Tick, LongMax)
  BY <1>1
<1>5. /\ Signed((at + leeway) * Tick, LongMax) = (at + leeway) * Tick
      /\ Signed((at - leeway) * Tick, LongMax) = (at - leeway) * Tick
  BY <1>1, <1>4, SignedFits
<1> QED
  BY <1>2, <1>3, <1>5

\* The JSON number reaches verify() as it is written, if it fits an int.
LEMMA LeewayFits ==
    ASSUME NEW number \in Int, Fits(number, IntMax) PROVE LeewaySeconds(number) = number
<1>1. IntMax \in Nat /\ LongMax \in Nat /\ IntMax <= LongMax
  BY JwtAssumption
<1>2. GetInt(number) = number
  BY <1>1, SignedFits DEF GetInt
<1>3. Fits(number, LongMax)
  BY <1>1 DEF Fits
<1> QED
  BY <1>1, <1>2, <1>3, SignedUnsignedFits DEF LeewaySeconds

-----------------------------------------------------------------------------
(* verify_auth() *)

\* Without overflow, the token is accepted in its window.
LEMMA VerifiesWindow ==
    ASSUME NEW t \in Tokens, NEW number \in Leeways, NoOverflow(t, number), now \in Int
    PROVE  VerifyAuth(t, LeewaySeconds(number)) <=> Within(t, number)
<1>1. number \in Int /\ Fits(number, IntMax)
  BY JwtAssumption DEF NoOverflow
<1>2. LeewaySeconds(number) = number
  BY <1>1, LeewayFits
<1>3. t.exp \in ClaimType /\ t.iat \in ClaimType /\ t.nbf \in ClaimType
  BY JwtAssumption DEF TokenType
<1>4. ASSUME NEW claim \in {t.exp, t.iat, t.nbf}, claim # Malformed
      PROVE  claim.is = "date" <=> claim # Absent
  BY <1>3, <1>4 DEF ClaimType, Absent, Malformed
<1>5. ASSUME NEW claim \in {t.exp, t.iat, t.nbf}, claim.is = "date"
      PROVE  /\ Signed(Ticks(claim.at) + Ticks(number), LongMax) = (claim.at + number) * Tick
             /\ Signed(Ticks(claim.at) - Ticks(number), LongMax) = (claim.at - number) * Tick
  <2>1. claim.at \in Int
    BY <1>3, <1>5 DEF ClaimType, Absent, Malformed
  <2>2. \A x \in {claim.at, number, claim.at + number, claim.at - number} : Fits(x * Tick, LongMax)
    BY <1>5 DEF NoOverflow
  <2> QED
    BY <1>1, <2>1, <2>2, TicksFit
<1>6. ASSUME Malformed \notin {t.exp, t.iat, t.nbf}
      PROVE  /\ ~Expired(t, number) <=> (t.exp # Absent => now <= (t.exp.at + number) * Tick)
             /\ ~Early(t.iat, number) <=> (t.iat # Absent => (t.iat.at - number) * Tick <= now)
             /\ ~Early(t.nbf, number) <=> (t.nbf # Absent => (t.nbf.at - number) * Tick <= now)
  <2>1. Tick \in Int
    BY JwtAssumption
  <2>2. ~Expired(t, number) <=> (t.exp # Absent => now <= (t.exp.at + number) * Tick)
    <3>1. CASE t.exp = Absent
      BY <1>4, <1>6, <3>1 DEF Expired
    <3>2. CASE t.exp # Absent
      <4>1. t.exp.is = "date" /\ (t.exp.at + number) * Tick \in Int
        BY <1>1, <1>3, <1>4, <1>6, <2>1, <3>2 DEF ClaimType, Absent, Malformed
      <4> QED
        BY <1>5, <3>2, <4>1 DEF Expired
    <3> QED
      BY <3>1, <3>2
  <2>3. ASSUME NEW claim \in {t.iat, t.nbf}
        PROVE  ~Early(claim, number) <=> (claim # Absent => (claim.at - number) * Tick <= now)
    <3>1. CASE claim = Absent
      BY <1>4, <1>6, <3>1 DEF Early
    <3>2. CASE claim # Absent
      <4>1. claim.is = "date" /\ (claim.at - number) * Tick \in Int
        BY <1>1, <1>3, <1>4, <1>6, <2>1, <3>2 DEF ClaimType, Absent, Malformed
      <4> QED
        BY <1>5, <3>2, <4>1 DEF Early
    <3> QED
      BY <3>1, <3>2
  <2> QED
    BY <2>2, <2>3
<1> QED
  BY <1>2, <1>6 DEF VerifyAuth, Within

\* verify_auth(), by what time does to its conditions
LEMMA VerifyAuthParts ==
    VerifyAuth(token, Leeway) <=> Sound(token) /\ Begun(token) /\ ~Expired(token, Leeway)
BY DEF VerifyAuth, Sound, Begun

-----------------------------------------------------------------------------
(* Steps *)

\* A request: after an acceptance only the end of the token refuses it.
LEMMA PresentInv == ASSUME IInv, Present PROVE IInv'
<1> DEFINE ok == VerifyAuth(token, Leeway)
<1>1. /\ UNCHANGED <<now, configured, token>>
      /\ verdict' = IF ok THEN "accepted" ELSE "AuthError"
      /\ window' = IF ok THEN "during" ELSE IF window = "during" THEN "after" ELSE window
  BY DEF Present, Leeway
<1>2. /\ Leeway' = Leeway /\ ok' = ok /\ Sound(token)' = Sound(token) /\ Begun(token)' = Begun(token)
      /\ Expired(token, Leeway)' = Expired(token, Leeway)
  BY <1>1 DEF Leeway, Sound, Begun, Early, Expired, VerifyAuth
<1>3. ok <=> Sound(token) /\ Begun(token) /\ ~Expired(token, Leeway)
  BY VerifyAuthParts
<1> HIDE DEF ok
<1>4. TypeOK'
  BY <1>1 DEF IInv, TypeOK
<1>5. VerdictCurrent'
  BY <1>1, <1>2 DEF VerdictCurrent, ok
<1>6. WindowKept'
  BY <1>1, <1>2, <1>3 DEF IInv, WindowKept
<1> QED
  BY <1>4, <1>5, <1>6 DEF IInv

\* Conversions give numbers.
LEMMA SignedTyped ==
    ASSUME NEW max \in Nat, NEW x \in Int PROVE Signed(x, max) \in Int /\ Unsigned(x, max) \in Int
<1> DEFINE span == 2 * (max + 1)
<1>1. span \in Nat \ {0}
  OBVIOUS
<1>2. Signed(x, max) = ((x + max + 1) % span) - max - 1 /\ Unsigned(x, max) = x % span
  BY DEF Signed, Unsigned
<1> HIDE DEF span
<1> QED
  BY <1>1, <1>2

\* Both ends of a window are numbers, overflow or not.
LEMMA BoundsTyped ==
    ASSUME NEW claim \in ClaimType, claim.is = "date", NEW number \in Int
    PROVE  LET leeway == LeewaySeconds(number) IN
           /\ Signed(Ticks(claim.at) + Ticks(leeway), LongMax) \in Int
           /\ Signed(Ticks(claim.at) - Ticks(leeway), LongMax) \in Int
<1>1. IntMax \in Nat /\ LongMax \in Nat /\ Tick \in Int /\ claim.at \in Int
  BY JwtAssumption DEF ClaimType, Absent, Malformed
<1>2. LeewaySeconds(number) \in Int
  BY <1>1, SignedTyped DEF LeewaySeconds, GetInt
<1>3. \A n \in Int : Ticks(n) \in Int
  BY <1>1, SignedTyped DEF Ticks
<1> QED
  BY <1>1, <1>2, <1>3, SignedTyped

\* Time passes: what has begun has begun, and what has expired has expired.
LEMMA TockInv == ASSUME IInv, Tock PROVE IInv'
<1>1. /\ UNCHANGED <<configured, token, window>> /\ now' = now + 1 /\ verdict' = "none"
      /\ now < MaxNow /\ now \in 0..MaxNow /\ MaxNow \in Nat /\ configured \in Int
  BY JwtAssumption DEF Tock, IInv, TypeOK
<1>2. \A claim \in {token.exp, token.iat, token.nbf} : claim \in ClaimType
  BY JwtAssumption DEF IInv, TypeOK, TokenType
<1>3. Leeway' = Leeway
  BY <1>1 DEF Leeway
<1>4. ASSUME NEW claim \in {token.iat, token.nbf}, ~Early(claim, Leeway) PROVE ~Early(claim, Leeway)'
  <2>1. CASE claim.is = "date"
    <3>1. Signed(Ticks(claim.at) - Ticks(Leeway), LongMax) \in Int
      BY <1>1, <1>2, <2>1, BoundsTyped DEF Leeway
    <3> QED
      BY <1>1, <1>3, <1>4, <3>1 DEF Early
  <2>2. CASE claim.is # "date"
    BY <1>1, <2>2 DEF Early
  <2> QED
    BY <2>1, <2>2
<1>5. ASSUME Expired(token, Leeway) PROVE Expired(token, Leeway)'
  <2>1. token.exp.is = "date"
    BY <1>5 DEF Expired
  <2>2. Signed(Ticks(token.exp.at) + Ticks(Leeway), LongMax) \in Int
    BY <1>1, <1>2, <2>1, BoundsTyped DEF Leeway
  <2> QED
    BY <1>1, <1>3, <1>5, <2>2 DEF Expired
<1>6. TypeOK'
  BY <1>1 DEF IInv, TypeOK
<1>7. VerdictCurrent'
  BY <1>1 DEF VerdictCurrent
<1>8. Begun(token) => Begun(token)'
  BY <1>1, <1>4 DEF Begun
<1>9. Sound(token)' = Sound(token)
  BY <1>1 DEF Sound
<1>10. WindowKept'
  BY <1>1, <1>5, <1>8, <1>9 DEF IInv, WindowKept
<1> QED
  BY <1>6, <1>7, <1>10 DEF IInv

\* Another leeway is another window.
LEMMA RestartInv == ASSUME IInv, NEW number \in Leeways, Restart(number) PROVE IInv'
BY DEF Restart, IInv, TypeOK, VerdictCurrent, WindowKept

\* Every step keeps the invariant.
LEMMA NextInv == IInv /\ [Next]_vars => IInv'
<1> SUFFICES ASSUME IInv, [Next]_vars PROVE IInv'
  OBVIOUS
<1>1. CASE UNCHANGED vars
  BY <1>1 DEF vars, IInv, TypeOK, VerdictCurrent, WindowKept, Sound, Begun, Leeway, Early, Expired,
     VerifyAuth
<1> QED
  BY <1>1, PresentInv, TockInv, RestartInv DEF Next

\* At first there is no verdict.
LEMMA InitInv == Init => IInv
BY JwtAssumption DEF Init, IInv, TypeOK, VerdictCurrent, WindowKept

-----------------------------------------------------------------------------
(* Theorems *)

\* The verdict is what the clock and the configuration say now, and a token that
\* was accepted has failed at nothing but its end.
THEOREM Invariance == Spec => []IInv
BY InitInv, NextInv, PTL DEF Spec

\* verify_auth() throws nothing but AuthError.
THEOREM TypeCorrect == Spec => []TypeOK
<1>1. IInv => TypeOK
  BY DEF IInv
<1> QED
  BY <1>1, Invariance, PTL

\* The conversions of auth_jwt_leeway_secs and of the token's times accept a token
\* exactly in its window, for all widths of the integers, unless something in it
\* is beyond them.
THEOREM WindowIsExact == Spec => []AcceptsItsWindow
<1>1. IInv => AcceptsItsWindow
  BY VerifiesWindow DEF IInv, TypeOK, VerdictCurrent, Leeway, AcceptsItsWindow
<1> QED
  BY <1>1, Invariance, PTL

\* A token that was refused after it was accepted has expired, and stays so until
\* the next start, even where its times overflow.
THEOREM ExpiredIsExpired == Spec => NoSecondLife
<1>1. IInv /\ [Next]_vars => [window = "after" /\ window' # "before" => verdict' # "accepted"]_vars
  <2> SUFFICES ASSUME IInv, Next, window = "after", window' # "before" PROVE verdict' # "accepted"
    OBVIOUS
  <2>1. CASE Present
    <3>1. ~VerifyAuth(token, Leeway)
      BY VerifyAuthParts DEF IInv, WindowKept
    <3> QED
      BY <2>1, <3>1 DEF Present, Leeway
  <2>2. CASE Tock \/ \E number \in Leeways : Restart(number)
    BY <2>2 DEF Tock, Restart
  <2> QED
    BY <2>1, <2>2 DEF Next
<1> QED
  BY <1>1, Invariance, PTL DEF Spec, NoSecondLife
=============================================================================
