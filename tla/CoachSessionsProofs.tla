-------------------------- MODULE CoachSessionsProofs --------------------------
(***************************************************************************)
(* Proofs about CoachSessions, for any number of requests, any clock and   *)
(* any lifetime of the tokens.  IndInv relates the dates and the iats that *)
(* are about to the clock; SpentInv needs updates that arrive in the order *)
(* of their dates.                                                         *)
(***************************************************************************)
EXTENDS CoachSessions, TLAPS

-------------------------------------------------------------------------------
(* Seconds and ticks *)

\* The second a time is in begins at that time or before, and ends after it.
LEMMA SecondBounds ==
  ASSUME NEW t \in Nat
  PROVE  SecondOf(t) \in Nat /\ SecondOf(t) * Second <= t /\ t < (SecondOf(t) + 1) * Second
<1>1. Second \in Nat \ {0}
  BY ClockAssumption
<1>2. SecondOf(t) \in Nat
  BY <1>1 DEF SecondOf
<1>3. SecondOf(t) * Second <= t
  BY <1>1 DEF SecondOf
<1>4. t < (SecondOf(t) + 1) * Second
  BY <1>1 DEF SecondOf
<1>5. QED
  BY <1>2, <1>3, <1>4

-------------------------------------------------------------------------------
(* One request's step *)

\* What IndInv says of one started request, for a clock that shows t.
CallOK(k, t) ==
    /\ k \in Started
    /\ k.at <= t
    /\ k.pc = "write" => t <= k.at + WriteDelay
    /\ k.op = "resetPassword" => /\ k.pc = "bcrypt" => k.link * Second <= k.at
                                 /\ k.pc = "write" => k.link * Second < k.at

\* The invariant says so of every started request.
LEMMA CallsOK ==
  ASSUME IndInv, NEW c \in Calls, call[c] # NewCall
  PROVE  CallOK(call[c], now)
BY DEF IndInv, TypeOK, DatesInv, ResetInv, CallOK

\* A step that changes one request and not the clock keeps the invariant when the
\* request, the date of revocation, the sessions and the links are as it says.
LEMMA CallChange ==
  ASSUME IndInv, NEW c \in Calls, NEW new, CallOK(new, now),
         call' = [call EXCEPT ![c] = new], UNCHANGED now, password' \in Passwords,
         sessionsRevokedAt' \in 0 .. MaxNow \cup {Never}, sessionsRevokedAt' <= now,
         sessions' \in SUBSET Sessions, links' = links, TokensInv'
  PROVE  IndInv'
<1>0. call \in [Calls -> Started \cup {NewCall}] /\ now \in 0 .. MaxNow
  BY DEF IndInv, TypeOK
<1>1. TypeOK'
  BY <1>0 DEF IndInv, TypeOK, CallOK
<1>2. call'[c] = new /\ \A d \in Calls \ {c} : call'[d] = call[d]
  BY <1>0
<1>3. DatesInv'
  BY <1>2 DEF IndInv, DatesInv, CallOK
<1>4. ResetInv'
  BY <1>2 DEF IndInv, ResetInv, CallOK
<1>5. QED
  BY <1>1, <1>3, <1>4 DEF IndInv

\* A new session keeps what TokensInv says when its iat fits.
LEMMA SessionAdded ==
  ASSUME IndInv, NEW kind \in {"login", "reset"}, NEW iat \in Nat, SignSession(kind, iat),
         kind = "login" => iat * Second <= now, kind = "reset" => now < iat * Second + WriteDelay,
         UNCHANGED <<links, now>>
  PROVE  sessions' \in SUBSET Sessions /\ TokensInv'
<1> DEFINE s == [by |-> kind, iat |-> iat, issuedAt |-> now]
<1>1. sessions' = sessions \cup {s} /\ s \in Sessions
  BY DEF SignSession, Sessions, IndInv, TypeOK
<1>2. sessions' \in SUBSET Sessions
  BY <1>1 DEF IndInv, TypeOK
<1>3. \A link \in links' : link * Second <= now'
  BY DEF IndInv, TokensInv
<1>4. ASSUME NEW r \in sessions'
      PROVE  /\ r.by = "login" => r.iat * Second <= r.issuedAt
             /\ r.by = "reset" => r.issuedAt < r.iat * Second + WriteDelay
  <2>1. CASE r = s
    BY <2>1
  <2>2. CASE r \in sessions
    BY <2>2 DEF IndInv, TokensInv
  <2>3. QED
    BY <1>1, <2>1, <2>2
<1>5. QED
  BY <1>2, <1>3, <1>4 DEF TokensInv

\* A request that starts with the time as its date, and nothing else changed.
LEMMA BeginInv ==
  ASSUME IndInv, NEW c \in Calls,
         NEW operation \in {"login", "resetPassword", "changePassword", "revokeSessions"},
         NEW pc \in {"bcrypt", "write", "refused"}, NEW link \in Nat, NEW given \in Passwords,
         operation = "resetPassword" => pc # "write" /\ link * Second <= now,
         Begin(c, operation, pc, link, given),
         UNCHANGED <<password, sessionsRevokedAt, sessions, links, now>>
  PROVE  IndInv'
<1> DEFINE new == [op |-> operation, pc |-> pc, link |-> link, password |-> given, at |-> now]
<1>1. now \in 0 .. MaxNow /\ WriteDelay \in Nat
  BY ClockAssumption DEF IndInv, TypeOK
<1>2. CallOK(new, now)
  BY <1>1 DEF CallOK, Started
<1>3. TokensInv'
  BY DEF IndInv, TokensInv
<1>4. QED
  BY <1>2, <1>3, CallChange DEF Begin, IndInv, TypeOK, DatesInv

-------------------------------------------------------------------------------
(* The inductive invariant *)

\* The state a request is in after a step that only moves it on.
LEMMA Moved ==
  ASSUME IndInv, NEW c \in Calls, call[c] # NewCall, NEW pc \in {"done", "refused"}
  PROVE  /\ CallOK([call[c] EXCEPT !.pc = pc], now)
         /\ [call EXCEPT ![c].pc = pc] = [call EXCEPT ![c] = [call[c] EXCEPT !.pc = pc]]
<1>1. CallOK(call[c], now) /\ call \in [Calls -> Started \cup {NewCall}]
  BY CallsOK DEF IndInv, TypeOK
<1>2. QED
  BY <1>1 DEF CallOK, Started

\* The initial states satisfy the invariant.
LEMMA InitInv == Init => IndInv
BY ClockAssumption DEF Init, IndInv, TypeOK, DatesInv, TokensInv, ResetInv, NewCall, Never

\* Every step of a request keeps the invariant.
LEMMA CallStepInv ==
  ASSUME IndInv, NEW c \in Calls,
         LoginSigns(c) \/ Hash(c) \/ ResetWrites(c) \/ ChangeWrites(c)
           \/ RevokeSessions(c) \/ RevokeWrites(c)
  PROVE  IndInv'
<1>0. /\ now \in 0 .. MaxNow /\ now \in Nat /\ WriteDelay \in Nat /\ Second \in Nat /\ MaxNow \in Nat
      /\ call \in [Calls -> Started \cup {NewCall}]
      /\ password \in Passwords
      /\ sessions \in SUBSET Sessions
      /\ sessionsRevokedAt \in 0 .. MaxNow \cup {Never} /\ sessionsRevokedAt <= now
  BY ClockAssumption DEF IndInv, TypeOK, DatesInv
<1>1. CASE LoginSigns(c)
  <2>1. call[c] # NewCall
    BY <1>1 DEF LoginSigns, At
  <2>2. SecondOf(now) \in Nat /\ SecondOf(now) * Second <= now
    BY <1>0, SecondBounds
  <2>3. sessions' \in SUBSET Sessions /\ TokensInv'
    BY <1>1, <2>2, SessionAdded DEF LoginSigns
  <2>4. QED
    BY <1>0, <1>1, <2>1, <2>3, Moved, CallChange DEF LoginSigns
<1>2. CASE Hash(c)
  <2> DEFINE new == [call[c] EXCEPT !.pc = "write", !.at = now]
  <2>1. call[c] # NewCall /\ call[c].pc = "bcrypt" /\ now > call[c].at
    BY <1>2 DEF Hash, At, Hashed
  <2>2. CallOK(call[c], now)
    BY <2>1, CallsOK
  <2>3. CallOK(new, now)
    <3> DEFINE begin == call[c].link * Second
    <3>1. new \in Started /\ new.op = call[c].op /\ new.link = call[c].link /\ new.at = now
      BY <1>0, <2>2 DEF CallOK, Started
    <3>2. begin \in Int /\ call[c].at \in Int /\ (call[c].op = "resetPassword" => begin <= call[c].at)
      BY <1>0, <2>1, <2>2 DEF CallOK, Started
    <3> HIDE DEF begin
    <3>3. call[c].op = "resetPassword" => begin < now
      BY <1>0, <2>1, <3>2
    <3>4. new.op = "resetPassword" => new.link * Second <= new.at /\ new.link * Second < new.at
      BY <3>1, <3>2, <3>3, <1>0 DEF begin
    <3> HIDE DEF new
    <3>5. QED
      BY <1>0, <3>1, <3>4 DEF CallOK
  <2>4. call' = [call EXCEPT ![c] = new]
    BY <1>0, <1>2 DEF Hash
  <2>5. TokensInv'
    BY <1>2 DEF Hash, IndInv, TokensInv
  <2>6. QED
    BY <1>0, <1>2, <2>3, <2>4, <2>5, CallChange DEF Hash
<1>3. CASE ResetWrites(c)
  <2>1. call[c] # NewCall /\ call[c].pc = "write"
    BY <1>3 DEF ResetWrites, At
  <2>2. CallOK(call[c], now)
    BY <2>1, CallsOK
  <2> DEFINE at == call[c].at
  <2>3. at \in 0 .. MaxNow /\ at \in Nat /\ at <= now /\ now <= at + WriteDelay /\ call[c].password \in Passwords
    BY <1>0, <2>1, <2>2 DEF CallOK, Started
  <2>4. ResetIat(at) \in Nat /\ at < ResetIat(at) * Second
    BY <2>3, SecondBounds DEF ResetIat
  <2>5. now < ResetIat(at) * Second + WriteDelay
    <3> DEFINE end == ResetIat(at) * Second
    <3>1. end \in Nat /\ at < end
      BY <1>0, <2>4
    <3> HIDE DEF end
    <3>2. now < end + WriteDelay
      BY <1>0, <2>3, <3>1
    <3>3. QED
      BY <3>2 DEF end
  <2>6. sessions' \in SUBSET Sessions /\ TokensInv'
    BY <1>3, <2>4, <2>5, SessionAdded DEF ResetWrites
  <2>7. QED
    BY <1>0, <1>3, <2>1, <2>3, <2>6, Moved, CallChange DEF ResetWrites
<1>4. CASE ChangeWrites(c)
  <2>1. call[c] # NewCall
    BY <1>4 DEF ChangeWrites, At
  <2>2. call[c].password \in Passwords
    BY <2>1, CallsOK DEF CallOK, Started
  <2>3. TokensInv'
    BY <1>4 DEF ChangeWrites, IndInv, TokensInv
  <2>4. QED
    BY <1>0, <1>4, <2>1, <2>2, <2>3, Moved, CallChange DEF ChangeWrites
<1>5. CASE RevokeSessions(c)
  BY <1>0, <1>5, BeginInv DEF RevokeSessions
<1>6. CASE RevokeWrites(c)
  <2>1. call[c] # NewCall
    BY <1>6 DEF RevokeWrites, At
  <2>2. call[c].at \in 0 .. MaxNow /\ call[c].at <= now
    BY <2>1, CallsOK DEF CallOK, Started
  <2>3. TokensInv'
    BY <1>6 DEF RevokeWrites, IndInv, TokensInv
  <2>4. QED
    BY <1>0, <1>6, <2>1, <2>2, <2>3, Moved, CallChange DEF RevokeWrites
<1>7. QED
  BY <1>1, <1>2, <1>3, <1>4, <1>5, <1>6

\* The passing of time keeps it: no update is under way for longer than it may be.
LEMMA TickInv ==
  ASSUME IndInv, Tick
  PROVE  IndInv'
<1>0. now \in 0 .. MaxNow /\ MaxNow \in Nat /\ now' = now + 1 /\ now' \in 0 .. MaxNow
      /\ WriteDelay \in Nat /\ Second \in Nat
  BY ClockAssumption DEF IndInv, TypeOK, Tick
<1>1. TypeOK'
  BY <1>0 DEF IndInv, TypeOK, Tick
<1>2. DatesInv'
  <2>1. sessionsRevokedAt' <= now'
    BY <1>0 DEF IndInv, DatesInv, TypeOK, Tick, Never
  <2>2. ASSUME NEW c \in Calls, call[c] # NewCall
        PROVE  call[c].at <= now' /\ (call[c].pc = "write" => now' <= call[c].at + WriteDelay)
    <3>1. CallOK(call[c], now) /\ call[c].at \in 0 .. MaxNow
      BY <2>2, CallsOK DEF CallOK, Started
    <3>2. QED
      BY <1>0, <2>2, <3>1 DEF CallOK, Tick
  <2>3. QED
    BY <2>1, <2>2 DEF DatesInv, Tick
<1>3. TokensInv'
  <2>1. ASSUME NEW link \in links PROVE link * Second <= now'
    <3> DEFINE begin == link * Second
    <3>1. begin \in Nat /\ begin <= now
      BY <1>0 DEF IndInv, TypeOK, TokensInv
    <3> HIDE DEF begin
    <3>2. begin <= now'
      BY <1>0, <3>1
    <3>3. QED
      BY <3>2 DEF begin
  <2>2. QED
    BY <2>1 DEF IndInv, TokensInv, Tick
<1>4. ResetInv'
  BY DEF IndInv, ResetInv, Tick
<1>5. QED
  BY <1>1, <1>2, <1>3, <1>4 DEF IndInv

\* Every step keeps the invariant.
LEMMA NextInv == IndInv /\ [Next]_vars => IndInv'
<1> SUFFICES ASSUME IndInv, [Next]_vars PROVE IndInv'
  OBVIOUS
<1>0. password \in Passwords /\ now \in Nat /\ links \in SUBSET Nat
  BY ClockAssumption DEF IndInv, TypeOK
<1>1. ASSUME NEW c \in Calls, NEW p \in Passwords, Login(c, p) PROVE IndInv'
  <2> DEFINE pc == IF p = password THEN "bcrypt" ELSE "refused"
  <2>1. Begin(c, "login", pc, 0, p) /\ pc \in {"bcrypt", "write", "refused"}
    BY <1>1 DEF Login
  <2> HIDE DEF pc
  <2>2. QED
    BY <1>1, <2>1, BeginInv DEF Login
<1>2. ASSUME NEW c \in Calls, NEW p \in Passwords, NEW link \in links, ResetPassword(c, link, p)
      PROVE  IndInv'
  <2> DEFINE pc == IF LinkAccepted(link) THEN "bcrypt" ELSE "refused"
  <2>1. Begin(c, "resetPassword", pc, link, p) /\ pc \in {"bcrypt", "write", "refused"} /\ pc # "write"
    BY <1>2 DEF ResetPassword
  <2>2. link \in Nat /\ link * Second <= now
    BY <1>0 DEF IndInv, TokensInv
  <2> HIDE DEF pc
  <2>3. QED
    BY <1>2, <2>1, <2>2, BeginInv DEF ResetPassword
<1>3. ASSUME NEW c \in Calls, NEW p \in Passwords, NEW s \in sessions, NEW current \in Passwords,
             ChangePassword(c, s, current, p)
      PROVE  IndInv'
  <2> DEFINE pc == IF Accepts(s) /\ current = password THEN "bcrypt" ELSE "refused"
  <2>1. Begin(c, "changePassword", pc, 0, p) /\ pc \in {"bcrypt", "write", "refused"}
    BY <1>3 DEF ChangePassword
  <2> HIDE DEF pc
  <2>2. QED
    BY <1>3, <2>1, BeginInv DEF ChangePassword
<1>4. CASE ForgotPassword
  <2>1. links' = links \cup {SecondOf(now)} /\ SecondOf(now) \in Nat /\ SecondOf(now) * Second <= now
    BY <1>0, <1>4, SecondBounds DEF ForgotPassword, Mailed
  <2>2. TypeOK'
    BY <1>4, <2>1 DEF ForgotPassword, IndInv, TypeOK
  <2>3. TokensInv'
    BY <1>4, <2>1 DEF ForgotPassword, IndInv, TokensInv
  <2>4. QED
    BY <1>4, <2>2, <2>3 DEF ForgotPassword, IndInv, DatesInv, ResetInv
<1>5. CASE UNCHANGED vars
  BY <1>5 DEF vars, IndInv, TypeOK, DatesInv, TokensInv, ResetInv
<1>6. QED
  BY <1>1, <1>2, <1>3, <1>4, <1>5, CallStepInv, TickInv DEF Next

\* The invariant of every behaviour.
LEMMA Invariance == Spec => []IndInv
BY InitInv, NextInv, PTL DEF Spec

-------------------------------------------------------------------------------
(* The properties *)

\* Every variable keeps its type, and no date is beyond the end of the clock
\* (CoachesService and AuthService).
THEOREM TypeCorrect == Spec => []TypeOK
<1>1. IndInv => TypeOK
  BY DEF IndInv
<1>2. QED
  BY <1>1, Invariance, PTL

\* A session that login handed out before the date in the coach's row is refused
\* (JwtAuthGuard), however long the update took to arrive.
THEOREM RevocationEndsSessions == Spec => []RevokedSessionsEnd
<1>1. ASSUME IndInv PROVE RevokedSessionsEnd
  <2> SUFFICES ASSUME NEW s \in sessions, s.by = "login", s.issuedAt < sessionsRevokedAt
               PROVE  Revoked(s.iat)
    BY DEF RevokedSessionsEnd, Accepts
  <2> DEFINE begin == s.iat * Second
  <2>1. begin \in Nat /\ s.issuedAt \in Nat /\ sessionsRevokedAt \in Int /\ begin <= s.issuedAt
    BY <1>1, ClockAssumption DEF IndInv, TypeOK, Sessions, TokensInv, Never
  <2> HIDE DEF begin
  <2>2. begin < sessionsRevokedAt
    BY <2>1
  <2>3. QED
    BY <2>2 DEF begin, Revoked
<1>2. QED
  BY <1>1, Invariance, PTL

\* The session of a reset is good although its own reset revokes the sessions, as
\* long as its update arrives within a tick (AuthService.resetPassword).
THEOREM ResetSessionIsGood ==
  ASSUME WriteDelay <= 1
  PROVE  Spec => []ResetSessionWorks
<1>1. ASSUME IndInv PROVE ResetSessionWorks
  <2> SUFFICES ASSUME NEW s \in sessions, s.by = "reset", sessionsRevokedAt <= s.issuedAt
               PROVE  ~ Revoked(s.iat)
    BY DEF ResetSessionWorks, Accepts
  <2> DEFINE begin == s.iat * Second
  <2>1. /\ begin \in Nat /\ s.issuedAt \in Nat /\ sessionsRevokedAt \in Int /\ WriteDelay \in Nat
        /\ s.issuedAt < begin + WriteDelay
    BY <1>1, ClockAssumption DEF IndInv, TypeOK, Sessions, TokensInv, Never
  <2> HIDE DEF begin
  <2>2. ~ (begin < sessionsRevokedAt)
    BY <2>1
  <2>3. QED
    BY <2>2 DEF begin, Revoked
<1>2. QED
  BY <1>1, Invariance, PTL

\* With updates that arrive at once the date in the coach's row never goes back.
LEMMA RevocationGrows ==
  ASSUME IndInv, [Next]_vars, WriteDelay = 0
  PROVE  sessionsRevokedAt <= sessionsRevokedAt'
<1>0. sessionsRevokedAt \in Int /\ sessionsRevokedAt <= now /\ now \in Int
  BY ClockAssumption DEF IndInv, TypeOK, DatesInv, Never
<1>1. ASSUME NEW c \in Calls, call[c] # NewCall, call[c].pc = "write", sessionsRevokedAt' = call[c].at
      PROVE  sessionsRevokedAt <= sessionsRevokedAt'
  <2>1. CallOK(call[c], now) /\ call[c].at \in Int
    BY <1>1, CallsOK, ClockAssumption DEF CallOK, Started
  <2>2. QED
    BY <1>0, <1>1, <2>1 DEF CallOK
<1>2. CASE UNCHANGED sessionsRevokedAt
  BY <1>0, <1>2
<1>3. \/ UNCHANGED sessionsRevokedAt
      \/ \E c \in Calls : call[c] # NewCall /\ call[c].pc = "write" /\ sessionsRevokedAt' = call[c].at
  BY DEF Next, vars, Login, ResetPassword, ChangePassword, LoginSigns, Hash, ResetWrites,
         ChangeWrites, RevokeSessions, RevokeWrites, ForgotPassword, Tick, At
<1>4. QED
  BY <1>1, <1>2, <1>3

\* A request that is done stays as it is, and a reset gets done by its own write.
LEMMA SpentStep ==
  ASSUME IndInv, [Next]_vars, NEW c \in Calls, At(c, "resetPassword", "done")'
  PROVE  \/ At(c, "resetPassword", "done") /\ UNCHANGED call[c]
         \/ ResetWrites(c) /\ call'[c].link = call[c].link
<1>0. call \in [Calls -> Started \cup {NewCall}]
  BY DEF IndInv, TypeOK
<1>1. ASSUME NEW d \in Calls, NEW operation, NEW pc \in {"bcrypt", "write", "refused"}, NEW link, NEW given,
             Begin(d, operation, pc, link, given)
      PROVE  At(c, "resetPassword", "done") /\ UNCHANGED call[c]
  <2>1. d # c
    BY <1>0, <1>1 DEF Begin, At
  <2>2. QED
    BY <1>0, <1>1, <2>1 DEF Begin, At
<1>2. ASSUME NEW d \in Calls, LoginSigns(d) \/ Hash(d) \/ ChangeWrites(d) \/ RevokeWrites(d)
      PROVE  At(c, "resetPassword", "done") /\ UNCHANGED call[c]
  <2>1. d # c
    BY <1>0, <1>2 DEF LoginSigns, Hash, ChangeWrites, RevokeWrites, At, Started
  <2>2. call'[c] = call[c]
    BY <1>0, <1>2, <2>1 DEF LoginSigns, Hash, ChangeWrites, RevokeWrites
  <2>3. QED
    BY <2>2 DEF At
<1>3. ASSUME NEW d \in Calls, ResetWrites(d)
      PROVE  \/ At(c, "resetPassword", "done") /\ UNCHANGED call[c]
             \/ ResetWrites(c) /\ call'[c].link = call[c].link
  <2>1. CASE d = c
    BY <1>0, <1>3, <2>1 DEF ResetWrites, At, Started
  <2>2. CASE d # c
    BY <1>0, <1>3, <2>2 DEF ResetWrites, At
  <2>3. QED
    BY <2>1, <2>2
<1>4. CASE UNCHANGED call
  BY <1>4 DEF At
<1>5. \A d \in Calls, p \in Passwords : Login(d, p) => At(c, "resetPassword", "done") /\ UNCHANGED call[c]
  BY <1>1 DEF Login
<1>6. \A d \in Calls, p \in Passwords : \A link : ResetPassword(d, link, p) =>
        At(c, "resetPassword", "done") /\ UNCHANGED call[c]
  BY <1>1 DEF ResetPassword
<1>7. \A d \in Calls : \A p, s, q : ChangePassword(d, s, q, p) =>
        At(c, "resetPassword", "done") /\ UNCHANGED call[c]
  BY <1>1 DEF ChangePassword
<1>8. \A d \in Calls : RevokeSessions(d) => At(c, "resetPassword", "done") /\ UNCHANGED call[c]
  BY <1>1 DEF RevokeSessions
<1>9. QED
  BY <1>2, <1>3, <1>4, <1>5, <1>6, <1>7, <1>8 DEF Next, vars, ForgotPassword, Tick

\* A link that has reset the password is refused from then on, as long as updates
\* arrive in the tick they are dated in (AuthService.resetPassword): the dates of
\* the coach's row only grow, and that of a reset is past its link's.
THEOREM LinksAreSingleUse ==
  ASSUME WriteDelay = 0
  PROVE  Spec => []UsedLinkIsDead
<1>1. Init => SpentInv
  BY DEF Init, SpentInv, At
<1>2. ASSUME IndInv, SpentInv, [Next]_vars PROVE SpentInv'
  <2> SUFFICES ASSUME NEW c \in Calls, At(c, "resetPassword", "done")'
               PROVE  call'[c].link * Second < sessionsRevokedAt'
    BY DEF SpentInv, Revoked
  <2>1. CASE At(c, "resetPassword", "done") /\ UNCHANGED call[c]
    <3> DEFINE begin == call[c].link * Second
    <3>1. begin < sessionsRevokedAt
      BY <1>2, <2>1 DEF SpentInv, Revoked
    <3>2. begin \in Int /\ sessionsRevokedAt \in Int /\ sessionsRevokedAt' \in Int
      BY <1>2, <2>1, CallsOK, NextInv, ClockAssumption
         DEF IndInv, TypeOK, CallOK, Started, Never, At
    <3> HIDE DEF begin
    <3>3. begin < sessionsRevokedAt'
      BY <1>2, <3>1, <3>2, RevocationGrows
    <3>4. QED
      BY <2>1, <3>3 DEF begin
  <2>2. CASE ResetWrites(c) /\ call'[c].link = call[c].link
    BY <1>2, <2>2, CallsOK DEF CallOK, ResetWrites, At
  <2>3. QED
    BY <1>2, <2>1, <2>2, SpentStep
<1>3. SpentInv => UsedLinkIsDead
  BY DEF SpentInv, UsedLinkIsDead, LinkAccepted
<1>4. QED
  BY <1>1, <1>2, <1>3, Invariance, PTL DEF Spec

===============================================================================
