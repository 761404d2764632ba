----------------------------- MODULE CoachSessions -----------------------------
(***************************************************************************)
(* The password and the sessions of one coach: login, forgotPassword and   *)
(* resetPassword (auth/auth.service.ts), revokeSessions and changePassword *)
(* (coaches/coaches.service.ts), the tokens they sign and verify           *)
(* (auth/token.service.ts) and the check of every authenticated request    *)
(* (auth/jwt-auth.guard.ts).                                               *)
(*                                                                         *)
(* The database and `new Date()` have a finer clock than the tokens, whose *)
(* iat is in whole seconds: now counts ticks, Second of them per second.   *)
(* A tick is the time bcrypt takes.                                        *)
(***************************************************************************)
EXTENDS Integers

CONSTANTS
    Calls,          \* the requests of a behaviour; each runs once
    Passwords,
    Second,         \* ticks per second
    AccessTtl,      \* TOKEN_TTL, in seconds
    ResetTtl,       \* PASSWORD_RESET_TTL, in seconds
    WriteDelay,     \* bound on the ticks an UPDATE takes to arrive
    MaxNow          \* bound on the clock

ASSUME ClockAssumption ==
    /\ Second \in Nat \ {0} /\ AccessTtl \in Nat /\ ResetTtl \in Nat
    /\ WriteDelay \in Nat /\ MaxNow \in Nat

VARIABLES
    password,             \* what Coach.passwordHash is the hash of
    sessionsRevokedAt,    \* Coach.sessionsRevokedAt, Never when null
    sessions,             \* access tokens handed out
    links,                \* reset links mailed; a link is known by its iat
    call,                 \* per request: where it is and what it holds
    now

vars == <<password, sessionsRevokedAt, sessions, links, call, now>>

-------------------------------------------------------------------------------

Never == -1

SecondOf(t) == t \div Second

\* issuedAt is when the token was signed, which the token itself does not say.
Sessions == [by : {"login", "reset"}, iat : Nat, issuedAt : 0 .. MaxNow]

NewCall == [op |-> "none"]

\* at: when the request began its bcrypt work, then its new Date().
Started == [op : {"login", "resetPassword", "changePassword", "revokeSessions"},
            pc : {"bcrypt", "write", "done", "refused"},
            link : Nat, password : Passwords, at : 0 .. MaxNow]

\* Every variable keeps its type; no request holds a date beyond the clock's end.
TypeOK ==
    /\ password \in Passwords
    /\ sessionsRevokedAt \in 0 .. MaxNow \cup {Never}
    /\ sessions \in SUBSET Sessions
    /\ links \in SUBSET Nat
    /\ call \in [Calls -> Started \cup {NewCall}]
    /\ now \in 0 .. MaxNow

Init ==
    /\ password \in Passwords
    /\ sessionsRevokedAt = Never
    /\ sessions = {}
    /\ links = {}
    /\ call = [c \in Calls |-> NewCall]
    /\ now = 0

-------------------------------------------------------------------------------
(* Tokens *)

\* Mutant: both sides of the comparison in seconds.
RevokedBySecond(iat) == iat < SecondOf(sessionsRevokedAt)

\* iat * 1000 < sessionsRevokedAt.getTime()
Revoked(iat) == iat * Second < sessionsRevokedAt

\* JwtAuthGuard.canActivate
Accepts(session) == SecondOf(now) < session.iat + AccessTtl /\ ~ Revoked(session.iat)

\* verifyPasswordResetToken and the check that follows it in resetPassword.
LinkAccepted(link) == SecondOf(now) < link + ResetTtl /\ ~ Revoked(link)

\* Mutant: a token signed with the default iat.
ResetIatNow(at) == SecondOf(at)

\* The iat resetPassword pins on its token.
ResetIat(at) == SecondOf(at) + 1

SignSession(kind, iat) == sessions' = sessions \cup {[by |-> kind, iat |-> iat, issuedAt |-> now]}

-------------------------------------------------------------------------------
(* The requests *)

Begin(c, operation, pc, link, given) ==
    /\ call[c] = NewCall
    /\ call' = [call EXCEPT ![c] = [op |-> operation, pc |-> pc, link |-> link,
                                    password |-> given, at |-> now]]

At(c, operation, pc) == call[c] # NewCall /\ call[c].op = operation /\ call[c].pc = pc

\* bcrypt has come to its end.
Hashed(c) == now > call[c].at

\* The row is read and compared with the given password.
Login(c, given) ==
    /\ Begin(c, "login", IF given = password THEN "bcrypt" ELSE "refused", 0, given)
    /\ UNCHANGED <<password, sessionsRevokedAt, sessions, links, now>>

LoginSigns(c) ==
    /\ At(c, "login", "bcrypt") /\ Hashed(c)
    /\ SignSession("login", SecondOf(now))
    /\ call' = [call EXCEPT ![c].pc = "done"]
    /\ UNCHANGED <<password, sessionsRevokedAt, links, now>>

\* The mail of sendReset brings the coach a link.
Mailed(link) == links' = links \cup {link}

\* A link signed twice within a second is the same token.
ForgotPassword ==
    /\ Mailed(SecondOf(now))
    /\ UNCHANGED <<password, sessionsRevokedAt, sessions, call, now>>

\* resetPassword up to its hash.
ResetPassword(c, link, new) ==
    /\ Begin(c, "resetPassword", IF LinkAccepted(link) THEN "bcrypt" ELSE "refused", link, new)
    /\ UNCHANGED <<password, sessionsRevokedAt, sessions, links, now>>

\* Mutant: the reset leaves sessionsRevokedAt alone.
ResetWritesPasswordOnly(c) ==
    /\ At(c, "resetPassword", "write")
    /\ password' = call[c].password
    /\ SignSession("reset", ResetIat(call[c].at))
    /\ call' = [call EXCEPT ![c].pc = "done"]
    /\ UNCHANGED <<sessionsRevokedAt, links, now>>

\* The update of both fields, and the token for the answer.
ResetWrites(c) ==
    /\ At(c, "resetPassword", "write")
    /\ password' = call[c].password
    /\ sessionsRevokedAt' = call[c].at
    /\ SignSession("reset", ResetIat(call[c].at))
    /\ call' = [call EXCEPT ![c].pc = "done"]
    /\ UNCHANGED <<links, now>>

\* The guard reads the coach, whose password is then compared.
ChangePassword(c, session, current, new) ==
    /\ Begin(c, "changePassword",
             IF Accepts(session) /\ current = password THEN "bcrypt" ELSE "refused", 0, new)
    /\ UNCHANGED <<password, sessionsRevokedAt, sessions, links, now>>

ChangeWrites(c) ==
    /\ At(c, "changePassword", "write")
    /\ password' = call[c].password
    /\ call' = [call EXCEPT ![c].pc = "done"]
    /\ UNCHANGED <<sessionsRevokedAt, sessions, links, now>>

\* The hash is there: new Date(), and the update leaves.
Hash(c) ==
    /\ At(c, "resetPassword", "bcrypt") \/ At(c, "changePassword", "bcrypt")
    /\ Hashed(c)
    /\ call' = [call EXCEPT ![c].pc = "write", ![c].at = now]
    /\ UNCHANGED <<password, sessionsRevokedAt, sessions, links, now>>

\* Mutant: the revocation is dated a second ahead, like the token of a reset.
RevokeSessionsAhead(c) ==
    /\ call[c] = NewCall
    /\ call' = [call EXCEPT ![c] = [op |-> "revokeSessions", pc |-> "write", link |-> 0,
                                    password |-> password, at |-> now + Second]]
    /\ UNCHANGED <<password, sessionsRevokedAt, sessions, links, now>>

\* By an admin: new Date(), and the update leaves.
RevokeSessions(c) ==
    /\ Begin(c, "revokeSessions", "write", 0, password)
    /\ UNCHANGED <<password, sessionsRevokedAt, sessions, links, now>>

RevokeWrites(c) ==
    /\ At(c, "revokeSessions", "write")
    /\ sessionsRevokedAt' = call[c].at
    /\ call' = [call EXCEPT ![c].pc = "done"]
    /\ UNCHANGED <<password, sessions, links, now>>

Tick ==
    /\ now < MaxNow
    /\ \A c \in Calls : call[c] # NewCall /\ call[c].pc = "write" =>
                          now < call[c].at + WriteDelay
    /\ now' = now + 1
    /\ UNCHANGED <<password, sessionsRevokedAt, sessions, links, call>>

Next ==
    \/ \E c \in Calls, p \in Passwords :
         \/ Login(c, p)
         \/ \E link \in links : ResetPassword(c, link, p)
         \/ \E s \in sessions, current \in Passwords : ChangePassword(c, s, current, p)
    \/ \E c \in Calls : \/ LoginSigns(c) \/ Hash(c) \/ ResetWrites(c) \/ ChangeWrites(c)
                        \/ RevokeSessions(c) \/ RevokeWrites(c)
    \/ ForgotPassword
    \/ Tick

Spec == Init /\ [][Next]_vars

-------------------------------------------------------------------------------

\* The session resetPassword returns works until it expires or the sessions are
\* revoked again, although it may be checked in the second of the reset.
ResetSessionWorks ==
    \A s \in sessions :
        s.by = "reset" /\ sessionsRevokedAt <= s.issuedAt /\ SecondOf(now) < s.iat + AccessTtl
            => Accepts(s)

\* A session from login that is older than the revocation the coach's row holds
\* is refused, in the second of the revocation too (JwtAuthGuard).
RevokedSessionsEnd ==
    \A s \in sessions : s.by = "login" /\ s.issuedAt < sessionsRevokedAt => ~ Accepts(s)

\* A link that has reset the password does not start another reset, whatever
\* other resets, logins and revocations come in between.
UsedLinkIsDead ==
    \A c \in Calls : At(c, "resetPassword", "done") => ~ LinkAccepted(call[c].link)

-------------------------------------------------------------------------------
(* Why the properties hold *)

\* Every date a request holds or has written was the time at some point, and an
\* update that has left is under way for WriteDelay at most.
DatesInv ==
    /\ sessionsRevokedAt <= now
    /\ \A c \in Calls : call[c] # NewCall =>
         /\ call[c].at <= now
         /\ call[c].pc = "write" => now <= call[c].at + WriteDelay

\* What a token's iat says of the time it was signed at.
TokensInv ==
    /\ \A link \in links : link * Second <= now
    /\ \A s \in sessions : /\ s.by = "login" => s.iat * Second <= s.issuedAt
                           /\ s.by = "reset" => s.issuedAt < s.iat * Second + WriteDelay

\* A reset has a date that is past its link's.
ResetInv ==
    \A c \in Calls : call[c] # NewCall /\ call[c].op = "resetPassword" =>
        /\ call[c].pc = "bcrypt" => call[c].link * Second <= call[c].at
        /\ call[c].pc = "write" => call[c].link * Second < call[c].at

IndInv == TypeOK /\ DatesInv /\ TokensInv /\ ResetInv

\* The revocation that the coach's row holds is past the link of every reset done.
SpentInv == \A c \in Calls : At(c, "resetPassword", "done") => Revoked(call[c].link)

===============================================================================
