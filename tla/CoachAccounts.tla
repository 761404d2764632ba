----------------------------- MODULE CoachAccounts -----------------------------
(***************************************************************************)
(* How a coach gets an account and a site (coaches/coaches.service.ts):    *)
(* invite mails a signed token and stores nothing, acceptInvite creates    *)
(* the Coach row from it, setFrontendUrl assigns a site afterwards.  Every *)
(* check is a query of its own before the write, so only the @unique       *)
(* columns of Coach stand between two requests.                            *)
(***************************************************************************)
CONSTANTS
    Emails,
    Sites,           \* origins a site may have
    Requests,        \* the calls of a behaviour; a coach is named after the one that created her
    Admin,           \* the account from before the invite flow
    AdminEmail,
    NoSite,          \* frontendUrl is null
    Nobody,          \* no coach
    Removable        \* the origins the admin may remove

ASSUME NamesAssumption ==
    /\ Admin \notin Requests /\ AdminEmail \in Emails
    /\ Nobody \notin Emails \cup Requests \cup {Admin} /\ NoSite \notin Sites

VARIABLES
    coaches,         \* the Coach table
    allowed,         \* the AllowedOrigin table
    mails,           \* delivered invitations whose token has not expired
    request          \* per request: where it is and what it holds

vars == <<coaches, allowed, mails, request>>

-------------------------------------------------------------------------------

Ids == Requests \cup {Admin}

\* The payload of an invite token; the name is left out.
Invites == [email : Emails, frontendUrl : Sites]

Rows == [email : Emails, frontendUrl : Sites \cup {NoSite}]

NoCoach == [email |-> Nobody]

Exists(i) == coaches[i] # NoCoach

Holds(i, column, value) == Exists(i) /\ coaches[i][column] = value

\* findUnique on a column of Coach.
Find(column, value) ==
    IF \E i \in Ids : Holds(i, column, value)
    THEN CHOOSE i \in Ids : Holds(i, column, value)
    ELSE Nobody

NewRequest == [op |-> "none", pc |-> "new", email |-> Nobody, frontendUrl |-> NoSite,
               coach |-> Nobody]

Init ==
    /\ coaches = [i \in Ids |-> IF i = Admin THEN [email |-> AdminEmail, frontendUrl |-> NoSite]
                                ELSE NoCoach]
    /\ allowed = {}
    /\ mails = {}
    /\ request = [r \in Requests |-> NewRequest]

At(r, op, pc) == request[r].op = op /\ request[r].pc = pc

\* Answered with an error, 404, 409 or 500: what was asked matters no more.
Refused == [NewRequest EXCEPT !.pc = "error"]

Placed(call, pc) == IF pc = "error" THEN Refused ELSE [call EXCEPT !.pc = pc]

\* The request goes on at pc, or is answered there.
Goto(r, pc) == request' = [request EXCEPT ![r] = Placed(request[r], pc)]

-------------------------------------------------------------------------------
(* invite *)

\* coach.findUnique by email.
Invite(r, invite) ==
    /\ request[r] = NewRequest
    /\ request' = [request EXCEPT ![r] =
         Placed([NewRequest EXCEPT !.op = "invite", !.email = invite.email,
                   !.frontendUrl = invite.frontendUrl],
                IF Find("email", invite.email) = Nobody THEN "origin" ELSE "error")]
    /\ UNCHANGED <<coaches, allowed, mails>>

\* Mutant: the origin that is typed in is not looked up.
OriginAnswerUnchecked(site, next) == next

\* allowedOrigin.findUnique, of invite and of setFrontendUrl.
OriginAnswer(site, next) == IF site \in allowed THEN next ELSE "error"

InviteOrigin(r) ==
    /\ At(r, "invite", "origin")
    /\ Goto(r, OriginAnswer(request[r].frontendUrl, "site"))
    /\ UNCHANGED <<coaches, allowed, mails>>

InviteSite(r) ==
    /\ At(r, "invite", "site")
    /\ Goto(r, IF Find("frontendUrl", request[r].frontendUrl) = Nobody THEN "mail" ELSE "error")
    /\ UNCHANGED <<coaches, allowed, mails>>

\* The mail of sendInvite brings the address a token for the site.
Delivered(invite) == mails' = mails \cup {invite}

\* signCoachInviteToken and sendInvite; a provider that fails after it has
\* delivered the mail makes the request fail too.
SendInvite(r) ==
    /\ At(r, "invite", "mail")
    /\ \/ /\ Delivered([email |-> request[r].email, frontendUrl |-> request[r].frontendUrl])
          /\ \E answer \in {"ok", "error"} : Goto(r, answer)
       \/ UNCHANGED mails /\ Goto(r, "error")
    /\ UNCHANGED <<coaches, allowed>>

\* COACH_INVITE_TTL has passed.
ExpireInvite(invite) ==
    /\ invite \in mails
    /\ mails' = mails \ {invite}
    /\ UNCHANGED <<coaches, allowed, request>>

-------------------------------------------------------------------------------
(* acceptInvite *)

\* verifyCoachInviteToken; only the holder of a mail has a token that is signed.
Verified(invite) == invite \in mails

\* coach.findUnique by email; the password is hashed before the insert.
AcceptInvite(r, invite) ==
    /\ request[r] = NewRequest
    /\ Verified(invite)
    /\ request' = [request EXCEPT ![r] =
         Placed([NewRequest EXCEPT !.op = "accept", !.email = invite.email,
                   !.frontendUrl = invite.frontendUrl],
                IF Find("email", invite.email) = Nobody THEN "create" ELSE "error")]
    /\ UNCHANGED <<coaches, allowed, mails>>

\* Mutant: Coach.frontendUrl without @unique.
UniqueEmailOnly(i, email, site) == Find("email", email) \in {Nobody, i}

\* Mutant: Coach.email without @unique.
UniqueSiteOnly(i, email, site) == site = NoSite \/ Find("frontendUrl", site) \in {Nobody, i}

\* The @unique columns let row i have this email and this site.
Unique(i, email, site) ==
    /\ Find("email", email) \in {Nobody, i}
    /\ site = NoSite \/ Find("frontendUrl", site) \in {Nobody, i}

\* The insert; a violated constraint is a 409 (PrismaExceptionFilter).
CreateCoach(r) ==
    /\ At(r, "accept", "create")
    /\ IF Unique(r, request[r].email, request[r].frontendUrl)
       THEN /\ coaches' = [coaches EXCEPT ![r] = [email |-> request[r].email,
                                                 frontendUrl |-> request[r].frontendUrl]]
            /\ Goto(r, "ok")
       ELSE UNCHANGED coaches /\ Goto(r, "error")
    /\ UNCHANGED <<allowed, mails>>

-------------------------------------------------------------------------------
(* setFrontendUrl *)

SetFrontendUrl(r, coach, site) ==
    /\ request[r] = NewRequest
    /\ request' = [request EXCEPT ![r] =
         Placed([NewRequest EXCEPT !.op = "setUrl", !.coach = coach, !.frontendUrl = site],
                OriginAnswer(site, "site"))]
    /\ UNCHANGED <<coaches, allowed, mails>>

SetUrlSite(r) ==
    /\ At(r, "setUrl", "site")
    /\ Goto(r, IF Find("frontendUrl", request[r].frontendUrl) \in {Nobody, request[r].coach}
               THEN "update" ELSE "error")
    /\ UNCHANGED <<coaches, allowed, mails>>

\* The update of an id that is not there is a raw Prisma error.
UpdateCoach(r) ==
    LET i == request[r].coach
    IN /\ At(r, "setUrl", "update")
       /\ IF ~ Exists(i)
          THEN UNCHANGED coaches /\ Goto(r, "error")
          ELSE IF Unique(i, coaches[i].email, request[r].frontendUrl)
          THEN /\ coaches' = [coaches EXCEPT ![i].frontendUrl = request[r].frontendUrl]
               /\ Goto(r, "ok")
          ELSE UNCHANGED coaches /\ Goto(r, "error")
       /\ UNCHANGED <<allowed, mails>>

-------------------------------------------------------------------------------
(* The writes of AllowedOriginsService *)

AddOrigin(site) ==
    /\ site \notin allowed
    /\ allowed' = allowed \cup {site}
    /\ UNCHANGED <<coaches, mails, request>>

RemoveOrigin(site) ==
    /\ site \in allowed \cap Removable
    /\ allowed' = allowed \ {site}
    /\ UNCHANGED <<coaches, mails, request>>

-------------------------------------------------------------------------------

StartRequest(r) ==
    \/ \E invite \in Invites : Invite(r, invite) \/ AcceptInvite(r, invite)
    \/ \E coach \in Ids, site \in Sites : SetFrontendUrl(r, coach, site)

RequestStep(r) ==
    \/ InviteOrigin(r) \/ InviteSite(r) \/ SendInvite(r)
    \/ CreateCoach(r)
    \/ SetUrlSite(r) \/ UpdateCoach(r)

Next ==
    \/ \E r \in Requests : StartRequest(r) \/ RequestStep(r)
    \/ \E invite \in mails : ExpireInvite(invite)
    \/ \E site \in Sites : AddOrigin(site) \/ RemoveOrigin(site)

Spec == Init /\ [][Next]_vars

-------------------------------------------------------------------------------

\* Two coaches never share a site, however many invitations to it are out and
\* whatever is assigned meanwhile (Coach.frontendUrl).
OneCoachPerSite ==
    \A i, j \in Ids :
        /\ Exists(i) /\ Exists(j) /\ i # j
        /\ coaches[i].frontendUrl # NoSite
        => coaches[i].frontendUrl # coaches[j].frontendUrl

\* The invitations to one address, to one site or to several, are redeemed once
\* between them, also by calls that passed the check of acceptInvite together.
InviteRedeemedOnce ==
    \A q, r \in Requests :
        At(q, "accept", "ok") /\ At(r, "accept", "ok") /\ q # r =>
            request[q].email # request[r].email

Places == {"new", "origin", "site", "mail", "create", "update",
           "ok", "error"}

Calls == [op : {"none", "invite", "accept", "setUrl"}, pc : Places,
          email : Emails \cup {Nobody}, frontendUrl : Sites \cup {NoSite},
          coach : Ids \cup {Nobody}]

\* Why: no two rows have one email, and a row is there exactly when the request it
\* is named after has created it, with the email of the invitation; a request that
\* handles an invitation holds one, one that moves a coach holds her id and the site.
TypeOK ==
    /\ coaches \in [Ids -> Rows \cup {NoCoach}]
    /\ request \in [Requests -> Calls]
    /\ mails \subseteq Invites

OneAccountPerEmail ==
    \A i, j \in Ids : Exists(i) /\ Exists(j) /\ i # j => coaches[i].email # coaches[j].email

OwnRow ==
    \A r \in Requests :
        /\ Exists(r) <=> At(r, "accept", "ok")
        /\ Exists(r) => coaches[r].email = request[r].email
        /\ request[r].op \in {"invite", "accept"} =>
             request[r].email \in Emails /\ request[r].frontendUrl \in Sites
        /\ request[r].op = "setUrl" => request[r].coach \in Ids /\ request[r].frontendUrl \in Sites

IndInv == TypeOK /\ OneCoachPerSite /\ OneAccountPerEmail /\ OwnRow

\* A coach's site is an allowed origin, however late the mailed token is redeemed,
\* unless the admin has removed the origin (invite, setFrontendUrl; nothing is
\* looked up again in acceptInvite).
SitesAreKnown ==
    \A i \in Ids : Exists(i) => coaches[i].frontendUrl \in allowed \cup Removable \cup {NoSite}

\* Why: what was ever allowed stays known, and a site is known wherever it is past
\* the look-up: in the calls that go on after it, in the mails, in the tokens that
\* are being redeemed.
Known == allowed \cup Removable

PastLookUp(r) ==
    \/ At(r, "accept", "create")
    \/ request[r].op \in {"invite", "setUrl"} /\ request[r].pc \in {"site", "mail", "update"}

SitesInv ==
    /\ SitesAreKnown
    /\ \A invite \in mails : invite.frontendUrl \in Known
    /\ \A r \in Requests : PastLookUp(r) => request[r].frontendUrl \in Known

\* The register that the rows amount to: who is found by an email, and by a site.
accountOf == [e \in Emails |-> Find("email", e)]
ownerOf == [s \in Sites |-> Find("frontendUrl", s)]

Registry == INSTANCE SiteRegistry
    WITH First <- Admin, FirstEmail <- AdminEmail,
         account <- accountOf, owner <- ownerOf, known <- Known \cap Sites

\* The queries and writes of invite, acceptInvite and setFrontendUrl amount to a
\* register: of a request's steps one enters her, or moves her, and no other shows;
\* an account keeps its email, and a site comes free only when its coach moves.
ImplementsRegistry == Registry!Spec

===============================================================================
