-------------------------- MODULE CoachAccountsProofs --------------------------
(* One coach per site, one account per invited address, and no site that was *)
(* never allowed, for any number of requests, addresses and sites.           *)
EXTENDS CoachAccounts, TLAPS

(***************************************************************************)
(* findUnique: a value that some coach holds is found with a holder, and   *)
(* so what the unique columns let row i take is held by nobody else.       *)
(***************************************************************************)
LEMMA FindHolder ==
  ASSUME NEW column, NEW value, NEW i \in Ids, Holds(i, column, value)
  PROVE  /\ Find(column, value) \in Ids
         /\ Holds(Find(column, value), column, value)
BY Zenon DEF Find

LEMMA NobodyIsNoId == Nobody \notin Ids
BY NamesAssumption DEF Ids

\* Coach.email: the email row i may have is not another coach's.
LEMMA UniqueEmail ==
  ASSUME TypeOK, OneAccountPerEmail,
         NEW i \in Ids, NEW email, NEW site, Unique(i, email, site),
         NEW j \in Ids, j # i, Exists(j)
  PROVE  coaches[j].email # email
<1> SUFFICES ASSUME coaches[j].email = email PROVE FALSE
  OBVIOUS
<1> DEFINE k == Find("email", email)
<1>1. Holds(j, "email", email)
  BY DEF Holds
<1>2. k \in Ids /\ Holds(k, "email", email)
  BY <1>1, FindHolder
<1>3. k = i
  BY <1>2, NobodyIsNoId DEF Unique
<1>4. Exists(i) /\ coaches[i].email = email
  BY <1>2, <1>3 DEF Holds
<1> QED
  BY <1>4 DEF OneAccountPerEmail

\* Coach.frontendUrl: the site row i may have is not another coach's.
LEMMA UniqueSite ==
  ASSUME TypeOK, OneCoachPerSite,
         NEW i \in Ids, NEW email, NEW site, site # NoSite, Unique(i, email, site),
         NEW j \in Ids, j # i, Exists(j)
  PROVE  coaches[j].frontendUrl # site
<1> SUFFICES ASSUME coaches[j].frontendUrl = site PROVE FALSE
  OBVIOUS
<1> DEFINE k == Find("frontendUrl", site)
<1>1. Holds(j, "frontendUrl", site)
  BY DEF Holds
<1>2. k \in Ids /\ Holds(k, "frontendUrl", site)
  BY <1>1, FindHolder
<1>3. k = i
  BY <1>2, NobodyIsNoId DEF Unique
<1>4. Exists(i) /\ coaches[i].frontendUrl = site
  BY <1>2, <1>3 DEF Holds
<1> QED
  BY <1>4 DEF OneCoachPerSite

\* A row that is there has an email and a site; one that is not has the email Nobody.
LEMMA RowShape ==
  ASSUME TypeOK, NEW i \in Ids
  PROVE  /\ Exists(i) <=> coaches[i].email # Nobody
         /\ Exists(i) => coaches[i] \in Rows
BY NamesAssumption DEF TypeOK, Exists, NoCoach, Rows

\* A call that goes on at pc keeps what it holds; one that is refused holds nothing.
LEMMA PlacedShape ==
  ASSUME NEW call \in Calls, NEW pc \in Places
  PROVE  /\ Placed(call, pc) \in Calls
         /\ Placed(call, pc).pc = pc
         /\ pc = "error" => Placed(call, pc).op = "none"
         /\ pc # "error" =>
              /\ Placed(call, pc).op = call.op
              /\ Placed(call, pc).email = call.email
              /\ Placed(call, pc).frontendUrl = call.frontendUrl
              /\ Placed(call, pc).coach = call.coach
<1>1. CASE pc = "error"
  <2>1. /\ Refused \in Calls /\ Refused.pc = "error" /\ Refused.op = "none"
    BY DEF Refused, NewRequest, Calls, Places
  <2> QED
    BY <1>1, <2>1 DEF Placed
<1>2. CASE pc # "error"
  <2>1. Placed(call, pc) = [call EXCEPT !.pc = pc]
    BY <1>2 DEF Placed
  <2> QED
    BY <1>2, <2>1 DEF Calls
<1> QED
  BY <1>1, <1>2

LEMMA GotoShape ==
  ASSUME TypeOK, NEW r \in Requests, NEW pc \in Places, Goto(r, pc)
  PROVE  /\ request' \in [Requests -> Calls]
         /\ \A q \in Requests : q # r => request'[q] = request[q]
         /\ request'[r].pc = pc
         /\ pc = "error" => request'[r].op = "none"
         /\ pc # "error" =>
              /\ request'[r].op = request[r].op
              /\ request'[r].email = request[r].email
              /\ request'[r].frontendUrl = request[r].frontendUrl
              /\ request'[r].coach = request[r].coach
<1> DEFINE call == Placed(request[r], pc)
<1>1. request[r] \in Calls
  BY DEF TypeOK
<1>2. /\ call \in Calls /\ call.pc = pc
      /\ pc = "error" => call.op = "none"
      /\ pc # "error" =>
           /\ call.op = request[r].op /\ call.email = request[r].email
           /\ call.frontendUrl = request[r].frontendUrl /\ call.coach = request[r].coach
  BY <1>1, PlacedShape
<1>3. request' = [request EXCEPT ![r] = call]
  BY DEF Goto
<1> HIDE DEF call
<1>4. request'[r] = call /\ \A q \in Requests : q # r => request'[q] = request[q]
  BY <1>3 DEF TypeOK
<1>5. request' \in [Requests -> Calls]
  BY <1>2, <1>3 DEF TypeOK
<1> QED
  BY <1>2, <1>4, <1>5

(***************************************************************************)
(* The steps of a request that write no row: it starts, or goes on, and    *)
(* comes to "ok" of acceptInvite only by the insert.                       *)
(***************************************************************************)
LEMMA NoWrite ==
  ASSUME IndInv, TypeOK', UNCHANGED coaches,
         \A r \in Requests :
           \/ request'[r] = request[r]
           \/ /\ request[r].pc # "ok"
              /\ request'[r].op = "accept" => request'[r].pc # "ok"
              /\ request'[r].op \in {"invite", "accept"} =>
                   request'[r].email \in Emails /\ request'[r].frontendUrl \in Sites
              /\ request'[r].op = "setUrl" =>
                   request'[r].coach \in Ids /\ request'[r].frontendUrl \in Sites
  PROVE  IndInv'
<1>1. OneCoachPerSite' /\ OneAccountPerEmail'
  BY DEF IndInv, OneCoachPerSite, OneAccountPerEmail, Exists
<1>2. OwnRow'
  <2> SUFFICES ASSUME NEW r \in Requests
               PROVE  /\ Exists(r)' <=> At(r, "accept", "ok")'
                      /\ Exists(r)' => coaches'[r].email = request'[r].email
                      /\ request'[r].op \in {"invite", "accept"} =>
                           request'[r].email \in Emails /\ request'[r].frontendUrl \in Sites
                      /\ request'[r].op = "setUrl" =>
                           request'[r].coach \in Ids /\ request'[r].frontendUrl \in Sites
    BY DEF OwnRow
  <2>1. CASE request'[r] = request[r]
    BY <2>1 DEF IndInv, OwnRow, Exists, At
  <2>2. CASE request'[r] # request[r]
    <3>1. ~ At(r, "accept", "ok")
      BY <2>2 DEF At, NewRequest
    <3>2. ~ Exists(r)
      BY <3>1 DEF IndInv, OwnRow
    <3> QED
      BY <2>2, <3>2 DEF Exists, At
  <2> QED
    BY <2>1, <2>2
<1> QED
  BY <1>1, <1>2 DEF IndInv

LEMMA GoesOn ==
  ASSUME IndInv, NEW r \in Requests, NEW pc \in Places, Goto(r, pc),
         UNCHANGED coaches, mails' \subseteq Invites, request[r].pc # "ok",
         request[r].op = "accept" => pc # "ok"
  PROVE  IndInv'
<1>1. TypeOK /\ OwnRow
  BY DEF IndInv
<1>2. TypeOK'
  BY <1>1, GotoShape DEF TypeOK
<1>3. \A q \in Requests : q # r => request'[q] = request[q]
  BY <1>1, GotoShape
<1>4. /\ request'[r].pc = pc
      /\ pc = "error" => request'[r].op = "none"
      /\ pc # "error" =>
           /\ request'[r].op = request[r].op
           /\ request'[r].email = request[r].email
           /\ request'[r].frontendUrl = request[r].frontendUrl
           /\ request'[r].coach = request[r].coach
  BY <1>1, GotoShape
<1>5. /\ request[r].op \in {"invite", "accept"} =>
           request[r].email \in Emails /\ request[r].frontendUrl \in Sites
      /\ request[r].op = "setUrl" => request[r].coach \in Ids /\ request[r].frontendUrl \in Sites
  BY <1>1 DEF OwnRow
<1> QED
  BY <1>2, <1>3, <1>4, <1>5, NoWrite

LEMMA Starts ==
  ASSUME IndInv, NEW r \in Requests, request[r] = NewRequest, NEW call \in Calls,
         request' = [request EXCEPT ![r] = call], UNCHANGED <<coaches, mails>>,
         call.pc # "ok",
         call.op \in {"invite", "accept"} => call.email \in Emails /\ call.frontendUrl \in Sites,
         call.op = "setUrl" => call.coach \in Ids /\ call.frontendUrl \in Sites
  PROVE  IndInv'
<1>1. TypeOK'
  BY DEF IndInv, TypeOK
<1>2. request'[r] = call /\ \A q \in Requests : q # r => request'[q] = request[q]
  BY DEF IndInv, TypeOK
<1>3. request[r].pc # "ok"
  BY DEF NewRequest
<1> QED
  BY <1>1, <1>2, <1>3, NoWrite

\* acceptInvite inserts a row: the unique columns keep it apart from the others.
LEMMA CreateKeeps ==
  ASSUME IndInv, NEW r \in Requests, CreateCoach(r)
  PROVE  IndInv'
<1>0. /\ TypeOK /\ OneCoachPerSite /\ OneAccountPerEmail /\ OwnRow
      /\ At(r, "accept", "create") /\ r \in Ids
  BY DEF CreateCoach, IndInv, Ids
<1>1. /\ request[r].email \in Emails /\ request[r].email # Nobody
      /\ request[r].frontendUrl \in Sites
  BY <1>0, NamesAssumption DEF OwnRow, At
<1>2. CASE ~ Unique(r, request[r].email, request[r].frontendUrl)
  <2>1. Goto(r, "error") /\ UNCHANGED <<coaches, mails>>
    BY <1>2 DEF CreateCoach
  <2> QED
    BY <1>0, <2>1, GoesOn DEF At, Places, TypeOK
<1>3. CASE Unique(r, request[r].email, request[r].frontendUrl)
  <2> DEFINE row == [email |-> request[r].email, frontendUrl |-> request[r].frontendUrl]
  <2>1. /\ coaches' = [coaches EXCEPT ![r] = row]
        /\ Goto(r, "ok") /\ UNCHANGED mails
    BY <1>3 DEF CreateCoach
  <2> DEFINE Kept == /\ request' \in [Requests -> Calls]
                     /\ \A q \in Requests : q # r => request'[q] = request[q]
                     /\ request'[r].pc = "ok" /\ request'[r].op = request[r].op
                     /\ request'[r].email = request[r].email
                     /\ request'[r].frontendUrl = request[r].frontendUrl
                     /\ request'[r].coach = request[r].coach
  <2>0. Kept
    <3>1. "ok" \in Places
      BY DEF Places
    <3> QED
      BY <1>0, <2>1, <3>1, GotoShape
  <2>2. /\ coaches'[r] = row
        /\ \A j \in Ids : j # r => coaches'[j] = coaches[j]
    BY <1>0, <2>1 DEF TypeOK
  <2>3. /\ \A j \in Ids : j # r => (Exists(j)' <=> Exists(j))
        /\ Exists(r)'
    BY <1>1, <2>2 DEF Exists, NoCoach
  <2>4. \A j \in Ids : j # r /\ Exists(j) =>
          /\ coaches[j].email # request[r].email
          /\ request[r].frontendUrl # NoSite => coaches[j].frontendUrl # request[r].frontendUrl
    BY <1>0, <1>3, UniqueEmail, UniqueSite
  <2>5. OneCoachPerSite'
    BY <1>0, <1>1, <2>2, <2>3, <2>4 DEF OneCoachPerSite
  <2>6. OneAccountPerEmail'
    BY <1>0, <2>2, <2>3, <2>4 DEF OneAccountPerEmail
  <2>7. OwnRow'
    BY <1>0, <2>0, <2>2, <2>3 DEF OwnRow, At, Ids
  <2>8. TypeOK'
    <3>1. coaches' \in [Ids -> Rows \cup {NoCoach}]
      BY <1>0, <1>1, <2>1 DEF TypeOK, Rows
    <3> QED
      BY <1>0, <2>0, <2>1, <3>1 DEF TypeOK
  <2> QED
    BY <2>5, <2>6, <2>7, <2>8 DEF IndInv
<1> QED
  BY <1>2, <1>3

\* setFrontendUrl moves a coach that is there to a site that nobody else has.
LEMMA UpdateKeeps ==
  ASSUME IndInv, NEW r \in Requests, UpdateCoach(r)
  PROVE  IndInv'
<1> DEFINE i == request[r].coach
           site == request[r].frontendUrl
<1>0. /\ TypeOK /\ OneCoachPerSite /\ OneAccountPerEmail /\ OwnRow
      /\ At(r, "setUrl", "update") /\ UNCHANGED mails
  BY DEF UpdateCoach, IndInv
<1>1. i \in Ids /\ site \in Sites \cup {NoSite}
  <2>1. request[r] \in Calls /\ i \in Ids
    BY <1>0 DEF OwnRow, At, TypeOK
  <2> QED
    BY <2>1 DEF Calls
<1>2. CASE UNCHANGED coaches /\ Goto(r, "error")
  BY <1>0, <1>2, GoesOn DEF At, Places, TypeOK
<1>3. CASE /\ Exists(i) /\ Unique(i, coaches[i].email, site)
           /\ coaches' = [coaches EXCEPT ![i].frontendUrl = site]
           /\ Goto(r, "ok")
  <2>1. coaches[i] \in Rows
    BY <1>0, <1>1, <1>3, RowShape
  <2>2. /\ coaches'[i] = [email |-> coaches[i].email, frontendUrl |-> site]
        /\ coaches'[i] \in Rows
        /\ \A j \in Ids : j # i => coaches'[j] = coaches[j]
    BY <1>0, <1>1, <1>3, <2>1 DEF TypeOK, Rows
  <2> DEFINE Kept == /\ request' \in [Requests -> Calls]
                     /\ \A q \in Requests : q # r => request'[q] = request[q]
                     /\ request'[r].op = request[r].op
                     /\ request'[r].coach = request[r].coach
                     /\ request'[r].frontendUrl = request[r].frontendUrl
  <2>0. Kept
    <3>1. "ok" \in Places
      BY DEF Places
    <3> QED
      BY <1>0, <1>3, <3>1, GotoShape
  <2>3. TypeOK'
    <3>1. coaches' \in [Ids -> Rows \cup {NoCoach}]
      BY <1>0, <1>1, <1>3, <2>2 DEF TypeOK
    <3> QED
      BY <1>0, <2>0, <3>1 DEF TypeOK
  <2>4. coaches[i].email # Nobody /\ coaches'[i].email = coaches[i].email
    BY <1>0, <1>1, <1>3, <2>2, RowShape
  <2>5. \A j \in Ids : Exists(j)' <=> Exists(j)
    BY <1>3, <2>2, <2>4 DEF Exists, NoCoach
  <2>6. \A j \in Ids : j # i /\ Exists(j) /\ site # NoSite => coaches[j].frontendUrl # site
    BY <1>0, <1>1, <1>3, UniqueSite
  <2>7. OneCoachPerSite'
    BY <1>0, <2>2, <2>5, <2>6 DEF OneCoachPerSite
  <2>8. \A j \in Ids : coaches'[j].email = coaches[j].email
    BY <2>2, <2>4
  <2>9. OneAccountPerEmail'
    BY <1>0, <2>5, <2>8 DEF OneAccountPerEmail
  <2>10. OwnRow'
    <3>1. r \in Ids /\ ~ Exists(r)
      BY <1>0 DEF OwnRow, At, Ids
    <3>2. ~ At(r, "accept", "ok")'
      BY <1>0, <2>0 DEF At
    <3>3. \A q \in Requests : q \in Ids /\ (q # r => request'[q] = request[q])
      BY <2>0 DEF Ids
    <3>4. request'[r].op = "setUrl"
      BY <1>0, <2>0 DEF At
    <3>5. request'[r].coach \in Ids /\ request'[r].frontendUrl \in Sites
      BY <1>0, <2>0 DEF OwnRow, At
    <3> QED
      BY <1>0, <2>5, <2>8, <3>1, <3>2, <3>3, <3>4, <3>5 DEF OwnRow, At
  <2> QED
    BY <2>3, <2>7, <2>9, <2>10 DEF IndInv
<1> QED
  BY <1>2, <1>3 DEF UpdateCoach

LEMMA IndInvInit == Init => IndInv
<1> SUFFICES ASSUME Init PROVE IndInv
  OBVIOUS
<1>1. TypeOK
  BY NamesAssumption DEF Init, TypeOK, Rows, NewRequest, Calls, Places, Ids
<1>2. \A i \in Ids : Exists(i) <=> i = Admin
  BY NamesAssumption DEF Init, Exists, NoCoach, Ids
<1>3. OneCoachPerSite /\ OneAccountPerEmail
  BY <1>2 DEF OneCoachPerSite, OneAccountPerEmail
<1>4. OwnRow
  BY <1>2, NamesAssumption DEF OwnRow, Init, At, NewRequest, Ids
<1> QED
  BY <1>1, <1>3, <1>4 DEF IndInv

LEMMA IndInvNext == IndInv /\ [Next]_vars => IndInv'
<1> SUFFICES ASSUME IndInv, [Next]_vars PROVE IndInv'
  OBVIOUS
<1>0. TypeOK
  BY DEF IndInv
<1>1. ASSUME NEW r \in Requests, NEW invite \in Invites, Invite(r, invite) \/ AcceptInvite(r, invite)
      PROVE  IndInv'
  <2>1. PICK op \in {"invite", "accept"}, pc \in {"origin", "create", "error"} :
          request' = [request EXCEPT ![r] =
            Placed([NewRequest EXCEPT !.op = op, !.email = invite.email,
                      !.frontendUrl = invite.frontendUrl], pc)]
    BY <1>1, Zenon DEF Invite, AcceptInvite
  <2> DEFINE asked == [NewRequest EXCEPT !.op = op, !.email = invite.email,
                         !.frontendUrl = invite.frontendUrl]
             call == Placed(asked, pc)
  <2>2. /\ call \in Calls /\ call.pc # "ok" /\ call.op \in {"none", "invite", "accept"}
        /\ call.op # "none" => call.email \in Emails /\ call.frontendUrl \in Sites
    <3>1. /\ asked \in Calls /\ asked.op = op
          /\ asked.email \in Emails /\ asked.frontendUrl \in Sites
      BY DEF Calls, Places, NewRequest, Invites
    <3>2. pc \in Places /\ pc # "ok"
      BY DEF Places
    <3> HIDE DEF asked
    <3> QED
      BY <3>1, <3>2, PlacedShape
  <2>3. request[r] = NewRequest /\ UNCHANGED <<coaches, mails>>
    BY <1>1 DEF Invite, AcceptInvite
  <2> HIDE DEF call
  <2> QED
    BY <2>1, <2>2, <2>3, Starts DEF call
<1>2. ASSUME NEW r \in Requests, NEW coach \in Ids, NEW site \in Sites, SetFrontendUrl(r, coach, site)
      PROVE  IndInv'
  <2> DEFINE asked == [NewRequest EXCEPT !.op = "setUrl", !.coach = coach, !.frontendUrl = site]
             call == Placed(asked, OriginAnswer(site, "site"))
  <2>1. OriginAnswer(site, "site") \in Places \ {"ok"}
    BY DEF OriginAnswer, Places
  <2>2. /\ call \in Calls /\ call.op \in {"none", "setUrl"} /\ call.pc # "ok"
        /\ call.op = "setUrl" => call.coach \in Ids /\ call.frontendUrl \in Sites
    <3>1. /\ asked \in Calls /\ asked.op = "setUrl"
          /\ asked.coach = coach /\ asked.frontendUrl = site
      BY DEF Calls, Places, NewRequest
    <3> HIDE DEF asked
    <3> QED
      BY <2>1, <3>1, PlacedShape
  <2>3. /\ request' = [request EXCEPT ![r] = call]
        /\ request[r] = NewRequest /\ UNCHANGED <<coaches, mails>>
    BY <1>2 DEF SetFrontendUrl
  <2> HIDE DEF call
  <2> QED
    BY <2>2, <2>3, Starts
<1>3. ASSUME NEW r \in Requests, InviteOrigin(r) \/ InviteSite(r) \/ SetUrlSite(r)
      PROVE  IndInv'
  <2>1. PICK pc \in {"site", "mail", "update", "error"} : Goto(r, pc)
    BY <1>3 DEF InviteOrigin, InviteSite, SetUrlSite, OriginAnswer
  <2>2. request[r].pc # "ok" /\ request[r].op # "accept" /\ UNCHANGED <<coaches, mails>>
    BY <1>3 DEF InviteOrigin, InviteSite, SetUrlSite, At
  <2> QED
    BY <1>0, <2>1, <2>2, GoesOn DEF Places, TypeOK
<1>4. ASSUME NEW r \in Requests, SendInvite(r)
      PROVE  IndInv'
  <2>1. PICK pc \in {"ok", "error"} : Goto(r, pc)
    BY <1>4 DEF SendInvite
  <2>2. request[r].pc # "ok" /\ request[r].op = "invite" /\ UNCHANGED coaches
    BY <1>4 DEF SendInvite, At
  <2>3. mails' \subseteq Invites
    <3>1. request[r].email \in Emails /\ request[r].frontendUrl \in Sites
      BY <2>2 DEF IndInv, OwnRow
    <3> QED
      BY <1>0, <1>4, <3>1 DEF SendInvite, Delivered, Invites, TypeOK
  <2> QED
    BY <2>1, <2>2, <2>3, GoesOn DEF Places
<1>5. ASSUME NEW r \in Requests, CreateCoach(r)
      PROVE  IndInv'
  BY <1>5, CreateKeeps
<1>6. ASSUME NEW r \in Requests, UpdateCoach(r)
      PROVE  IndInv'
  BY <1>6, UpdateKeeps
<1>7. CASE UNCHANGED <<coaches, request>> /\ mails' \subseteq mails
  <2>1. TypeOK'
    BY <1>7 DEF IndInv, TypeOK
  <2> QED
    BY <1>7, <2>1, NoWrite
<1>8. ASSUME NEW invite \in mails, ExpireInvite(invite)
      PROVE  IndInv'
  BY <1>7, <1>8 DEF ExpireInvite
<1>9. ASSUME NEW site \in Sites, AddOrigin(site) \/ RemoveOrigin(site)
      PROVE  IndInv'
  BY <1>7, <1>9 DEF AddOrigin, RemoveOrigin
<1>10. CASE UNCHANGED vars
  BY <1>7, <1>10 DEF vars
<1> QED
  BY <1>1, <1>2, <1>3, <1>4, <1>5, <1>6, <1>8, <1>9, <1>10 DEF Next, StartRequest, RequestStep

\* Two coaches never share a site: the check-then-write sequences of invite,
\* acceptInvite and setFrontendUrl are safe because of Coach's unique columns.
THEOREM SitesAreUnique == Spec => []OneCoachPerSite
<1>1. IndInv => OneCoachPerSite
  BY DEF IndInv
<1> QED
  BY <1>1, IndInvInit, IndInvNext, PTL DEF Spec

\* No two calls of acceptInvite redeem invitations to one address: each that
\* answered ok is the row it created, and no two rows have one email.
THEOREM InvitesAreRedeemedOnce == Spec => []InviteRedeemedOnce
<1>1. IndInv => InviteRedeemedOnce
  <2> SUFFICES ASSUME IndInv, NEW q \in Requests, NEW r \in Requests, q # r,
                      At(q, "accept", "ok"), At(r, "accept", "ok")
               PROVE  request[q].email # request[r].email
    BY DEF InviteRedeemedOnce
  <2>1. /\ Exists(q) /\ coaches[q].email = request[q].email
        /\ Exists(r) /\ coaches[r].email = request[r].email
    BY DEF IndInv, OwnRow
  <2> QED
    BY <2>1 DEF IndInv, OneAccountPerEmail, Ids
<1> QED
  BY <1>1, IndInvInit, IndInvNext, PTL DEF Spec

(***************************************************************************)
(* Sites are looked up once, when they are typed in.  What follows shows   *)
(* that nothing after the look-up can hold a site that was never allowed.  *)
(***************************************************************************)
\* The look-up answers next only for an origin that is allowed.
LEMMA LookUp ==
  ASSUME NEW site, NEW next, next # "error", OriginAnswer(site, next) = next
  PROVE  site \in Known
BY DEF OriginAnswer, Known

\* A step that writes no row: every mail and every call past the look-up was there
\* before, or has a site that is known.
LEMMA SitesCarry ==
  ASSUME SitesInv, UNCHANGED coaches, Known \subseteq Known',
         \A invite \in mails' : invite \in mails \/ invite.frontendUrl \in Known,
         \A r \in Requests : PastLookUp(r)' =>
           \/ PastLookUp(r) /\ request'[r].frontendUrl = request[r].frontendUrl
           \/ request'[r].frontendUrl \in Known
  PROVE  SitesInv'
<1>1. SitesAreKnown'
  BY DEF SitesInv, SitesAreKnown, Exists, Known
<1>2. \A invite \in mails' : invite.frontendUrl \in Known'
  BY DEF SitesInv
<1>3. \A r \in Requests : PastLookUp(r)' => request'[r].frontendUrl \in Known'
  BY DEF SitesInv
<1> QED
  BY <1>1, <1>2, <1>3 DEF SitesInv

\* Request r goes on at pc without a write.
LEMMA SitesGoOn ==
  ASSUME TypeOK, SitesInv, NEW r \in Requests, NEW pc \in Places, Goto(r, pc),
         UNCHANGED <<coaches, allowed>>,
         \A invite \in mails' : invite \in mails \/ invite.frontendUrl \in Known,
         PastLookUp(r)' => request[r].frontendUrl \in Known
  PROVE  SitesInv'
<1>1. \A q \in Requests : q # r => request'[q] = request[q]
  BY GotoShape
<1>2. PastLookUp(r)' => request'[r].frontendUrl = request[r].frontendUrl
  BY GotoShape DEF PastLookUp, At
<1>3. ASSUME NEW q \in Requests, PastLookUp(q)'
      PROVE  \/ PastLookUp(q) /\ request'[q].frontendUrl = request[q].frontendUrl
             \/ request'[q].frontendUrl \in Known
  <2>1. CASE q = r
    BY <1>2, <1>3, <2>1
  <2>2. CASE q # r
    BY <1>1, <1>3, <2>2 DEF PastLookUp, At
  <2> QED
    BY <2>1, <2>2
<1>4. Known \subseteq Known'
  BY DEF Known
<1> QED
  BY <1>3, <1>4, SitesCarry

LEMMA SitesInvInit == Init => SitesInv
<1> SUFFICES ASSUME Init PROVE SitesInv
  OBVIOUS
<1>1. SitesAreKnown
  BY NamesAssumption DEF Init, SitesAreKnown, Exists, NoCoach
<1>2. \A r \in Requests : ~ PastLookUp(r)
  BY DEF Init, PastLookUp, At, NewRequest
<1> QED
  BY <1>1, <1>2 DEF Init, SitesInv

LEMMA SitesInvNext == IndInv /\ SitesInv /\ [Next]_vars => SitesInv'
<1> SUFFICES ASSUME IndInv, SitesInv, [Next]_vars PROVE SitesInv'
  OBVIOUS
<1>0. TypeOK /\ OwnRow
  BY DEF IndInv
<1>1. ASSUME NEW r \in Requests, NEW call \in Calls, request' = [request EXCEPT ![r] = call],
             UNCHANGED <<coaches, allowed, mails>>,
             PastLookUp(r)' => call.frontendUrl \in Known
      PROVE  SitesInv'
  <2>1. request'[r] = call /\ \A q \in Requests : q # r => request'[q] = request[q]
    BY <1>0, <1>1 DEF TypeOK
  <2>2. ASSUME NEW q \in Requests, PastLookUp(q)'
        PROVE  \/ PastLookUp(q) /\ request'[q].frontendUrl = request[q].frontendUrl
               \/ request'[q].frontendUrl \in Known
    <3>1. CASE q = r
      BY <1>1, <2>1, <2>2, <3>1
    <3>2. CASE q # r
      BY <2>1, <2>2, <3>2 DEF PastLookUp, At
    <3> QED
      BY <3>1, <3>2
  <2>3. Known \subseteq Known'
    BY <1>1 DEF Known
  <2> QED
    BY <1>1, <2>2, <2>3, SitesCarry
<1>2. ASSUME NEW r \in Requests, NEW invite \in Invites, Invite(r, invite)
      PROVE  SitesInv'
  <2>1. PICK pc \in {"origin", "error"} :
          request' = [request EXCEPT ![r] =
            Placed([NewRequest EXCEPT !.op = "invite", !.email = invite.email,
                      !.frontendUrl = invite.frontendUrl], pc)]
    BY <1>2, Zenon DEF Invite
  <2> DEFINE asked == [NewRequest EXCEPT !.op = "invite", !.email = invite.email,
                         !.frontendUrl = invite.frontendUrl]
             call == Placed(asked, pc)
  <2>2. call \in Calls /\ call.op \in {"none", "invite"} /\ call.pc = pc
    <3>1. asked \in Calls /\ asked.op = "invite" /\ pc \in Places
      BY DEF Calls, Places, NewRequest, Invites
    <3> HIDE DEF asked
    <3> QED
      BY <3>1, PlacedShape
  <2>3. UNCHANGED <<coaches, allowed, mails>>
    BY <1>2 DEF Invite
  <2> HIDE DEF call
  <2>4. request' = [request EXCEPT ![r] = call]
    BY <2>1 DEF call
  <2>5. ~ PastLookUp(r)'
    BY <1>0, <2>2, <2>4 DEF PastLookUp, At, TypeOK
  <2> QED
    BY <1>1, <2>2, <2>3, <2>4, <2>5
<1>3. ASSUME NEW r \in Requests, NEW invite \in Invites, AcceptInvite(r, invite)
      PROVE  SitesInv'
  <2>1. PICK pc \in {"create", "error"} :
          request' = [request EXCEPT ![r] =
            Placed([NewRequest EXCEPT !.op = "accept", !.email = invite.email,
                      !.frontendUrl = invite.frontendUrl], pc)]
    BY <1>3, Zenon DEF AcceptInvite
  <2> DEFINE asked == [NewRequest EXCEPT !.op = "accept", !.email = invite.email,
                         !.frontendUrl = invite.frontendUrl]
             call == Placed(asked, pc)
  <2>2. /\ call \in Calls
        /\ pc = "error" => call.op = "none"
        /\ pc # "error" => call.frontendUrl = invite.frontendUrl
    <3>1. /\ asked \in Calls /\ asked.frontendUrl = invite.frontendUrl
          /\ pc \in Places
      BY DEF Calls, Places, NewRequest, Invites
    <3> HIDE DEF asked
    <3> QED
      BY <3>1, PlacedShape
  <2>3. UNCHANGED <<coaches, allowed, mails>> /\ invite \in mails
    BY <1>3 DEF AcceptInvite, Verified
  <2>4. invite.frontendUrl \in Known
    BY <2>3 DEF SitesInv
  <2> HIDE DEF call
  <2>5. request' = [request EXCEPT ![r] = call]
    BY <2>1 DEF call
  <2>6. PastLookUp(r)' => call.op # "none"
    BY <1>0, <2>5 DEF PastLookUp, At, TypeOK
  <2> QED
    BY <1>1, <2>2, <2>3, <2>4, <2>5, <2>6
<1>4. ASSUME NEW r \in Requests, NEW coach \in Ids, NEW site \in Sites, SetFrontendUrl(r, coach, site)
      PROVE  SitesInv'
  <2> DEFINE asked == [NewRequest EXCEPT !.op = "setUrl", !.coach = coach, !.frontendUrl = site]
             call == Placed(asked, OriginAnswer(site, "site"))
  <2>1. OriginAnswer(site, "site") \in {"site", "error"}
    BY DEF OriginAnswer
  <2>2. /\ call \in Calls /\ call.pc = OriginAnswer(site, "site")
        /\ call.pc = "error" => call.op = "none"
        /\ call.pc # "error" => call.frontendUrl = site
    <3>1. asked \in Calls /\ asked.frontendUrl = site
      BY DEF Calls, NewRequest, Places
    <3>2. OriginAnswer(site, "site") \in Places
      BY <2>1 DEF Places
    <3> HIDE DEF asked
    <3> QED
      BY <3>1, <3>2, PlacedShape
  <2>3. request' = [request EXCEPT ![r] = call] /\ UNCHANGED <<coaches, allowed, mails>>
    BY <1>4 DEF SetFrontendUrl
  <2> HIDE DEF call
  <2>4. request'[r] = call
    BY <1>0, <2>3 DEF TypeOK
  <2>5. PastLookUp(r)' => OriginAnswer(site, "site") = "site"
    BY <2>1, <2>2, <2>4 DEF PastLookUp, At
  <2>6. PastLookUp(r)' => call.frontendUrl \in Known
    BY <2>2, <2>5, LookUp
  <2> QED
    BY <1>1, <2>2, <2>3, <2>6
<1>5. ASSUME NEW r \in Requests, InviteOrigin(r)
      PROVE  SitesInv'
  <2> DEFINE answer == OriginAnswer(request[r].frontendUrl, "site")
  <2>1. /\ Goto(r, answer) /\ answer \in {"site", "error"} /\ request[r].op = "invite"
        /\ UNCHANGED <<coaches, allowed, mails>>
    BY <1>5 DEF InviteOrigin, OriginAnswer, At
  <2>2. answer \in Places
    BY <2>1 DEF Places
  <2> HIDE DEF answer
  <2>3. /\ request'[r].pc = answer
        /\ IF answer = "error" THEN request'[r].op = "none" ELSE request'[r].op = "invite"
    BY <1>0, <2>1, <2>2, GotoShape
  <2>4. PastLookUp(r)' => answer = "site"
    BY <2>1, <2>3 DEF PastLookUp, At
  <2>5. PastLookUp(r)' => request[r].frontendUrl \in Known
    BY <2>4, LookUp DEF answer
  <2> QED
    BY <1>0, <2>1, <2>2, <2>5, SitesGoOn
<1>6. ASSUME NEW r \in Requests, InviteSite(r) \/ SetUrlSite(r)
      PROVE  SitesInv'
  <2>1. PICK pc \in {"mail", "update", "error"} : Goto(r, pc)
    BY <1>6 DEF InviteSite, SetUrlSite
  <2>2. PastLookUp(r) /\ UNCHANGED <<coaches, allowed, mails>>
    BY <1>6 DEF InviteSite, SetUrlSite, PastLookUp, At
  <2>3. request[r].frontendUrl \in Known
    BY <2>2 DEF SitesInv
  <2> QED
    BY <1>0, <2>1, <2>2, <2>3, SitesGoOn DEF Places
<1>7. ASSUME NEW r \in Requests, SendInvite(r)
      PROVE  SitesInv'
  <2>1. PICK pc \in {"ok", "error"} : Goto(r, pc)
    BY <1>7 DEF SendInvite
  <2>2. PastLookUp(r) /\ UNCHANGED <<coaches, allowed>>
    BY <1>7 DEF SendInvite, PastLookUp, At
  <2>3. request[r].frontendUrl \in Known
    BY <2>2 DEF SitesInv
  <2>4. \A invite \in mails' : invite \in mails \/ invite.frontendUrl \in Known
    BY <1>7, <2>3 DEF SendInvite, Delivered
  <2> QED
    BY <1>0, <2>1, <2>2, <2>3, <2>4, SitesGoOn DEF Places
<1>8. ASSUME NEW r \in Requests, NEW i \in Ids, NEW pc \in Places, pc \in {"ok", "error"},
             Goto(r, pc), PastLookUp(r), UNCHANGED <<allowed, mails>>,
             \/ UNCHANGED coaches
             \/ /\ \A j \in Ids : j # i => coaches'[j] = coaches[j]
                /\ coaches'[i].frontendUrl = request[r].frontendUrl
      PROVE  SitesInv'
  <2>1. request[r].frontendUrl \in Known /\ Known' = Known
    BY <1>8 DEF SitesInv, Known
  <2>2. SitesAreKnown'
    BY <1>8, <2>1 DEF SitesInv, SitesAreKnown, Exists, Known
  <2>3. /\ \A q \in Requests : q # r => request'[q] = request[q]
        /\ PastLookUp(r)' => request'[r].frontendUrl = request[r].frontendUrl
    BY <1>0, <1>8, GotoShape DEF PastLookUp, At
  <2>4. ASSUME NEW q \in Requests, PastLookUp(q)'
        PROVE  request'[q].frontendUrl \in Known'
    <3>1. CASE q = r
      BY <2>1, <2>3, <2>4, <3>1
    <3>2. CASE q # r
      BY <2>1, <2>3, <2>4, <3>2 DEF PastLookUp, At, SitesInv
    <3> QED
      BY <3>1, <3>2
  <2> QED
    BY <1>8, <2>1, <2>2, <2>4 DEF SitesInv
<1>9. ASSUME NEW r \in Requests, CreateCoach(r)
      PROVE  SitesInv'
  <2>1. PastLookUp(r) /\ r \in Ids /\ UNCHANGED <<allowed, mails>>
    BY <1>9 DEF CreateCoach, PastLookUp, Ids
  <2>2. \/ UNCHANGED coaches
        \/ /\ \A j \in Ids : j # r => coaches'[j] = coaches[j]
           /\ coaches'[r].frontendUrl = request[r].frontendUrl
    BY <1>0, <1>9, <2>1 DEF CreateCoach, TypeOK
  <2>3. PICK pc \in {"ok", "error"} : Goto(r, pc)
    BY <1>9 DEF CreateCoach
  <2> QED
    BY <1>8, <2>1, <2>2, <2>3 DEF Places
<1>10. ASSUME NEW r \in Requests, UpdateCoach(r)
       PROVE  SitesInv'
  <2> DEFINE i == request[r].coach
  <2>1. PastLookUp(r) /\ i \in Ids /\ UNCHANGED <<allowed, mails>>
    BY <1>0, <1>10 DEF UpdateCoach, PastLookUp, At, OwnRow
  <2>2. \/ UNCHANGED coaches
        \/ /\ Exists(i)
           /\ coaches' = [coaches EXCEPT ![i].frontendUrl = request[r].frontendUrl]
    BY <1>10 DEF UpdateCoach
  <2>3. Exists(i) => coaches[i] \in Rows
    BY <1>0, <2>1, RowShape
  <2>4. \/ UNCHANGED coaches
        \/ /\ \A j \in Ids : j # i => coaches'[j] = coaches[j]
           /\ coaches'[i].frontendUrl = request[r].frontendUrl
    BY <1>0, <2>1, <2>2, <2>3 DEF TypeOK, Rows
  <2>5. PICK pc \in {"ok", "error"} : Goto(r, pc)
    BY <1>10 DEF UpdateCoach
  <2> QED
    BY <1>8, <2>1, <2>4, <2>5 DEF Places
<1>11. CASE UNCHANGED <<coaches, request>> /\ mails' \subseteq mails /\ Known \subseteq Known'
  <2>1. \A r \in Requests : PastLookUp(r)' => PastLookUp(r) /\ request'[r] = request[r]
    BY <1>11 DEF PastLookUp, At
  <2> QED
    BY <1>11, <2>1, SitesCarry
<1>12. ASSUME NEW invite \in mails, ExpireInvite(invite)
       PROVE  SitesInv'
  BY <1>11, <1>12 DEF ExpireInvite, Known
<1>13. ASSUME NEW site \in Sites, AddOrigin(site) \/ RemoveOrigin(site)
       PROVE  SitesInv'
  <2>1. Known \subseteq Known'
    BY <1>13 DEF AddOrigin, RemoveOrigin, Known
  <2> QED
    BY <1>11, <1>13, <2>1 DEF AddOrigin, RemoveOrigin
<1>14. CASE UNCHANGED vars
  BY <1>11, <1>14 DEF vars, Known
<1> QED
  BY <1>2, <1>3, <1>4, <1>5, <1>6, <1>7, <1>9, <1>10, <1>12, <1>13, <1>14
  DEF Next, StartRequest, RequestStep

\* A coach's site was looked up among the allowed origins, by invite or by
\* setFrontendUrl, however much later it is written, and only an origin that the
\* admin removed since can have left the table.
THEOREM SitesStayKnown == Spec => []SitesAreKnown
<1>1. IndInv /\ SitesInv => SitesAreKnown
  BY DEF SitesInv
<1>2. Init => IndInv /\ SitesInv
  BY IndInvInit, SitesInvInit
<1>3. IndInv /\ SitesInv /\ [Next]_vars => (IndInv /\ SitesInv)'
  BY IndInvNext, SitesInvNext
<1> QED
  BY <1>1, <1>2, <1>3, PTL DEF Spec

(***************************************************************************)
(* The register.  With the unique columns a look-up finds a value's one    *)
(* holder, so what findUnique answers for every email and site is a        *)
(* function of who holds what (Indexed), and a write changes it at the     *)
(* values it takes and gives up.                                           *)
(***************************************************************************)
Indexed ==
    /\ \A e \in Emails : accountOf[e] \in Ids \cup {Nobody}
    /\ \A e \in Emails : \A i \in Ids : accountOf[e] = i <=> Holds(i, "email", e)
    /\ \A s \in Sites : ownerOf[s] \in Ids \cup {Nobody}
    /\ \A s \in Sites : \A i \in Ids : ownerOf[s] = i <=> Holds(i, "frontendUrl", s)

LEMMA FindsTheHolder ==
  ASSUME NEW column, NEW value,
         \A i \in Ids : \A j \in Ids :
           Holds(i, column, value) /\ Holds(j, column, value) => i = j
  PROVE  /\ Find(column, value) \in Ids \cup {Nobody}
         /\ \A i \in Ids : Find(column, value) = i <=> Holds(i, column, value)
<1>1. CASE \E i \in Ids : Holds(i, column, value)
  <2>1. Find(column, value) \in Ids /\ Holds(Find(column, value), column, value)
    BY <1>1, FindHolder
  <2> QED
    BY <2>1
<1>2. CASE ~ \E i \in Ids : Holds(i, column, value)
  <2>1. Find(column, value) = Nobody
    BY <1>2, Zenon DEF Find
  <2> QED
    BY <1>2, <2>1, NobodyIsNoId
<1> QED
  BY <1>1, <1>2

LEMMA IndexedInv == IndInv => Indexed
<1> SUFFICES ASSUME IndInv PROVE Indexed
  OBVIOUS
<1>1. ASSUME NEW e \in Emails
      PROVE  /\ accountOf[e] \in Ids \cup {Nobody}
             /\ \A i \in Ids : accountOf[e] = i <=> Holds(i, "email", e)
  <2>1. accountOf[e] = Find("email", e)
    BY DEF accountOf
  <2>2. \A i \in Ids : \A j \in Ids : Holds(i, "email", e) /\ Holds(j, "email", e) => i = j
    BY DEF IndInv, OneAccountPerEmail, Holds
  <2> QED
    BY <2>1, <2>2, FindsTheHolder
<1>2. ASSUME NEW s \in Sites
      PROVE  /\ ownerOf[s] \in Ids \cup {Nobody}
             /\ \A i \in Ids : ownerOf[s] = i <=> Holds(i, "frontendUrl", s)
  <2>1. ownerOf[s] = Find("frontendUrl", s)
    BY DEF ownerOf
  <2>2. s # NoSite
    BY NamesAssumption
  <2>3. \A i \in Ids : \A j \in Ids :
          Holds(i, "frontendUrl", s) /\ Holds(j, "frontendUrl", s) => i = j
    BY <2>2 DEF IndInv, OneCoachPerSite, Holds
  <2> QED
    BY <2>1, <2>3, FindsTheHolder
<1> QED
  BY <1>1, <1>2 DEF Indexed

LEMMA IndexedNext == IndInv' => Indexed'
BY IndexedInv, PTL

\* A coach is in the register exactly when her row is there.
LEMMA MemberExists ==
  ASSUME IndInv, NEW i \in Ids
  PROVE  Registry!Member(i) <=> Exists(i)
<1>1. \A e \in Emails : accountOf[e] = i <=> Holds(i, "email", e)
  BY IndexedInv DEF Indexed
<1>2. Exists(i) => coaches[i].email \in Emails
  BY RowShape DEF IndInv, Rows
<1> QED
  BY <1>1, <1>2 DEF Registry!Member, Holds

\* The insert enters the coach: her email and her site were nobody's.
LEMMA CreateJoins ==
  ASSUME IndInv, SitesInv, IndInv', NEW r \in Requests, CreateCoach(r),
         Unique(r, request[r].email, request[r].frontendUrl)
  PROVE  /\ request[r].email \in Emails
         /\ request[r].frontendUrl \in Known \cap Sites
         /\ Registry!Join(r, request[r].email, request[r].frontendUrl)
<1> DEFINE email == request[r].email
           site == request[r].frontendUrl
           row == [email |-> email, frontendUrl |-> site]
<1>1. /\ r \in Ids /\ At(r, "accept", "create") /\ UNCHANGED allowed
      /\ coaches' = [coaches EXCEPT ![r] = row]
  BY DEF CreateCoach, Ids
<1>2. email \in Emails /\ site \in Sites /\ site # NoSite /\ email # Nobody
  BY <1>1, NamesAssumption DEF IndInv, OwnRow, At
<1>3. ~ Exists(r)
  BY <1>1 DEF IndInv, OwnRow, At
<1>4. site \in Known
  BY <1>1 DEF SitesInv, PastLookUp
<1>5. Find("email", email) = Nobody /\ Find("frontendUrl", site) = Nobody
  <2>1. accountOf[email] # r /\ ownerOf[site] # r
    BY <1>1, <1>2, <1>3, IndexedInv DEF Indexed, Holds
  <2>2. accountOf[email] = Find("email", email) /\ ownerOf[site] = Find("frontendUrl", site)
    BY <1>2 DEF accountOf, ownerOf
  <2> QED
    BY <1>2, <2>1, <2>2 DEF Unique
<1>6. /\ coaches'[r] = row
      /\ \A j \in Ids : j # r => coaches'[j] = coaches[j]
  BY <1>1 DEF IndInv, TypeOK
<1>7. Exists(r)' /\ \A j \in Ids : j # r => (Exists(j)' <=> Exists(j))
  BY <1>2, <1>6 DEF Exists, NoCoach
<1>8. \A j \in Ids : \A v :
        /\ Holds(j, "email", v)' <=> Holds(j, "email", v) \/ (j = r /\ v = email)
        /\ Holds(j, "frontendUrl", v)' <=> Holds(j, "frontendUrl", v) \/ (j = r /\ v = site)
  BY <1>3, <1>6, <1>7 DEF Holds
<1>9. accountOf' = [accountOf EXCEPT ![email] = r]
  <2>1. ASSUME NEW e \in Emails PROVE accountOf'[e] = IF e = email THEN r ELSE accountOf[e]
    <3>1. CASE e = email
      BY <1>1, <1>8, <3>1, IndexedNext DEF Indexed
    <3>2. CASE e # email
      <4>1. \A i \in Ids : accountOf'[e] = i <=> accountOf[e] = i
        BY <1>8, <3>2, IndexedInv, IndexedNext DEF Indexed
      <4>2. accountOf'[e] \in Ids \cup {Nobody} /\ accountOf[e] \in Ids \cup {Nobody}
        BY IndexedInv, IndexedNext DEF Indexed
      <4> QED
        BY <3>2, <4>1, <4>2
    <3> QED
      BY <3>1, <3>2
  <2>2. accountOf = [e \in Emails |-> accountOf[e]] /\ accountOf' = [e \in Emails |-> accountOf'[e]]
    BY DEF accountOf
  <2> QED
    BY <2>1, <2>2
<1>10. ownerOf' = [ownerOf EXCEPT ![site] = r]
  <2>1. ASSUME NEW s \in Sites PROVE ownerOf'[s] = IF s = site THEN r ELSE ownerOf[s]
    <3>1. CASE s = site
      BY <1>1, <1>8, <3>1, IndexedNext DEF Indexed
    <3>2. CASE s # site
      <4>1. \A i \in Ids : ownerOf'[s] = i <=> ownerOf[s] = i
        BY <1>8, <3>2, IndexedInv, IndexedNext DEF Indexed
      <4>2. ownerOf'[s] \in Ids \cup {Nobody} /\ ownerOf[s] \in Ids \cup {Nobody}
        BY IndexedInv, IndexedNext DEF Indexed
      <4> QED
        BY <3>2, <4>1, <4>2
    <3> QED
      BY <3>1, <3>2
  <2>2. ownerOf = [s \in Sites |-> ownerOf[s]] /\ ownerOf' = [s \in Sites |-> ownerOf'[s]]
    BY DEF ownerOf
  <2> QED
    BY <2>1, <2>2
<1>11. accountOf[email] = Nobody /\ ownerOf[site] = Nobody
  BY <1>2, <1>5 DEF accountOf, ownerOf
<1>12. (Known \cap Sites)' = Known \cap Sites
  BY <1>1 DEF Known
<1>13. ~ Registry!Member(r)
  BY <1>1, <1>3, MemberExists
<1> QED
  BY <1>2, <1>4, <1>9, <1>10, <1>11, <1>12, <1>13 DEF Registry!Join

\* The update moves a coach: the site was nobody's, the one she had is nobody's
\* now; an update to the site she has already changes nothing.
LEMMA UpdateMoves ==
  ASSUME IndInv, SitesInv, IndInv', NEW r \in Requests, At(r, "setUrl", "update"),
         NEW i, i = request[r].coach, NEW site, site = request[r].frontendUrl,
         Exists(i), Unique(i, coaches[i].email, site),
         coaches' = [coaches EXCEPT ![i].frontendUrl = site], UNCHANGED allowed,
         coaches[i].frontendUrl # site
  PROVE  /\ i \in Ids
         /\ site \in Known \cap Sites
         /\ Registry!Move(i, site)
<1>1. i \in Ids /\ site \in Sites /\ site # NoSite
  BY NamesAssumption DEF IndInv, OwnRow, At
<1>2. site \in Known
  BY DEF SitesInv, PastLookUp, At
<1>3. coaches[i] \in Rows
  BY <1>1, RowShape DEF IndInv
<1>4. /\ coaches'[i] = [email |-> coaches[i].email, frontendUrl |-> site]
      /\ coaches'[i].email = coaches[i].email /\ coaches'[i].frontendUrl = site
      /\ \A j \in Ids : j # i => coaches'[j] = coaches[j]
  BY <1>1, <1>3 DEF IndInv, TypeOK, Rows
<1>5. \A j \in Ids : Exists(j)' <=> Exists(j)
  <2>1. coaches[i].email # Nobody
    BY <1>1, RowShape DEF IndInv
  <2> QED
    BY <1>4, <2>1 DEF Exists, NoCoach
<1>6. ownerOf[site] = Nobody
  <2>1. Find("frontendUrl", site) = ownerOf[site]
    BY <1>1 DEF ownerOf
  <2>2. ownerOf[site] # i
    BY <1>1, IndexedInv DEF Indexed, Holds
  <2> QED
    BY <1>1, <2>1, <2>2 DEF Unique
<1>7. accountOf' = accountOf
  <2>1. ASSUME NEW e \in Emails PROVE accountOf'[e] = accountOf[e]
    <3>1. \A j \in Ids : Holds(j, "email", e)' <=> Holds(j, "email", e)
      BY <1>4, <1>5 DEF Holds
    <3>2. \A j \in Ids : accountOf'[e] = j <=> accountOf[e] = j
      BY <3>1, IndexedInv, IndexedNext DEF Indexed
    <3>3. accountOf'[e] \in Ids \cup {Nobody} /\ accountOf[e] \in Ids \cup {Nobody}
      BY IndexedInv, IndexedNext DEF Indexed
    <3> QED
      BY <3>2, <3>3
  <2>2. accountOf = [e \in Emails |-> accountOf[e]] /\ accountOf' = [e \in Emails |-> accountOf'[e]]
    BY DEF accountOf
  <2> QED
    BY <2>1, <2>2
<1>8. ownerOf' = [s \in Sites |-> IF s = site THEN i ELSE IF ownerOf[s] = i THEN Nobody ELSE ownerOf[s]]
  <2>1. ASSUME NEW s \in Sites, s # site, NEW j \in Ids
        PROVE  ownerOf'[s] = j <=> j # i /\ ownerOf[s] = j
    <3>1. Holds(j, "frontendUrl", s)' <=> j # i /\ Holds(j, "frontendUrl", s)
      BY <1>4, <1>5, <2>1 DEF Holds
    <3> QED
      BY <3>1, IndexedInv, IndexedNext DEF Indexed
  <2>2. ASSUME NEW s \in Sites, s # site
        PROVE  ownerOf'[s] = IF ownerOf[s] = i THEN Nobody ELSE ownerOf[s]
    <3>1. ownerOf'[s] \in Ids \cup {Nobody} /\ ownerOf[s] \in Ids \cup {Nobody}
      BY IndexedInv, IndexedNext DEF Indexed
    <3>2. \A j \in Ids : ownerOf'[s] = j <=> j # i /\ ownerOf[s] = j
      BY <2>1, <2>2
    <3> QED
      BY <1>1, <3>1, <3>2
  <2>3. ownerOf'[site] = i
    <3>1. Holds(i, "frontendUrl", site)'
      BY <1>1, <1>4, <1>5 DEF Holds
    <3> QED
      BY <1>1, <3>1, IndexedNext DEF Indexed
  <2>4. ownerOf' = [s \in Sites |-> ownerOf'[s]]
    BY DEF ownerOf
  <2> QED
    BY <2>2, <2>3, <2>4
<1>9. (Known \cap Sites)' = Known \cap Sites
  BY DEF Known
<1>10. Registry!Member(i)
  BY <1>1, MemberExists
<1> QED
  BY <1>1, <1>2, <1>6, <1>7, <1>8, <1>9, <1>10 DEF Registry!Move

\* A step that writes no row shows in the register only when it allows a new origin.
LEMMA OthersLearn ==
  ASSUME UNCHANGED coaches,
         \/ UNCHANGED allowed
         \/ \E site \in Sites : AddOrigin(site) \/ RemoveOrigin(site)
  PROVE  [Registry!Next]_Registry!vars
<1>1. accountOf' = accountOf /\ ownerOf' = ownerOf
  BY DEF accountOf, ownerOf, Find, Holds, Exists
<1>2. CASE (Known \cap Sites)' = Known \cap Sites
  BY <1>1, <1>2 DEF Registry!vars
<1>3. CASE UNCHANGED allowed
  BY <1>2, <1>3 DEF Known
<1>4. ASSUME NEW site \in Sites, RemoveOrigin(site)
      PROVE  [Registry!Next]_Registry!vars
  BY <1>2, <1>4 DEF RemoveOrigin, Known
<1>5. ASSUME NEW site \in Sites, AddOrigin(site)
      PROVE  [Registry!Next]_Registry!vars
  <2>1. (Known \cap Sites)' = (Known \cap Sites) \cup {site}
    BY <1>5 DEF AddOrigin, Known
  <2> QED
    BY <1>1, <2>1 DEF Registry!Learn, Registry!Next
<1> QED
  BY <1>3, <1>4, <1>5

LEMMA RegistryInit == Init => Registry!Init
<1> SUFFICES ASSUME Init PROVE Registry!Init
  OBVIOUS
<1>1. Indexed
  BY IndInvInit, IndexedInv
<1>2. /\ Admin \in Ids
      /\ coaches[Admin] = [email |-> AdminEmail, frontendUrl |-> NoSite]
      /\ \A i \in Ids : Exists(i) <=> i = Admin
  BY NamesAssumption DEF Init, Ids, Exists, NoCoach
<1>3. ASSUME NEW e \in Emails PROVE accountOf[e] = IF e = AdminEmail THEN Admin ELSE Nobody
  <2>1. \A i \in Ids : Holds(i, "email", e) <=> i = Admin /\ e = AdminEmail
    BY <1>2 DEF Holds
  <2> QED
    BY <1>1, <1>2, <2>1 DEF Indexed
<1>4. ASSUME NEW s \in Sites PROVE ownerOf[s] = Nobody
  <2>1. \A i \in Ids : ~ Holds(i, "frontendUrl", s)
    BY <1>2, NamesAssumption DEF Holds
  <2> QED
    BY <1>1, <2>1 DEF Indexed
<1>5. accountOf = [e \in Emails |-> accountOf[e]] /\ ownerOf = [s \in Sites |-> ownerOf[s]]
  BY DEF accountOf, ownerOf
<1> QED
  BY <1>3, <1>4, <1>5 DEF Registry!Init

LEMMA RegistryNext ==
  IndInv /\ SitesInv /\ [Next]_vars => [Registry!Next]_Registry!vars
<1> SUFFICES ASSUME IndInv, SitesInv, [Next]_vars PROVE [Registry!Next]_Registry!vars
  OBVIOUS
<1>0. IndInv'
  BY IndInvNext
<1>1. ASSUME NEW r \in Requests, CreateCoach(r)
      PROVE  [Registry!Next]_Registry!vars
  <2>1. CASE Unique(r, request[r].email, request[r].frontendUrl)
    <3>1. r \in Ids
      BY DEF Ids
    <3> QED
      BY <1>0, <1>1, <2>1, <3>1, CreateJoins DEF Registry!Next
  <2>2. CASE ~ Unique(r, request[r].email, request[r].frontendUrl)
    BY <1>1, <2>2, OthersLearn DEF CreateCoach
  <2> QED
    BY <2>1, <2>2
<1>2. ASSUME NEW r \in Requests, UpdateCoach(r)
      PROVE  [Registry!Next]_Registry!vars
  <2> DEFINE i == request[r].coach
             site == request[r].frontendUrl
  <2>1. At(r, "setUrl", "update") /\ UNCHANGED allowed
    BY <1>2 DEF UpdateCoach
  <2>2. CASE UNCHANGED coaches
    BY <2>1, <2>2, OthersLearn
  <2>3. CASE coaches' # coaches
    <3>1. /\ Exists(i) /\ Unique(i, coaches[i].email, site)
          /\ coaches' = [coaches EXCEPT ![i].frontendUrl = site]
      BY <1>2, <2>3 DEF UpdateCoach
    <3>2. i \in Ids
      BY <2>1 DEF IndInv, OwnRow, At
    <3>3. coaches[i].frontendUrl # site
      <4> SUFFICES ASSUME coaches[i].frontendUrl = site PROVE FALSE
        OBVIOUS
      <4>1. coaches[i] \in Rows
        BY <3>1, <3>2, RowShape DEF IndInv
      <4>2. [coaches[i] EXCEPT !.frontendUrl = site] = coaches[i]
        BY <4>1 DEF Rows
      <4> QED
        BY <2>3, <3>1, <3>2, <4>2 DEF IndInv, TypeOK
    <3> HIDE DEF i, site
    <3>4. i \in Ids /\ site \in Known \cap Sites /\ Registry!Move(i, site)
      BY <1>0, <2>1, <3>1, <3>3, UpdateMoves DEF i, site
    <3> QED
      BY <3>4 DEF Registry!Next
  <2> QED
    BY <2>2, <2>3
<1>3. ASSUME NEW r \in Requests, StartRequest(r)
      PROVE  [Registry!Next]_Registry!vars
  <2>1. UNCHANGED <<coaches, allowed>>
    BY <1>3 DEF StartRequest, Invite, AcceptInvite, SetFrontendUrl
  <2> QED
    BY <2>1, OthersLearn
<1>4. ASSUME NEW r \in Requests, InviteOrigin(r) \/ InviteSite(r) \/ SendInvite(r) \/ SetUrlSite(r)
      PROVE  [Registry!Next]_Registry!vars
  <2>1. UNCHANGED <<coaches, allowed>>
    BY <1>4 DEF InviteOrigin, InviteSite, SendInvite, SetUrlSite
  <2> QED
    BY <2>1, OthersLearn
<1>5. ASSUME NEW invite \in mails, ExpireInvite(invite)
      PROVE  [Registry!Next]_Registry!vars
  BY <1>5, OthersLearn DEF ExpireInvite
<1>6. ASSUME NEW site \in Sites, AddOrigin(site) \/ RemoveOrigin(site)
      PROVE  [Registry!Next]_Registry!vars
  <2>1. UNCHANGED coaches
    BY <1>6 DEF AddOrigin, RemoveOrigin
  <2> QED
    BY <1>6, <2>1, OthersLearn
<1>7. CASE UNCHANGED vars
  BY <1>7, OthersLearn DEF vars
<1> QED
  BY <1>1, <1>2, <1>3, <1>4, <1>5, <1>6, <1>7 DEF Next, RequestStep

\* The coaches that invite, acceptInvite and setFrontendUrl write are a register: an
\* email is one coach's for good, a site one coach's until she moves, and each entry
\* or move is one step of one request, to a site that was allowed.
THEOREM RegistryImplemented == Spec => ImplementsRegistry
<1>1. Init => IndInv /\ SitesInv
  BY IndInvInit, SitesInvInit
<1>2. IndInv /\ SitesInv /\ [Next]_vars => (IndInv /\ SitesInv)'
  BY IndInvNext, SitesInvNext
<1> QED
  BY <1>1, <1>2, RegistryInit, RegistryNext, PTL DEF Spec, ImplementsRegistry, Registry!Spec

================================================================================
