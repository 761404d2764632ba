------------------------ MODULE GoogleConnectionProofs ------------------------
(***************************************************************************)
(* Proofs about GoogleConnection, for any number of coaches, accounts,     *)
(* flows and calls.  IndInv says that whatever is under way for a coach,   *)
(* a flow, a row or a client, holds an account of hers.                    *)
(***************************************************************************)
EXTENDS GoogleConnection, TLAPS

-------------------------------------------------------------------------------
(* Flows *)

\* What FlowInv says of a flow in state s that works with the credentials a.
FlowOK(s, a) ==
    /\ s.pc # "idle" => s.coach \in Coaches
    /\ s.pc \in {"getToken", "userinfo", "upsert", "connected"} => s.account \in Accounts
    /\ s.pc = "userinfo" => a = s.account
    /\ s.pc = "upsert" => s.email \in {s.account, "unknown"}

\* A step of a flow that is not over keeps what is known of all others: their
\* states, their clients, and that a coach has connected an account.
LEMMA FlowChange ==
  ASSUME IndInv, NEW f \in Flows, NEW new \in FlowStates, flow[f].pc # "connected",
         flow' = [flow EXCEPT ![f] = new],
         NEW a \in Accounts \cup {None}, client' = [client EXCEPT ![f] = a], FlowOK(new, a),
         UNCHANGED <<call, events>>
  PROVE  /\ flow' \in [Flows -> FlowStates] /\ FlowInv' /\ CallInv' /\ RoomsInOwnCalendar'
         /\ RoomsAreFound' /\ client' \in [Flows \cup Calls -> Accounts \cup {None}]
         /\ \A c, b : Connected(c, b) => Connected(c, b)'
<1> USE DEF IndInv, TypeOK
<1>1. flow' \in [Flows -> FlowStates] /\ client' \in [Flows \cup Calls -> Accounts \cup {None}]
  OBVIOUS
<1>2. \A g \in Flows \ {f} : flow'[g] = flow[g] /\ client'[g] = client[g]
  OBVIOUS
<1>3. flow'[f] = new /\ client'[f] = a
  OBVIOUS
<1>4. FlowInv'
  BY <1>2, <1>3 DEF FlowInv, FlowOK
<1>5. ASSUME NEW c, NEW b, Connected(c, b) PROVE Connected(c, b)'
  BY <1>2, <1>5 DEF Connected
<1>6. \A k \in Calls : client'[k] = client[k]
  BY IdsAssumption
<1>7. CallInv'
  BY <1>5, <1>6 DEF CallInv
<1>8. RoomsInOwnCalendar'
  BY <1>5 DEF RoomsInOwnCalendar
<1>9. RoomsAreFound'
  BY <1>5 DEF RoomsAreFound
<1>10. QED
  BY <1>1, <1>4, <1>5, <1>7, <1>8, <1>9

\* A flow that is not over and stores nothing leaves the connections alone.
LEMMA FlowChangeInv ==
  ASSUME IndInv, NEW f \in Flows, NEW new \in FlowStates, flow[f].pc # "connected",
         flow' = [flow EXCEPT ![f] = new],
         NEW a \in Accounts \cup {None}, client' = [client EXCEPT ![f] = a], FlowOK(new, a),
         UNCHANGED <<integration, call, events>>
  PROVE  IndInv'
<1>1. /\ flow' \in [Flows -> FlowStates] /\ FlowInv' /\ CallInv' /\ RoomsInOwnCalendar'
      /\ RoomsAreFound' /\ client' \in [Flows \cup Calls -> Accounts \cup {None}]
      /\ \A c, b : Connected(c, b) => Connected(c, b)'
  BY FlowChange
<1>2. IntegrationInv'
  BY <1>1 DEF IndInv, IntegrationInv
<1>3. StatusNamesTheAccount'
  BY DEF IndInv, StatusNamesTheAccount
<1>4. QED
  BY <1>1, <1>2, <1>3 DEF IndInv, TypeOK

\* Every step of the connect flow keeps the inductive invariant.
LEMMA FlowStepInv ==
  ASSUME IndInv, NEW f \in Flows, FlowStep(f)
  PROVE  IndInv'
<1> DEFINE s == flow[f]
           a == client[f]
<1>0. /\ s \in FlowStates /\ a \in Accounts \cup {None} /\ FlowOK(s, a)
      /\ flow \in [Flows -> FlowStates] /\ client \in [Flows \cup Calls -> Accounts \cup {None}]
  BY DEF IndInv, TypeOK, FlowInv, FlowOK
<1>c. client = [client EXCEPT ![f] = a]
  BY <1>0
<1>1. CASE ConnectToken(f)
  <2>1. PICK c \in Coaches : flow' = [flow EXCEPT ![f].pc = "state", ![f].coach = c]
    BY <1>1 DEF ConnectToken
  <2> DEFINE new == [s EXCEPT !.pc = "state", !.coach = c]
  <2>2. new \in FlowStates /\ flow' = [flow EXCEPT ![f] = new] /\ s.pc # "connected"
    BY <1>0, <1>1, <2>1 DEF ConnectToken, FlowStates, FlowSteps
  <2>3. FlowOK(new, a)
    BY <1>0, <2>2 DEF FlowOK, FlowStates
  <2>4. QED
    BY <1>0, <1>1, <1>c, <2>2, <2>3, FlowChangeInv DEF ConnectToken
<1>2. CASE ExpireState(f)
  <2> DEFINE new == [s EXCEPT !.expired = TRUE]
  <2>1. new \in FlowStates /\ flow' = [flow EXCEPT ![f] = new] /\ s.pc # "connected"
    BY <1>0, <1>2 DEF ExpireState, FlowStates
  <2>2. FlowOK(new, a)
    BY <1>0, <1>2 DEF FlowOK, FlowStates, ExpireState
  <2>3. QED
    BY <1>0, <1>2, <1>c, <2>1, <2>2, FlowChangeInv DEF ExpireState
<1>3. CASE Connect(f)
  <2> DEFINE step == IF StateVerified(f) THEN "consent" ELSE "rejected"
             new == [s EXCEPT !.pc = step]
  <2>1. new \in FlowStates /\ flow' = [flow EXCEPT ![f] = new] /\ s.pc # "connected"
    BY <1>0, <1>3 DEF Connect, Goto, FlowStates, FlowSteps
  <2>2. FlowOK(new, a)
    BY <1>0, <1>3 DEF FlowOK, FlowStates, Connect
  <2>3. QED
    BY <1>0, <1>3, <1>c, <2>1, <2>2, FlowChangeInv DEF Connect
<1>4. CASE Consent(f)
  <2>1. PICK b \in Accounts \cup {None} : flow' = [flow EXCEPT ![f].pc = "callback", ![f].account = b]
    BY <1>4 DEF Consent
  <2> DEFINE new == [s EXCEPT !.pc = "callback", !.account = b]
  <2>2. new \in FlowStates /\ flow' = [flow EXCEPT ![f] = new] /\ s.pc # "connected"
    BY <1>0, <1>4, <2>1 DEF Consent, FlowStates, FlowSteps
  <2>3. FlowOK(new, a)
    BY <1>0, <1>4, <2>2 DEF FlowOK, FlowStates, Consent
  <2>4. QED
    BY <1>0, <1>4, <1>c, <2>2, <2>3, FlowChangeInv DEF Consent
<1>5. CASE Callback(f)
  <2> DEFINE step == IF StateVerified(f) /\ s.account # None THEN "getToken" ELSE "rejected"
             new == [s EXCEPT !.pc = step]
  <2>1. new \in FlowStates /\ flow' = [flow EXCEPT ![f] = new] /\ s.pc # "connected"
    BY <1>0, <1>5 DEF Callback, Goto, FlowStates, FlowSteps
  <2>2. FlowOK(new, a)
    BY <1>0, <1>5 DEF FlowOK, FlowStates, Callback
  <2>3. QED
    BY <1>0, <1>5, <1>c, <2>1, <2>2, FlowChangeInv DEF Callback
<1>6. CASE GetToken(f)
  <2> DEFINE new == [s EXCEPT !.pc = "userinfo"]
  <2>1. /\ new \in FlowStates /\ flow' = [flow EXCEPT ![f] = new] /\ s.pc # "connected"
        /\ s.account \in Accounts /\ client' = [client EXCEPT ![f] = s.account]
    BY <1>0, <1>6 DEF GetToken, Goto, FlowStates, FlowSteps, FlowOK, SetCredentials, NewOAuthClient
  <2>2. FlowOK(new, s.account)
    BY <1>0, <1>6, <2>1 DEF FlowOK, FlowStates, GetToken
  <2>3. QED
    BY <1>6, <2>1, <2>2, FlowChangeInv DEF GetToken
<1>7. CASE UserInfo(f)
  <2>1. PICK email \in {a, "unknown"} : flow' = [flow EXCEPT ![f].pc = "upsert", ![f].email = email]
    BY <1>7 DEF UserInfo, NewOAuthClient
  <2> DEFINE new == [s EXCEPT !.pc = "upsert", !.email = email]
  <2>2. a = s.account /\ s.account \in Accounts /\ s.coach \in Coaches
    BY <1>0, <1>7 DEF UserInfo, FlowOK
  <2>3. new \in FlowStates /\ flow' = [flow EXCEPT ![f] = new] /\ s.pc # "connected"
    BY <1>0, <1>7, <2>1, <2>2 DEF UserInfo, FlowStates, FlowSteps
  <2>4. FlowOK(new, a)
    BY <1>0, <2>1, <2>2, <2>3 DEF FlowOK, FlowStates
  <2>5. QED
    BY <1>0, <1>7, <1>c, <2>3, <2>4, FlowChangeInv DEF UserInfo
<1>8. CASE GoogleRefuses(f)
  <2> DEFINE new == [s EXCEPT !.pc = "rejected"]
  <2>1. new \in FlowStates /\ flow' = [flow EXCEPT ![f] = new] /\ s.pc # "connected"
    BY <1>0, <1>8 DEF GoogleRefuses, Goto, FlowStates, FlowSteps
  <2>2. FlowOK(new, a)
    BY <1>0, <1>8 DEF FlowOK, FlowStates, GoogleRefuses
  <2>3. QED
    BY <1>0, <1>8, <1>c, <2>1, <2>2, FlowChangeInv DEF GoogleRefuses
<1>9. CASE StoreIntegration(f)
  <2> DEFINE new == [s EXCEPT !.pc = "connected"]
             row == [account |-> s.account, connectedEmail |-> s.email]
  <2>1. /\ new \in FlowStates /\ flow' = [flow EXCEPT ![f] = new] /\ s.pc = "upsert"
        /\ s.account \in Accounts /\ s.coach \in Coaches /\ s.email \in {s.account, "unknown"}
    BY <1>0, <1>9 DEF StoreIntegration, Goto, FlowStates, FlowSteps, FlowOK
  <2>2. FlowOK(new, a)
    BY <1>0, <2>1 DEF FlowOK, FlowStates
  <2>3. /\ flow' \in [Flows -> FlowStates] /\ FlowInv' /\ CallInv' /\ RoomsInOwnCalendar'
        /\ RoomsAreFound' /\ client' \in [Flows \cup Calls -> Accounts \cup {None}]
        /\ \A c, b : Connected(c, b) => Connected(c, b)'
    BY <1>0, <1>9, <1>c, <2>1, <2>2, FlowChange DEF StoreIntegration
  <2>4. integration' = [integration EXCEPT ![s.coach] = row] /\ row \in Integrations
    BY <1>9, <2>1 DEF StoreIntegration, Upserted, Integrations
  <2>5. flow'[f] = new /\ new.pc = "connected" /\ new.coach = s.coach /\ new.account = s.account
    BY <1>0, <2>1 DEF FlowStates
  <2>6. integration' \in [Coaches -> Integrations \cup {NotConnected}]
    BY <2>4 DEF IndInv, TypeOK
  <2>7. \A c \in Coaches : integration'[c] = IF c = s.coach THEN row ELSE integration[c]
    BY <2>1, <2>4 DEF IndInv, TypeOK
  <2>8. IntegrationInv'
    <3> SUFFICES ASSUME NEW c \in Coaches, integration'[c] # NotConnected
                 PROVE  Connected(c, integration[c].account)'
      BY DEF IntegrationInv
    <3>1. CASE c = s.coach
      <4>1. integration'[c].account = s.account
        BY <2>7, <3>1
      <4>2. /\ flow'[f].pc = "connected" /\ flow'[f].coach = c
            /\ flow'[f].account = integration'[c].account
        BY <2>5, <3>1, <4>1
      <4>3. QED
        BY <4>2 DEF Connected
    <3>2. CASE c # s.coach
      <4>1. integration'[c] = integration[c]
        BY <2>7, <3>2
      <4>2. Connected(c, integration[c].account)
        BY <4>1 DEF IndInv, IntegrationInv
      <4>3. QED
        BY <2>3, <4>1, <4>2 DEF Connected
    <3>3. QED
      BY <3>1, <3>2
  <2>9. StatusNamesTheAccount'
    BY <2>1, <2>7 DEF IndInv, StatusNamesTheAccount
  <2>10. QED
    BY <1>9, <2>3, <2>6, <2>8, <2>9 DEF IndInv, TypeOK, StoreIntegration
<1>10. QED
  BY <1>1, <1>2, <1>3, <1>4, <1>5, <1>6, <1>7, <1>8, <1>9 DEF FlowStep

-------------------------------------------------------------------------------
(* Calls *)

\* getAuthenticatedClient gives a call the account of the coach's row.
LEMMA GetAuthenticatedClientInv ==
  ASSUME IndInv, NEW k \in Calls, NEW c \in Coaches, NEW step \in {"insert", "delete"},
         NEW e \in Calls \cup {None}, GetAuthenticatedClient(k, c, step, e),
         step = "delete" => e # None /\ call[e].pc = "created" /\ call[e].coach = c
  PROVE  IndInv'
<1> USE DEF IndInv, TypeOK
<1> DEFINE pc == IF integration[c] = NotConnected THEN "failed" ELSE step
           new == [pc |-> pc, coach |-> c, event |-> e]
<1>1. /\ call' = [call EXCEPT ![k] = new] /\ call[k].pc = "idle"
      /\ UNCHANGED <<integration, flow, events>>
  BY DEF GetAuthenticatedClient
<1>2. new \in CallStates
  BY DEF CallStates, CallSteps
<1>3. integration[c] # NotConnected =>
        /\ integration[c].account \in Accounts
        /\ Connected(c, integration[c].account)
        /\ client' = [client EXCEPT ![k] = integration[c].account]
  BY DEF Integrations, IntegrationInv, GetAuthenticatedClient, SetCredentials, NewOAuthClient
<1>4. integration[c] = NotConnected => client' = client
  BY DEF GetAuthenticatedClient
<1>5. TypeOK'
  BY <1>1, <1>2, <1>3, <1>4
<1>6. \A x \in Flows \cup Calls : x # k => client'[x] = client[x]
  BY <1>3, <1>4
<1>7. FlowInv'
  BY <1>1, <1>6, IdsAssumption DEF FlowInv
<1>8. call'[k] = new /\ \A j \in Calls \ {k} : call'[j] = call[j]
  BY <1>1
<1>9. CallInv'
  <2> SUFFICES ASSUME NEW j \in Calls
               PROVE  /\ call'[j].pc \in {"idle", "insert"} => events'[j] = NoEvent
                      /\ call'[j].pc \in {"insert", "delete"} =>
                           /\ call'[j].coach \in Coaches
                           /\ client'[j] \in Accounts
                           /\ Connected(call[j].coach, client[j])'
                      /\ call'[j].pc = "created" =>
                           events'[j] # NoEvent /\ events'[j].coach = call'[j].coach
                      /\ call'[j].pc \in {"delete", "notFound"} =>
                           /\ call'[j].event \in Calls
                           /\ events'[call'[j].event] # NoEvent
                           /\ events'[call'[j].event].coach = call'[j].coach
    BY DEF CallInv
  <2>1. CASE j # k
    BY <1>1, <1>6, <1>8, <2>1 DEF CallInv, Connected
  <2>2. CASE j = k
    <3>1. events[k] = NoEvent
      BY <1>1 DEF CallInv
    <3>2. pc # "failed" => client'[k] = integration[c].account
      BY <1>3
    <3>3. pc # "failed" => client'[k] \in Accounts /\ Connected(c, client[k])'
      BY <1>1, <1>3, <3>2 DEF Connected
    <3>4. pc = "delete" => e \in Calls /\ events[e] # NoEvent /\ events[e].coach = c
      BY DEF CallInv
    <3>5. new.pc = pc /\ new.coach = c /\ new.event = e /\ pc \in {"failed", step}
      OBVIOUS
    <3>6. Connected(call[k].coach, client[k])' \/ pc = "failed"
      BY <1>8, <3>3, <3>5 DEF Connected
    <3>7. QED
      BY <1>1, <1>8, <2>2, <3>1, <3>3, <3>4, <3>5, <3>6
  <2>3. QED
    BY <2>1, <2>2
<1>10. IntegrationInv' /\ StatusNamesTheAccount' /\ RoomsInOwnCalendar'
  BY <1>1 DEF IntegrationInv, StatusNamesTheAccount, RoomsInOwnCalendar, Connected
<1>11. RoomsAreFound'
  BY <1>1, <1>8 DEF RoomsAreFound, Connected
<1>12. QED
  BY <1>5, <1>7, <1>9, <1>10, <1>11

\* A call that leaves its client alone and goes on, with the events after it.
LEMMA CallOutcome ==
  ASSUME IndInv, NEW k \in Calls, NEW pc \in {"created", "deleted", "notFound", "failed"},
         call' = [call EXCEPT ![k].pc = pc], UNCHANGED <<integration, flow, client>>,
         events' \in [Calls -> Events \cup {NoEvent}],
         \* No event is lost, or changes hands, or comes back to life.
         \A e \in Calls : events[e] # NoEvent =>
             /\ events'[e] # NoEvent /\ events'[e].coach = events[e].coach
             /\ events'[e].account = events[e].account
             /\ events[e].state = "deleted" => events'[e].state = "deleted",
         \* Only a call that may insert brings one, in its client's calendar.
         \A e \in Calls : events'[e] # NoEvent /\ events[e] = NoEvent =>
             e = k /\ Connected(events'[e].coach, events'[e].account),
         pc = "created" => events'[k] # NoEvent /\ events'[k].coach = call[k].coach,
         pc = "notFound" =>
             /\ call[k].pc = "delete"
             /\ \/ events'[call[k].event].state = "deleted"
                \/ events'[call[k].event].account # client[k]
  PROVE  IndInv'
<1> USE DEF IndInv, TypeOK
<1>1. call'[k] = [call[k] EXCEPT !.pc = pc] /\ \A j \in Calls \ {k} : call'[j] = call[j]
  OBVIOUS
<1>2. call[k] \in CallStates
  OBVIOUS
<1>3. call'[k].pc = pc /\ call'[k].coach = call[k].coach /\ call'[k].event = call[k].event
  BY <1>1, <1>2 DEF CallStates
<1>4. TypeOK'
  <2>1. [call[k] EXCEPT !.pc = pc] \in CallStates
    BY <1>2 DEF CallStates, CallSteps
  <2>2. QED
    BY <2>1
<1>5. FlowInv' /\ IntegrationInv' /\ StatusNamesTheAccount'
  BY DEF FlowInv, IntegrationInv, StatusNamesTheAccount, Connected
<1>6. RoomsInOwnCalendar'
  BY DEF RoomsInOwnCalendar, Connected
<1>7. CallInv'
  <2> SUFFICES ASSUME NEW j \in Calls
               PROVE  /\ call'[j].pc \in {"idle", "insert"} => events'[j] = NoEvent
                      /\ call'[j].pc \in {"insert", "delete"} =>
                           /\ call'[j].coach \in Coaches
                           /\ client'[j] \in Accounts
                           /\ Connected(call[j].coach, client[j])'
                      /\ call'[j].pc = "created" =>
                           events'[j] # NoEvent /\ events'[j].coach = call'[j].coach
                      /\ call'[j].pc \in {"delete", "notFound"} =>
                           /\ call'[j].event \in Calls
                           /\ events'[call'[j].event] # NoEvent
                           /\ events'[call'[j].event].coach = call'[j].coach
    BY DEF CallInv
  <2>1. CASE j # k
    <3>1. call'[j] = call[j]
      BY <1>1, <2>1
    <3>2. call[j].pc \in {"idle", "insert"} => events'[j] = NoEvent
      BY <2>1 DEF CallInv
    <3>3. call[j].pc \in {"insert", "delete"} =>
            /\ call[j].coach \in Coaches /\ client[j] \in Accounts
            /\ Connected(call[j].coach, client[j])'
      BY <3>1 DEF CallInv, Connected
    <3>4. call[j].pc = "created" => events'[j] # NoEvent /\ events'[j].coach = call[j].coach
      BY DEF CallInv
    <3>5. call[j].pc \in {"delete", "notFound"} =>
            /\ call[j].event \in Calls
            /\ events'[call[j].event] # NoEvent
            /\ events'[call[j].event].coach = call[j].coach
      BY DEF CallInv
    <3>6. QED
      BY <3>1, <3>2, <3>3, <3>4, <3>5
  <2>2. CASE j = k
    <3>1. pc = "notFound" => /\ call[k].event \in Calls
                             /\ events'[call[k].event] # NoEvent
                             /\ events'[call[k].event].coach = call[k].coach
      BY DEF CallInv
    <3>2. QED
      BY <1>3, <2>2, <3>1
  <2>3. QED
    BY <2>1, <2>2
<1>8. RoomsAreFound'
  <2> SUFFICES ASSUME NEW j \in Calls, call'[j].pc = "notFound"
               PROVE  LET e == events[call[j].event]
                      IN (e.state = "deleted" \/ \E a \in Accounts \ {e.account} : Connected(e.coach, a))'
    BY DEF RoomsAreFound
  <2> DEFINE i == call[j].event
  <2>1. CASE j # k
    <3>1. call'[j] = call[j] /\ call[j].pc = "notFound"
      BY <1>1, <2>1
    <3>2. i \in Calls /\ events[i] # NoEvent
      BY <3>1 DEF CallInv
    <3>3. events[i].state = "deleted" \/ \E a \in Accounts \ {events[i].account} : Connected(events[i].coach, a)
      BY <3>1 DEF RoomsAreFound
    <3>4. QED
      BY <3>1, <3>2, <3>3 DEF Connected
  <2>2. CASE j = k
    <3>1. pc = "notFound" /\ call'[j].event = i
      BY <1>3, <2>2
    <3>2. i \in Calls /\ events[i] # NoEvent /\ events[i].coach = call[k].coach
      BY <2>2, <3>1 DEF CallInv
    <3>3. client[k] \in Accounts /\ Connected(call[k].coach, client[k])
      BY <3>1 DEF CallInv
    <3>4. events'[i].state = "deleted" \/ events'[i].account # client[k]
      BY <2>2, <3>1
    <3>5. QED
      BY <3>1, <3>2, <3>3, <3>4 DEF Connected
  <2>3. QED
    BY <2>1, <2>2
<1>9. QED
  BY <1>4, <1>5, <1>6, <1>7, <1>8

\* What Google does to the calendar for a call that is under way.
LEMMA InsertedEvents ==
  ASSUME IndInv, NEW k \in Calls, call[k].pc = "insert", Inserted(k)
  PROVE  /\ events' \in [Calls -> Events \cup {NoEvent}]
         /\ events[k] = NoEvent
         /\ \A e \in Calls \ {k} : events'[e] = events[e]
         /\ events'[k] = [state |-> "live", coach |-> call[k].coach, account |-> client[k]]
         /\ events'[k] # NoEvent /\ events'[k].coach = call[k].coach
         /\ Connected(events'[k].coach, events'[k].account)
<1> DEFINE new == [state |-> "live", coach |-> call[k].coach, account |-> client[k]]
<1>1. /\ events[k] = NoEvent /\ call[k].coach \in Coaches /\ client[k] \in Accounts
      /\ Connected(call[k].coach, client[k])
  BY DEF IndInv, CallInv
<1>2. events' = [events EXCEPT ![k] = new]
  BY DEF Inserted, AccountOf, NewOAuthClient
<1>3. new \in Events
  BY <1>1 DEF Events
<1>4. new.state = "live" /\ NoEvent.state = "none" /\ new.coach = call[k].coach /\ new.account = client[k]
  BY DEF NoEvent
<1>5. events'[k] = new /\ \A e \in Calls \ {k} : events'[e] = events[e]
  BY <1>2 DEF IndInv, TypeOK
<1>6. events' \in [Calls -> Events \cup {NoEvent}]
  BY <1>2, <1>3 DEF IndInv, TypeOK
<1>7. Connected(events'[k].coach, events'[k].account)
  BY <1>1, <1>4, <1>5
<1>8. QED
  BY <1>1, <1>4, <1>5, <1>6, <1>7

\* A deletion ends one event and touches no other.
LEMMA DeletedEvents ==
  ASSUME IndInv, NEW k \in Calls, call[k].pc = "delete", Deleted(k)
  PROVE  /\ events' \in [Calls -> Events \cup {NoEvent}]
         /\ \A e \in Calls : events[e] = NoEvent => events'[e] = NoEvent
         /\ \A e \in Calls : events[e] # NoEvent =>
               /\ events'[e] # NoEvent /\ events'[e].coach = events[e].coach
               /\ events'[e].account = events[e].account
               /\ events[e].state = "deleted" => events'[e].state = "deleted"
<1> DEFINE i == call[k].event
           new == [events[i] EXCEPT !.state = "deleted"]
<1>1. i \in Calls /\ events[i] # NoEvent
  BY DEF IndInv, CallInv
<1>2. events[i] \in Events
  BY <1>1 DEF IndInv, TypeOK
<1>3. events' = [events EXCEPT ![i] = new]
  BY DEF Deleted
<1>4. /\ new \in Events /\ new.state = "deleted"
      /\ new.coach = events[i].coach /\ new.account = events[i].account
  BY <1>2 DEF Events
<1>5. NoEvent.state = "none"
  BY DEF NoEvent
<1>6. events'[i] = new /\ \A e \in Calls \ {i} : events'[e] = events[e]
  BY <1>1, <1>3 DEF IndInv, TypeOK
<1>7. events' \in [Calls -> Events \cup {NoEvent}]
  BY <1>3, <1>4 DEF IndInv, TypeOK
<1>8. QED
  BY <1>1, <1>4, <1>5, <1>6, <1>7

\* Every step of createMeetEvent and deleteEvent keeps the inductive invariant.
LEMMA CallStepInv ==
  ASSUME IndInv, NEW k \in Calls, CallStep(k)
  PROVE  IndInv'
<1>1. ASSUME NEW c \in Coaches, CreateMeetEvent(k, c) PROVE IndInv'
  BY <1>1, GetAuthenticatedClientInv DEF CreateMeetEvent
<1>2. ASSUME NEW c \in Coaches, NEW e \in Calls, DeleteEvent(k, c, e) PROVE IndInv'
  <2>1. e # None
    BY IdsAssumption
  <2>2. QED
    BY <1>2, <2>1, GetAuthenticatedClientInv DEF DeleteEvent
<1>3. CASE InsertEvent(k)
  BY <1>3, InsertedEvents, CallOutcome DEF InsertEvent
<1>4. CASE DeleteFromCalendar(k)
  <2>1. CASE Found(k)
    BY <1>4, <2>1, DeletedEvents, CallOutcome DEF DeleteFromCalendar
  <2>2. CASE ~ Found(k)
    <3> DEFINE i == call[k].event
    <3>1. i \in Calls /\ events[i] # NoEvent /\ events[i] \in Events
      BY <1>4 DEF DeleteFromCalendar, IndInv, CallInv, TypeOK
    <3>2. events[i].state = "deleted" \/ events[i].account # client[k]
      BY <2>2, <3>1 DEF Found, AccountOf, NewOAuthClient, Events
    <3>3. call' = [call EXCEPT ![k].pc = "notFound"] /\ call[k].pc = "delete" /\ UNCHANGED events
      BY <1>4, <2>2 DEF DeleteFromCalendar
    <3>4. events' \in [Calls -> Events \cup {NoEvent}]
      BY <3>3 DEF IndInv, TypeOK
    <3>5. QED
      BY <1>4, <3>2, <3>3, <3>4, CallOutcome DEF DeleteFromCalendar
  <2>3. QED
    BY <2>1, <2>2
<1>5. CASE CallFails(k)
  <2>1. CASE call[k].pc = "insert" /\ Inserted(k)
    BY <1>5, <2>1, InsertedEvents, CallOutcome DEF CallFails
  <2>2. CASE call[k].pc = "delete" /\ Found(k) /\ Deleted(k)
    BY <1>5, <2>2, DeletedEvents, CallOutcome DEF CallFails
  <2>3. CASE UNCHANGED events
    <3>1. events' \in [Calls -> Events \cup {NoEvent}]
      BY <2>3 DEF IndInv, TypeOK
    <3>2. QED
      BY <1>5, <2>3, <3>1, CallOutcome DEF CallFails
  <2>4. QED
    BY <1>5, <2>1, <2>2, <2>3 DEF CallFails
<1>6. QED
  BY <1>1, <1>2, <1>3, <1>4, <1>5 DEF CallStep

-------------------------------------------------------------------------------
(* The specification *)

\* Nobody is connected when the service first starts.
LEMMA InitInv == Init => IndInv
<1> SUFFICES ASSUME Init PROVE IndInv
  OBVIOUS
<1>1. NewFlow \in FlowStates /\ NewFlow.pc = "idle"
  BY DEF NewFlow, FlowStates, FlowSteps
<1>2. NewCall \in CallStates /\ NewCall.pc = "idle"
  BY DEF NewCall, CallStates, CallSteps
<1>3. TypeOK
  BY <1>1, <1>2 DEF Init, TypeOK
<1>4. FlowInv /\ IntegrationInv /\ StatusNamesTheAccount
  BY <1>1 DEF Init, FlowInv, IntegrationInv, StatusNamesTheAccount
<1>5. CallInv /\ RoomsInOwnCalendar /\ RoomsAreFound
  BY <1>2 DEF Init, CallInv, RoomsInOwnCalendar, RoomsAreFound
<1>6. QED
  BY <1>3, <1>4, <1>5 DEF IndInv

\* Whatever is under way for a coach, a flow, a row or a client, holds an account
\* of hers, for every interleaving of connect flows and calendar calls.
THEOREM Invariance == Spec => []IndInv
<1>1. IndInv /\ [Next]_vars => IndInv'
  <2> SUFFICES ASSUME IndInv, [Next]_vars PROVE IndInv'
    OBVIOUS
  <2>1. CASE UNCHANGED vars
    BY <2>1 DEF vars, IndInv, TypeOK, FlowInv, IntegrationInv, CallInv, Connected,
                RoomsInOwnCalendar, StatusNamesTheAccount, RoomsAreFound
  <2>2. QED
    BY <2>1, FlowStepInv, CallStepInv DEF Next
<1>2. QED
  BY <1>1, InitInv, PTL DEF Spec

\* A Meet room is created in a calendar that the booking's own coach connected.
THEOREM RoomsStayInOwnCalendar == Spec => []RoomsInOwnCalendar
BY Invariance, PTL DEF IndInv

\* GET status never names another account than the one that is used.
THEOREM StatusIsTrue == Spec => []StatusNamesTheAccount
BY Invariance, PTL DEF IndInv

\* deleteEvent misses a live room only after the coach has connected a second
\* account.
THEOREM RoomsMissedOnlyAfterSwitch == Spec => []RoomsAreFound
BY Invariance, PTL DEF IndInv

===============================================================================
