--------------------------- MODULE GoogleConnection ---------------------------
(***************************************************************************)
(* The Google accounts of the coaches: the connect flow (google.controller,*)
(* google-oauth.service) that stores an account per coach, and the calls   *)
(* (google-calendar.service) that create and delete events through the     *)
(* account that is stored when they start.                                 *)
(*                                                                         *)
(* One action per stretch of code between two awaits.  Every call builds   *)
(* an OAuth2Client of its own and gives it credentials; Google is external.*)
(* An account stands for its refresh token and for its email address.      *)
(***************************************************************************)

CONSTANTS
    Coaches,
    Accounts,        \* Google accounts a person may sign in with
    Flows,           \* round trips through the consent screen
    Calls,           \* calls of createMeetEvent and deleteEvent
    None

ASSUME IdsAssumption ==
    /\ None \notin Coaches \cup Accounts \cup Calls
    /\ Flows \cap Calls = {}

VARIABLES
    integration,     \* the GoogleIntegration table, per coach
    flow,            \* per flow: where it is, whose it is, what it holds
    call,            \* per call: the same
    client,          \* per OAuth2Client: the account of its credentials
    events           \* per event: its coach, its account and whether it exists

vars == <<integration, flow, call, client, events>>

-------------------------------------------------------------------------------
(* Types.  The event inserted by call k has id k. *)

Integrations == [account : Accounts, connectedEmail : Accounts \cup {"unknown"}]

NotConnected == [account |-> None]

FlowSteps == {"idle", "state", "consent", "callback", "getToken", "userinfo", "upsert",
              "connected", "rejected"}

FlowStates == [pc : FlowSteps, coach : Coaches \cup {None}, expired : BOOLEAN,
               account : Accounts \cup {None}, email : Accounts \cup {"unknown"}]

NewFlow == [pc |-> "idle", coach |-> None, expired |-> FALSE, account |-> None,
            email |-> "unknown"]

CallSteps == {"idle", "insert", "delete", "created", "deleted", "notFound", "failed"}

CallStates == [pc : CallSteps, coach : Coaches \cup {None}, event : Calls \cup {None}]

NewCall == [pc |-> "idle", coach |-> None, event |-> None]

Events == [state : {"live", "deleted"}, coach : Coaches, account : Accounts]

NoEvent == [state |-> "none"]

TypeOK ==
    /\ integration \in [Coaches -> Integrations \cup {NotConnected}]
    /\ flow \in [Flows -> FlowStates]
    /\ call \in [Calls -> CallStates]
    /\ client \in [Flows \cup Calls -> Accounts \cup {None}]
    /\ events \in [Calls -> Events \cup {NoEvent}]

Init ==
    /\ integration = [c \in Coaches |-> NotConnected]
    /\ flow = [f \in Flows |-> NewFlow]
    /\ call = [k \in Calls |-> NewCall]
    /\ client = [x \in Flows \cup Calls |-> None]
    /\ events = [k \in Calls |-> NoEvent]

-------------------------------------------------------------------------------
(* Clients *)

\* Mutant: one client for the whole service.
NewOAuthClientShared(x) == CHOOSE y \in Flows \cup Calls : TRUE

\* newOAuthClient: the client that flow or call x works with.
NewOAuthClient(x) == x

SetCredentials(x, account) == client' = [client EXCEPT ![NewOAuthClient(x)] = account]

-------------------------------------------------------------------------------
(* Connecting *)

Goto(f, step) == flow' = [flow EXCEPT ![f].pc = step]

\* GET connect-token, with a session: the state is signed for the caller.
ConnectToken(f) ==
    /\ flow[f].pc = "idle"
    /\ \E c \in Coaches : flow' = [flow EXCEPT ![f].pc = "state", ![f].coach = c]
    /\ UNCHANGED <<integration, call, client, events>>

\* The five minutes of the state are over.
ExpireState(f) ==
    /\ flow[f].pc \in {"state", "consent", "callback"}
    /\ ~ flow[f].expired
    /\ flow' = [flow EXCEPT ![f].expired = TRUE]
    /\ UNCHANGED <<integration, call, client, events>>

\* verifyGoogleConnectState accepts the state that flow f carries.
StateVerified(f) == ~ flow[f].expired

\* GET connect: the state is verified, then the redirect to Google.
Connect(f) ==
    /\ flow[f].pc = "state"
    /\ Goto(f, IF StateVerified(f) THEN "consent" ELSE "rejected")
    /\ UNCHANGED <<integration, call, client, events>>

\* Google's consent screen: an account is chosen and a code issued, or none.
Consent(f) ==
    /\ flow[f].pc = "consent"
    /\ \E a \in Accounts \cup {None} :
         flow' = [flow EXCEPT ![f].pc = "callback", ![f].account = a]
    /\ UNCHANGED <<integration, call, client, events>>

\* GET callback: the state is verified again, and there must be a code.
Callback(f) ==
    /\ flow[f].pc = "callback"
    /\ Goto(f, IF StateVerified(f) /\ flow[f].account # None THEN "getToken" ELSE "rejected")
    /\ UNCHANGED <<integration, call, client, events>>

\* getToken(code) returns a refresh token, and the client is given it.
GetToken(f) ==
    /\ flow[f].pc = "getToken"
    /\ SetCredentials(f, flow[f].account)
    /\ Goto(f, "userinfo")
    /\ UNCHANGED <<integration, call, events>>

\* userinfo.get() tells the address of the client's account, if it has one.
UserInfo(f) ==
    /\ flow[f].pc = "userinfo"
    /\ \E email \in {client[NewOAuthClient(f)], "unknown"} :
         flow' = [flow EXCEPT ![f].pc = "upsert", ![f].email = email]
    /\ UNCHANGED <<integration, call, client, events>>

\* There is no refresh token, or Google does not answer.
GoogleRefuses(f) ==
    /\ flow[f].pc \in {"getToken", "userinfo"}
    /\ Goto(f, "rejected")
    /\ UNCHANGED <<integration, call, client, events>>

\* Mutant: the update of a connected coach leaves out connectedEmail.
UpsertedTokenOnly(old, f) ==
    [account |-> flow[f].account,
     connectedEmail |-> IF old = NotConnected THEN flow[f].email ELSE old.connectedEmail]

\* The row after the upsert, whatever it was before.
Upserted(old, f) == [account |-> flow[f].account, connectedEmail |-> flow[f].email]

StoreIntegration(f) ==
    /\ flow[f].pc = "upsert"
    /\ integration' = [integration EXCEPT ![flow[f].coach] = Upserted(@, f)]
    /\ Goto(f, "connected")
    /\ UNCHANGED <<call, client, events>>

-------------------------------------------------------------------------------
(* Using the connection *)

\* getAuthenticatedClient, the first await of both calls: 503 without a row.
GetAuthenticatedClient(k, c, step, e) ==
    /\ call[k].pc = "idle"
    /\ IF integration[c] = NotConnected
       THEN /\ call' = [call EXCEPT ![k] = [pc |-> "failed", coach |-> c, event |-> e]]
            /\ UNCHANGED client
       ELSE /\ call' = [call EXCEPT ![k] = [pc |-> step, coach |-> c, event |-> e]]
            /\ SetCredentials(k, integration[c].account)
    /\ UNCHANGED <<integration, flow, events>>

\* createMeetEvent for a booking of coach c.
CreateMeetEvent(k, c) == GetAuthenticatedClient(k, c, "insert", None)

\* deleteEvent of the event e that a booking of coach c is linked to.
DeleteEvent(k, c, e) ==
    /\ call[e].pc = "created"
    /\ call[e].coach = c
    /\ GetAuthenticatedClient(k, c, "delete", e)

AccountOf(k) == client[NewOAuthClient(k)]

\* events.insert into the primary calendar of the client's account.
Inserted(k) ==
    events' = [events EXCEPT ![k] =
        [state |-> "live", coach |-> call[k].coach, account |-> AccountOf(k)]]

InsertEvent(k) ==
    /\ call[k].pc = "insert"
    /\ Inserted(k)
    /\ call' = [call EXCEPT ![k].pc = "created"]
    /\ UNCHANGED <<integration, flow, client>>

Found(k) ==
    LET e == events[call[k].event]
    IN e.state = "live" /\ e.account = AccountOf(k)

Deleted(k) == events' = [events EXCEPT ![call[k].event].state = "deleted"]

\* events.delete in the primary calendar of the client's account.  An event that
\* is not there is logged and otherwise ignored.
DeleteFromCalendar(k) ==
    /\ call[k].pc = "delete"
    /\ IF Found(k)
       THEN /\ Deleted(k)
            /\ call' = [call EXCEPT ![k].pc = "deleted"]
       ELSE /\ call' = [call EXCEPT ![k].pc = "notFound"]
            /\ UNCHANGED events
    /\ UNCHANGED <<integration, flow, client>>

\* Google does not answer, or not with a link, and may have acted all the same:
\* createMeetEvent throws, deleteEvent only logs it.
CallFails(k) ==
    /\ \/ call[k].pc = "insert" /\ Inserted(k)
       \/ call[k].pc = "delete" /\ Found(k) /\ Deleted(k)
       \/ call[k].pc \in {"insert", "delete"} /\ UNCHANGED events
    /\ call' = [call EXCEPT ![k].pc = "failed"]
    /\ UNCHANGED <<integration, flow, client>>

-------------------------------------------------------------------------------

FlowStep(f) ==
    \/ ConnectToken(f) \/ ExpireState(f) \/ Connect(f) \/ Consent(f) \/ Callback(f)
    \/ GetToken(f) \/ UserInfo(f) \/ GoogleRefuses(f) \/ StoreIntegration(f)

CallStep(k) ==
    \/ \E c \in Coaches : CreateMeetEvent(k, c) \/ \E e \in Calls : DeleteEvent(k, c, e)
    \/ InsertEvent(k) \/ DeleteFromCalendar(k) \/ CallFails(k)

Next == (\E f \in Flows : FlowStep(f)) \/ (\E k \in Calls : CallStep(k))

Spec == Init /\ [][Next]_vars

-------------------------------------------------------------------------------

\* Coach c has connected account a through a flow of her own.
Connected(c, a) ==
    \E f \in Flows : flow[f].pc = "connected" /\ flow[f].coach = c /\ flow[f].account = a

\* A booking's Meet room is in a calendar of its own coach, however the flows and
\* calls of several coaches overlap on the platform's one OAuth app
\* (newOAuthClient, handleCallback, getAuthenticatedClient).
RoomsInOwnCalendar ==
    \A k \in Calls : events[k] # NoEvent => Connected(events[k].coach, events[k].account)

\* The address that status shows is that of the account whose token is stored,
\* and so of the calendar the next event goes to (handleCallback's upsert).
StatusNamesTheAccount ==
    \A c \in Coaches : integration[c] # NotConnected =>
        integration[c].connectedEmail \in {integration[c].account, "unknown"}

\* deleteEvent, which ignores an event it does not find, leaves a room open only
\* when the coach has connected another account than the room's
\* (getAuthenticatedClient reads the account of today).
RoomsAreFound ==
    \A k \in Calls : call[k].pc = "notFound" =>
        LET e == events[call[k].event]
        IN e.state = "deleted" \/ \E a \in Accounts \ {e.account} : Connected(e.coach, a)

-------------------------------------------------------------------------------
(* Why: what flows, rows and calls in flight hold is always the coach's own. *)

FlowInv ==
    \A f \in Flows :
        /\ flow[f].pc # "idle" => flow[f].coach \in Coaches
        /\ flow[f].pc \in {"getToken", "userinfo", "upsert", "connected"} =>
             flow[f].account \in Accounts
        /\ flow[f].pc = "userinfo" => client[f] = flow[f].account
        /\ flow[f].pc = "upsert" => flow[f].email \in {flow[f].account, "unknown"}

IntegrationInv ==
    \A c \in Coaches : integration[c] # NotConnected => Connected(c, integration[c].account)

CallInv ==
    \A k \in Calls :
        /\ call[k].pc \in {"idle", "insert"} => events[k] = NoEvent
        /\ call[k].pc \in {"insert", "delete"} =>
             /\ call[k].coach \in Coaches
             /\ client[k] \in Accounts
             /\ Connected(call[k].coach, client[k])
        /\ call[k].pc = "created" => events[k] # NoEvent /\ events[k].coach = call[k].coach
        /\ call[k].pc \in {"delete", "notFound"} =>
             /\ call[k].event \in Calls
             /\ events[call[k].event] # NoEvent
             /\ events[call[k].event].coach = call[k].coach

IndInv ==
    /\ TypeOK /\ FlowInv /\ IntegrationInv /\ CallInv
    /\ RoomsInOwnCalendar /\ StatusNamesTheAccount /\ RoomsAreFound

===============================================================================
