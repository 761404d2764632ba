----------------------------- MODULE SiteRegistry ------------------------------
(***************************************************************************)
(* What the coach accounts promise: a register in which an email stands    *)
(* for one coach for good and a site for one coach at a time, entered in   *)
(* one step however many requests and invitations the entry took.          *)
(* CoachAccounts implements it.                                            *)
(***************************************************************************)
CONSTANTS
    Ids, Emails, Sites,
    Nobody,
    First, FirstEmail    \* who is in it from the start

VARIABLES
    account,             \* per email: whose it is
    owner,               \* per site: whose it is
    known                \* the sites that have ever been allowed

vars == <<account, owner, known>>

Init ==
    /\ account = [e \in Emails |-> IF e = FirstEmail THEN First ELSE Nobody]
    /\ owner = [s \in Sites |-> Nobody]
    /\ known \subseteq Sites

Member(i) == \E e \in Emails : account[e] = i

\* A newcomer takes an email and a site that are nobody's.
Join(i, email, site) ==
    /\ account[email] = Nobody
    /\ owner[site] = Nobody
    /\ ~ Member(i)
    /\ account' = [account EXCEPT ![email] = i]
    /\ owner' = [owner EXCEPT ![site] = i]
    /\ UNCHANGED known

\* A member's new site was nobody's, and the one she had is nobody's from then on.
Move(i, site) ==
    /\ owner[site] = Nobody
    /\ Member(i)
    /\ owner' = [s \in Sites |-> IF s = site THEN i ELSE IF owner[s] = i THEN Nobody ELSE owner[s]]
    /\ UNCHANGED <<account, known>>

Learn(site) ==
    /\ known' = known \cup {site}
    /\ UNCHANGED <<account, owner>>

Next ==
    \/ \E site \in Sites : Learn(site)
    \/ \E i \in Ids, site \in known : Move(i, site) \/ \E email \in Emails : Join(i, email, site)

Spec == Init /\ [][Next]_vars

===============================================================================
