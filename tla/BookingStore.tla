----------------------------- MODULE BookingStore -----------------------------
(***************************************************************************)
(* The state the booking backend shares between requests and job workers:  *)
(* the Booking table (prisma/schema.prisma), Postgres' bookkeeping of the  *)
(* open SERIALIZABLE transactions, pg-boss' job table and the coach's      *)
(* Google calendar.                                                        *)
(*                                                                         *)
(* Every HTTP request is a member of Requests and runs once.  The rows it  *)
(* creates are named after it: the booking inserted by request r has id r, *)
(* the job it sends has id r, and the Google event inserted by the n-th    *)
(* attempt of that job has id <<r, n>>.  The code draws these ids fresh    *)
(* (uuid, nanoid, Google's own), so the naming loses nothing.              *)
(***************************************************************************)
EXTENDS Integers

CONSTANTS
    Coaches,      \* ids of the Coach table
    Requests,     \* the HTTP requests of a behaviour
    RetryLimit,   \* retryLimit of the booking-notification queue
    NoEvent       \* a null googleEventId

ASSUME RetryLimitAssumption == RetryLimit \in Nat

EventIds == Requests \X (0 .. RetryLimit)

ASSUME NoEventAssumption == NoEvent \notin EventIds

VARIABLES
    bookings,     \* the Booking table, Absent where there is no row
    claim,        \* per request: the slot its transaction wants to reserve
    tx,           \* per request: "none", "open" or "doomed" (see MayCommit)
    jobs,         \* pg-boss' job table, NoJob where nothing was sent
    events        \* the coaches' Google calendars

storeVars == <<bookings, claim, tx, jobs, events>>

-------------------------------------------------------------------------------
(* Types *)

\* IN_PERSON and PHONE behave alike everywhere but in the wording of a mail.
Locations == {"GOOGLE_MEET", "PHONE"}

Kinds == {"confirmed", "cancelled", "rescheduled"}

Cancellers == {"CLIENT", "COACH"}

\* meetLink and googleEventId are always written together, so one field
\* stands for both.
Rows == [coachId : Coaches, startAt : Nat, endAt : Nat,
         location : Locations, status : {"CONFIRMED", "CANCELLED"},
         cancelledBy : Cancellers \cup {"NOBODY"},
         googleEventId : EventIds \cup {NoEvent}]

Absent == [status |-> "ABSENT"]

\* id is the row the transaction writes and leaves out of its overlap query.
Claims == [id : Requests, coachId : Coaches, startAt : Nat, endAt : Nat]

NoClaim == [id |-> "none"]

Jobs == [state : {"created", "active", "retry", "completed", "failed"},
         bookingId : Requests, kind : Kinds, retryCount : 0 .. RetryLimit]

NoJob == [state |-> "none"]

Events == [state : {"none", "live", "deleted"}, startAt : Nat, endAt : Nat]

StoreTypeOK ==
    /\ bookings \in [Requests -> Rows \cup {Absent}]
    /\ claim \in [Requests -> Claims \cup {NoClaim}]
    /\ tx \in [Requests -> {"none", "open", "doomed"}]
    /\ jobs \in [Requests -> Jobs \cup {NoJob}]
    /\ events \in [EventIds -> Events]

StoreInit ==
    /\ bookings = [b \in Requests |-> Absent]
    /\ claim = [r \in Requests |-> NoClaim]
    /\ tx = [r \in Requests |-> "none"]
    /\ jobs = [j \in Requests |-> NoJob]
    /\ events = [e \in EventIds |-> [state |-> "none", startAt |-> 0, endAt |-> 0]]

-------------------------------------------------------------------------------
(* Slots and the overlap query *)

\* Two half-open intervals meet; the query's startAt < end and endAt > start.
Overlaps(a, b) == a.startAt < b.endAt /\ a.endAt > b.startAt

SameSlot(a, b) == a.coachId = b.coachId /\ Overlaps(a, b)

Exists(b) == bookings[b] # Absent

Confirmed(b) == bookings[b].status = "CONFIRMED"

\* tx.booking.findFirst({coachId, CONFIRMED, id: not, startAt: lt, endAt: gt}).
Taken(c) == \E b \in Requests \ {c.id} : Confirmed(b) /\ SameSlot(bookings[b], c)

-------------------------------------------------------------------------------
(* Postgres, as far as the code relies on it.  A SERIALIZABLE transaction   *)
(* reads a snapshot and writes when it commits.  It is refused (P2034) when *)
(* the row it updates was changed since its snapshot, and when it and a     *)
(* serializable transaction that committed since would each have seen the   *)
(* other's write: no serial order explains both.  Postgres may refuse more  *)
(* than that; see SerializationFailure in Bookings.                         *)

\* Mutant: the transaction run without isolationLevel: Serializable.
MayCommitReadCommitted(r) == tx[r] # "none"

MayCommit(r) == tx[r] = "open"

\* prisma.booking.update outside a transaction: an autocommitted write of b.
UpdateRow(b, row) ==
    /\ bookings' = [bookings EXCEPT ![b] = row]
    /\ tx' = [r \in Requests |-> IF tx[r] = "open" /\ claim[r].id = b
                                 THEN "doomed" ELSE tx[r]]

\* Open transactions s and r that no serial order can both have committed.
Clash(s, r) == claim[s].id = claim[r].id \/ SameSlot(claim[s], claim[r])

\* COMMIT of r's serializable transaction, which writes the row claim[r].id.
CommitRow(r, row) ==
    /\ MayCommit(r)
    /\ bookings' = [bookings EXCEPT ![claim[r].id] = row]
    /\ tx' = [s \in Requests |->
                 IF s = r THEN "none"
                 ELSE IF tx[s] = "open" /\ Clash(s, r) THEN "doomed"
                 ELSE tx[s]]
===============================================================================
