------------------------------ MODULE EventTypes ------------------------------
(***************************************************************************)
(* EventTypesService (event-types/event-types.service.ts): the services of *)
(* one coach, their order in the catalog, and the bookings that refer to   *)
(* them.  Each request runs once and reads before it writes; reorder       *)
(* updates row by row in one READ COMMITTED transaction and keeps the row  *)
(* locks Postgres gives it until the end.                                  *)
(***************************************************************************)
EXTENDS Integers, Sequences, FiniteSetsExt

CONSTANTS
    Types,           \* ids of the EventType table; never reused
    Calls,           \* the requests of a behaviour
    Operations,      \* the endpoints a behaviour may call
    InitialOrder,    \* the catalog at the start, in display order
    Orders,          \* values of dto.ids
    Positions,       \* values of dto.position
    Null,            \* a field or an id that is not given
    FaultyCalls      \* requests whose connection may be lost

ASSUME IdsAssumption ==
    /\ Null \notin Types \cup Calls
    /\ InitialOrder \in Seq(Types) /\ Orders \subseteq Seq(Types)

VARIABLES
    types,           \* the EventType table
    booked,          \* the eventTypeIds of the Booking table
    lock,            \* per row: the reorder that has updated it, or Null
    call             \* per request: where it is and what it holds

vars == <<types, booked, lock, call>>

-------------------------------------------------------------------------------

NoRow == [state |-> "none"]
Removed == [state |-> "removed"]

\* id and dto: what is written where; ids and next: the rows of a reorder and
\* the one it is at.
NewCall == [op |-> "none", pc |-> "new", id |-> Null, position |-> Null,
            isActive |-> Null, ids |-> <<>>, next |-> 1]

Running == {"insert", "write", "reorder"}

\* "rejected" is a 4xx answer, "failed" a 5xx one.
Answered == {"ok", "rejected", "failed"}

Stored(t) == types[t] \notin {NoRow, Removed}

Listed(ids) == {ids[k] : k \in DOMAIN ids}

\* The position an id gets from a list: its index, counted from 0.
PositionIn(ids, t) == (CHOOSE k \in DOMAIN ids : ids[k] = t) - 1

Init ==
    /\ types = [t \in Types |->
                  IF t \in Listed(InitialOrder)
                  THEN [position |-> PositionIn(InitialOrder, t), isActive |-> TRUE]
                  ELSE NoRow]
    /\ booked = {}
    /\ lock = [t \in Types |-> Null]
    /\ call = [c \in Calls |-> NewCall]

-------------------------------------------------------------------------------
(* The reads of a request, up to its write *)

Begin(c, state) ==
    /\ call[c] = NewCall
    /\ state.op \in Operations
    /\ call' = [call EXCEPT ![c] = state]
    /\ UNCHANGED <<types, booked, lock>>

\* One past the greatest position, 0 in an empty catalog.
NextPosition == Max({-1} \cup {types[t].position : t \in {u \in Types : Stored(u)}}) + 1

\* create: dto.position ?? nextPosition
Create(c, position) ==
    Begin(c, [NewCall EXCEPT !.op = "create", !.pc = "insert",
                !.position = IF position = Null THEN NextPosition ELSE position])

\* assertOwnership of update, archive and remove.
Owned(t) == IF Stored(t) THEN "write" ELSE "rejected"

Update(c, t, position, isActive) ==
    Begin(c, [NewCall EXCEPT !.op = "update", !.pc = Owned(t), !.id = t,
                !.position = position, !.isActive = isActive])

Archive(c, t) ==
    Begin(c, [NewCall EXCEPT !.op = "archive", !.pc = Owned(t), !.id = t, !.isActive = FALSE])

Remove(c, t) == Begin(c, [NewCall EXCEPT !.op = "remove", !.pc = Owned(t), !.id = t])

\* reorder: one row found per id, so no id is given twice.
Reorder(c, ids) ==
    LET owned == {t \in Listed(ids) : Stored(t)}
    IN Begin(c, [NewCall EXCEPT !.op = "reorder", !.ids = ids,
                   !.pc = IF Cardinality(owned) = Len(ids) THEN "reorder" ELSE "rejected"])

\* BookingsService.create reads the event type before its transaction.
Book(c, t) ==
    Begin(c, [NewCall EXCEPT !.op = "book", !.id = t,
                !.pc = IF Stored(t) /\ types[t].isActive THEN "insert" ELSE "rejected"])

-------------------------------------------------------------------------------
(* Its write *)

At(c, operation, pc) == call[c].op = operation /\ call[c].pc = pc

Answer(c, answer) == call' = [call EXCEPT ![c].pc = answer]

\* @default(cuid()): an id that was never used.
FreshId == CHOOSE t \in Types : types[t] = NoRow

InsertType(c) ==
    /\ At(c, "create", "insert")
    /\ types' = [types EXCEPT ![FreshId] = [position |-> call[c].position, isActive |-> TRUE]]
    /\ Answer(c, "ok")
    /\ UNCHANGED <<booked, lock>>

Given(value, existing) == IF value = Null THEN existing ELSE value

\* An UPDATE waits for the row's lock, and fails when the row is gone.
WriteUpdate(c) ==
    LET t == call[c].id
    IN /\ At(c, "update", "write") \/ At(c, "archive", "write")
       /\ lock[t] = Null
       /\ IF Stored(t)
          THEN /\ types' = [types EXCEPT ![t] =
                     [position |-> Given(call[c].position, @.position),
                      isActive |-> Given(call[c].isActive, @.isActive)]]
               /\ Answer(c, "ok")
          ELSE UNCHANGED types /\ Answer(c, "failed")
       /\ UNCHANGED <<booked, lock>>

\* Mutant: the relation without onDelete: Restrict.
DeletableAlways(t) == TRUE

\* Booking.eventType is onDelete: Restrict.
Deletable(t) == t \notin booked

WriteRemove(c) ==
    LET t == call[c].id
    IN /\ At(c, "remove", "write")
       /\ lock[t] = Null
       /\ IF Stored(t) /\ Deletable(t)
          THEN types' = [types EXCEPT ![t] = Removed] /\ Answer(c, "ok")
          ELSE UNCHANGED types /\ Answer(c, IF Stored(t) THEN "rejected" ELSE "failed")
       /\ UNCHANGED <<booked, lock>>

\* The foreign key refuses a booking whose event type is gone.
InsertBooking(c) ==
    LET t == call[c].id
    IN /\ At(c, "book", "insert")
       /\ IF Stored(t)
          THEN booked' = booked \cup {t} /\ Answer(c, "ok")
          ELSE UNCHANGED booked /\ Answer(c, "failed")
       /\ UNCHANGED <<types, lock>>

-------------------------------------------------------------------------------
(* The transaction of reorder *)

InTransaction(c) == At(c, "reorder", "reorder")

\* The row the next UPDATE is for; Null when all are done.
NextRow(c) == IF call[c].next <= Len(call[c].ids) THEN call[c].ids[call[c].next] ELSE Null

ReleaseLocks(c) == lock' = [t \in Types |-> IF lock[t] = c THEN Null ELSE lock[t]]

\* Mutant: the updates sent one by one, outside a transaction.
UpdateRowAlone(c) ==
    /\ InTransaction(c) /\ NextRow(c) # Null
    /\ lock[NextRow(c)] = Null
    /\ Stored(NextRow(c))
    /\ types' = [types EXCEPT ![NextRow(c)].position = call[c].next - 1]
    /\ call' = [call EXCEPT ![c].next = @ + 1]
    /\ UNCHANGED <<booked, lock>>

\* One UPDATE: it waits for the lock, takes it, and shows when all are done.
UpdateRow(c) ==
    /\ InTransaction(c) /\ NextRow(c) # Null
    /\ lock[NextRow(c)] = Null
    /\ Stored(NextRow(c))
    /\ lock' = [lock EXCEPT ![NextRow(c)] = c]
    /\ call' = [call EXCEPT ![c].next = @ + 1]
    /\ UNCHANGED <<types, booked>>

CommitReorder(c) ==
    /\ InTransaction(c) /\ NextRow(c) = Null
    /\ types' = [t \in Types |->
                   IF t \in Listed(call[c].ids)
                   THEN [types[t] EXCEPT !.position = PositionIn(call[c].ids, t)]
                   ELSE types[t]]
    /\ ReleaseLocks(c)
    /\ Answer(c, "ok")
    /\ UNCHANGED booked

\* Requests that wait for each other in a circle.
Holder(c) == lock[NextRow(c)]
Waits(c) == InTransaction(c) /\ NextRow(c) # Null /\ Holder(c) # Null

Deadlocked(c) ==
    \E circle \in SUBSET Calls :
        /\ c \in circle
        /\ \A d \in circle : Waits(d) /\ Holder(d) \in circle
        /\ \A d \in circle : \E e \in circle : Holder(e) = d

\* Mutant: a failed transaction that stays open.
RollbackKeepsLocks(c) ==
    /\ InTransaction(c)
    /\ \/ NextRow(c) # Null /\ lock[NextRow(c)] = Null /\ ~ Stored(NextRow(c))
       \/ Deadlocked(c)
       \/ c \in FaultyCalls
    /\ Answer(c, "failed")
    /\ UNCHANGED <<types, booked, lock>>

\* The row of an UPDATE is gone, Postgres breaks a deadlock, or the connection
\* is lost: all updates are undone.
Rollback(c) ==
    /\ InTransaction(c)
    /\ \/ NextRow(c) # Null /\ lock[NextRow(c)] = Null /\ ~ Stored(NextRow(c))
       \/ Deadlocked(c)
       \/ c \in FaultyCalls
    /\ ReleaseLocks(c)
    /\ Answer(c, "failed")
    /\ UNCHANGED <<types, booked>>

-------------------------------------------------------------------------------

\* A PATCH with isActive false and no position writes what archive writes.
Start(c) ==
    \/ \E position \in Positions \cup {Null} : Create(c, position)
    \/ \E t \in Types : \/ Archive(c, t) \/ Remove(c, t) \/ Book(c, t)
                        \/ \E position \in Positions \cup {Null}, isActive \in {TRUE, Null} :
                             Update(c, t, position, isActive)
    \/ \E ids \in Orders : Reorder(c, ids)

Step(c) ==
    \/ InsertType(c)
    \/ WriteUpdate(c) \/ WriteRemove(c) \/ InsertBooking(c)
    \/ UpdateRow(c) \/ CommitReorder(c) \/ Rollback(c)

Next == \E c \in Calls : Start(c) \/ Step(c)

Spec == Init /\ [][Next]_vars

\* Node carries a started request on, Postgres grants a lock that is free and
\* breaks a deadlock.
FairSpec == Spec /\ \A c \in Calls : WF_vars(Step(c))

-------------------------------------------------------------------------------

\* The orders the catalog may be in: the first one, or a reorder's that succeeded.
Arranged == {InitialOrder} \cup {call[c].ids : c \in {d \in Calls : At(d, "reorder", "ok")}}

\* Nothing has placed a single row by itself.
OnlyReordered ==
    \A c \in Calls : /\ call[c].op # "create"
                     /\ call[c].op = "update" => call[c].position = Null

\* A catalog that is only reordered as a whole and thinned out is in the order of
\* one whole request, whatever reorders and deletions cross and fail half-way
\* (reorder's transaction).
OrderIsWhole ==
    OnlyReordered =>
        \E ids \in Arranged : \A t \in Types :
            Stored(t) => t \in Listed(ids) /\ types[t].position = PositionIn(ids, t)

\* A booking's event type is never deleted, although remove and a booking check
\* and write in two steps each (onDelete: Restrict).
BookedTypesStay == \A t \in booked : Stored(t)

\* Every request is answered: reorders that lock rows in opposite orders do not
\* wait for each other for ever.
CallsAreAnswered == \A c \in Calls : call[c].pc \in Running ~> call[c].pc \in Answered

-------------------------------------------------------------------------------
(* Why the properties hold *)

Fields == {"op", "pc", "id", "position", "isActive", "ids", "next"}

\* A row is one of the table, and a request holds what the operation it is for
\* gave it.
ShapeInv ==
    /\ types = [t \in Types |-> types[t]]
    /\ \A t \in Types : Stored(t) => DOMAIN types[t] = {"position", "isActive"}
    /\ booked \subseteq Types
    /\ lock \in [Types -> Calls \cup {Null}]
    /\ call = [c \in Calls |-> call[c]]
    /\ \A c \in Calls : /\ DOMAIN call[c] = Fields
                        /\ call[c].op = "archive" => call[c].position = Null
                        /\ call[c].op = "book" => call[c].id \in Types

\* The list names no row twice.
NoRepeat(ids) == \A j, k \in DOMAIN ids : ids[j] = ids[k] => j = k

\* The rows a transaction has updated are there and are locked by it, and it is
\* for a list that names no row twice.
TransactionInv ==
    /\ \A c \in Calls : call[c].op = "reorder" /\ call[c].pc \in {"reorder", "ok"} =>
         call[c].ids \in Orders /\ NoRepeat(call[c].ids)
    /\ \A c \in Calls : InTransaction(c) =>
         /\ call[c].next \in Nat \ {0}
         /\ \A k \in DOMAIN call[c].ids : k < call[c].next =>
              lock[call[c].ids[k]] = c /\ Stored(call[c].ids[k])

\* The rows are those of the catalog at the start, as far as they are left.
CatalogInv == OnlyReordered => \A t \in Types : Stored(t) => t \in Listed(InitialOrder)

\* The lists given to reorder name every row of the catalog, or one of them twice.
WholeOrders ==
    \A ids \in Orders : NoRepeat(ids) => Listed(InitialOrder) \subseteq Listed(ids)

===============================================================================
