-------------------------- MODULE ReservationCalendar --------------------------
(***************************************************************************)
(* What the booking backend promises: a calendar in which a slot is        *)
(* reserved, moved and released in one step each, and a reserved slot is   *)
(* never given out twice.  BookingSystem implements it.                    *)
(***************************************************************************)
EXTENDS Integers

CONSTANTS Ids, Coaches

VARIABLE reserved    \* per reservation: Free, its slot, or Released

Slots == [coachId : Coaches, startAt : Nat, endAt : Nat]
Free == [state |-> "free"]
Released == [state |-> "released"]

\* Slots s and t cannot both be given out.
Collide(s, t) ==
    s.coachId = t.coachId /\ s.startAt < t.endAt /\ t.startAt < s.endAt

\* The slot reservation i has after the step is nobody else's.
TakesFreeSlot(i) ==
    /\ reserved'[i] \in Slots
    /\ \A j \in Ids \ {i} : reserved[j] \in Slots => ~ Collide(reserved[j], reserved'[i])
    /\ reserved' = [reserved EXCEPT ![i] = reserved'[i]]

Reserve(i) == reserved[i] = Free /\ TakesFreeSlot(i)

\* A reservation keeps its coach and its length when it is moved.
Move(i) ==
    /\ reserved[i] \in Slots
    /\ TakesFreeSlot(i)
    /\ reserved'[i].coachId = reserved[i].coachId
    /\ reserved'[i].endAt - reserved'[i].startAt = reserved[i].endAt - reserved[i].startAt

\* A released slot is free for others; the reservation itself is over.
Release(i) ==
    /\ reserved[i] \in Slots
    /\ reserved' = [reserved EXCEPT ![i] = Released]

Init == reserved = [i \in Ids |-> Free]

Next == \E i \in Ids : Reserve(i) \/ Move(i) \/ Release(i)

Spec == Init /\ [][Next]_reserved

===============================================================================
