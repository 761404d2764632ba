---------------------------- MODULE MCBookingSystem ----------------------------
(* Instances of BookingSystem for TLC. *)
EXTENDS BookingSystem, TLC

CONSTANTS r1, r2, r3, anna, bela, w1, w2

Symmetry == Permutations(Requests) \cup Permutations(Workers)

\* Two event types of one coach, of length 1 and 2.
ShortAndLong ==
    [coachId : {anna}, durationMinutes : {1, 2}, isActive : {TRUE}, locations : {{"PHONE"}}]

\* One event type held on Google Meet only.
MeetOnly ==
    [coachId : {anna}, durationMinutes : {1}, isActive : {TRUE}, locations : {{"GOOGLE_MEET"}}]

Range(from, to) == [startMinute |-> from, endMinute |-> to]

\* The coach works the whole day, or has blocked the end of it.
OpenOrBlocked == {{Range(0, 4)}, {Range(0, 2)}}

OpenDay == {{Range(0, 5)}}
================================================================================
