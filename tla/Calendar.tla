------------------------------ MODULE Calendar ------------------------------
(***************************************************************************)
(* What a staff member's calendar promises: an open meeting reserves an     *)
(* interval, and the intervals one staff member has reserved never overlap. *)
(* Reserving, moving and releasing are single steps here; Bookings shows    *)
(* that the requests of backend/apps/admissions/views/portal.py, which      *)
(* check, wait for locks and write in several steps, implement it.          *)
(***************************************************************************)
EXTENDS Integers

CONSTANTS
    Ids,    \* meetings
    Staff,  \* staff members
    Times,  \* when an interval may start
    Lengths,\* how long it may be
    Free    \* a meeting that reserves nothing

VARIABLE reserved \* [Ids -> reserved interval, or Free]

Interval == [staff : Staff, start : Times, dur : Lengths]

\* Half-open intervals [start, start + dur) of one staff member meet.
Meet(x, y) ==
    /\ x.staff = y.staff
    /\ x.start < y.start + y.dur
    /\ y.start < x.start + x.dur

FreeFor(id, interval) ==
    \A other \in Ids \ {id} : reserved[other] = Free \/ ~Meet(reserved[other], interval)

Init == reserved = [id \in Ids |-> Free]

\* A new reservation, or the move of one to another time of the same person.
Reserve(id) ==
    \E interval \in Interval :
        /\ reserved[id] # Free => reserved[id].staff = interval.staff
        /\ FreeFor(id, interval)
        /\ reserved' = [reserved EXCEPT ![id] = interval]

Release(id) ==
    /\ reserved[id] # Free
    /\ reserved' = [reserved EXCEPT ![id] = Free]

Next == \E id \in Ids : Reserve(id) \/ Release(id)

Spec == Init /\ [][Next]_reserved

\* No two reservations of one staff member overlap.
Disjoint ==
    \A a, b \in Ids :
        a # b /\ reserved[a] # Free /\ reserved[b] # Free => ~Meet(reserved[a], reserved[b])
=============================================================================
