----------------------------- MODULE MCBookings -----------------------------
(* Small instances of Bookings for TLC. *)
EXTENDS Bookings

Arriving(counts) == [op \in Ops |-> IF op \in DOMAIN counts THEN counts[op] ELSE 0]

\* Two students race for a published time that staff moves; two reschedules of
\* one meeting; a meeting moves while another is booked; weekly times race with
\* a moved one; a time is deleted while a meeting moves onto it; a meeting is
\* cleared off the list while it moves.
RaceScripts ==
    {Arriving([publish |-> 1, claim |-> 2, moveSlot |-> 1]),
     Arriving([book |-> 1, move |-> 2]),
     Arriving([book |-> 2, move |-> 1]),
     Arriving([repeat |-> 1, moveSlot |-> 1, book |-> 1]),
     Arriving([publish |-> 1, claim |-> 1, move |-> 1, dropSlot |-> 1]),
     Arriving([book |-> 1, move |-> 1, destroy |-> 1])}
=============================================================================
