----------------------------- MODULE MCReviews -----------------------------
(* A small instance of Reviews for TLC: two missions, the second after the
   first, a task (assigned or the student's own), an application. *)
EXTENDS Reviews

CONSTANTS m1, m2

Chain == [m \in {m1, m2} |-> IF m = m2 THEN m1 ELSE None]
=============================================================================
