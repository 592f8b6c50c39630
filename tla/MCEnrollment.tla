---------------------------- MODULE MCEnrollment ----------------------------
(* Small instances of Enrollment for TLC. *)
EXTENDS Enrollment

CONSTANTS a, b, c1

Homes == [c \in {c1} |-> a]
SmallPlan == [k \in {a, b} |-> IF k = a THEN 2 ELSE 1]

Student(k, c) ==
    [school |-> k, acct |-> k, active |-> TRUE, off |-> FALSE, pending |-> FALSE,
     counselor |-> c, via |-> None, email |-> None]
Enrol(accounts) == [s \in Students |-> IF s \in DOMAIN accounts THEN accounts[s] ELSE None]

\* No student yet; one of the counselor's; one in each school, or two that fill
\* school a, unassigned.
Begins == {Enrol(<<>>), Enrol(<<Student(a, c1)>>), Enrol(<<Student(a, None), Student(b, None)>>),
           Enrol(<<Student(a, None), Student(a, None)>>)}
One == {Enrol(<<Student(a, c1)>>)}

Arriving(counts) == [op \in Ops |-> IF op \in DOMAIN counts THEN counts[op] ELSE 0]

\* Joins race for an invite, a cap and the seats; staff decides twice; moves,
\* edits and transfers race, and lists of students overlap.
RaceScripts ==
    {Arriving([invite |-> 1, accept |-> 2, reject |-> 1, revoke |-> 1]),
     Arriving([invite |-> 2, accept |-> 2, expire |-> 1]),
     Arriving([invite |-> 1, accept |-> 1, confirm |-> 1, reject |-> 1, create |-> 1]),
     Arriving([patch |-> 2, edit |-> 1]),
     Arriving([patch |-> 1, deactivate |-> 1, reactivate |-> 1]),
     Arriving([deactivate |-> 1, reactivate |-> 1, create |-> 1]),
     Arriving([assign |-> 1, transfer |-> 1, patch |-> 1]),
     Arriving([assign |-> 2, transfer |-> 1]),
     Arriving([invite |-> 1, accept |-> 1, reject |-> 1, deactivate |-> 1, edit |-> 1]),
     Arriving([edit |-> 1, deactivate |-> 1, create |-> 1]),
     Arriving([create |-> 2, lapse |-> 1])}

EditScripts == {Arriving([patch |-> 2])}
=============================================================================
