--------------------------- MODULE MCAuthSession ---------------------------
(* Small instances of AuthSession for TLC. *)
EXTENDS AuthSession, TLC

Bounds(withLocks, sessions, refreshes, faultCount) ==
    [locks |-> withLocks, sessions |-> sessions, refreshes |-> refreshes, faults |-> faultCount]

\* Two tabs: two refreshes race with one fault, or a second session with one
\* refresh and one fault, or both tries of a sign-out fail; without Web Locks too.
RaceSettings ==
    {Bounds(TRUE, 2, 1, 1), Bounds(TRUE, 1, 2, 1),
     Bounds(TRUE, 1, 1, 2), Bounds(FALSE, 1, 2, 1), Bounds(FALSE, 2, 1, 0)}
=============================================================================
