SPECIFICATION FairSpec
CONSTANTS
    a = a
    b = b
    c1 = c1
    Schools = {a, b}
    Counselors = {c1}
    Requests = {r1, r2, r3}
    Students = {1, 2, 3}
    Invites = {1, 2}
    Emails = {e1}
    Home <- Homes
    Populations <- Begins
    Seats <- SmallPlan
    PendingCap = 1
    Scripts <- RaceScripts
    None = None
    Gone = Gone
CHECK_DEADLOCK FALSE
INVARIANT TypeOK
INVARIANT PersonalInviteAdmitsOne
INVARIANT DeadlockTakesEditorOrLists
PROPERTY RevokedInviteAdmitsNobody
PROPERTY JoinsWithinCap
INVARIANT SeatTakenWithinPlan
PROPERTY ConfirmedIsNotDeleted
PROPERTY RequestsEnd
