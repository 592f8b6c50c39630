SPECIFICATION Spec
CONSTANTS
    a = a
    b = b
    c1 = c1
    Schools = {a, b}
    Counselors = {c1}
    Requests = {r1, r2}
    Students = {1}
    Invites = {1}
    Emails = {e1}
    Home <- Homes
    Populations <- One
    Seats <- SmallPlan
    PendingCap = 1
    Scripts <- EditScripts
    None = None
    Gone = Gone
CHECK_DEADLOCK FALSE
INVARIANT AccountFollowsProfile
